-------------------------- MODULE WorkspaceProofs --------------------------
(***************************************************************************)
(* Proofs about Workspace, for any windows, documents and number of tabs:  *)
(* a window that shows tabs has one of them active, a preview never        *)
(* outlives its editor, and changes that can be persisted are never gone   *)
(* without the user having been asked.                                     *)
(*                                                                         *)
(* The last one needs to know where a document is.  The invariant Inv says *)
(* of each that it has one home at the most: a tab that is not about to be *)
(* removed, the slot of a window, or the window that is being created; and *)
(* that a modified one has a home, until the session ends.                 *)
(***************************************************************************)
EXTENDS Workspace, SequenceTheorems, WellFoundedInduction, TLAPS

-----------------------------------------------------------------------------
(* Lists without duplicates. *)

Elems(s) == {s[i] : i \in 1 .. Len(s)}
Distinct(s) == \A i, j \in 1 .. Len(s) : s[i] = s[j] => i = j

LEMMA Typed ==
    ASSUME NEW S, NEW s \in Seq(S)
    PROVE  /\ Len(s) \in Nat /\ DOMAIN s = 1 .. Len(s)
           /\ \A i \in 1 .. Len(s) : s[i] \in S
           /\ Elems(s) \subseteq S /\ (Elems(s) = {} <=> s = <<>>)
           /\ \A e : Contains(s, e) <=> e \in Elems(s)
<1>1. /\ Len(s) \in Nat /\ DOMAIN s = 1 .. Len(s)
      /\ \A i \in 1 .. Len(s) : s[i] \in S
  OBVIOUS
<1>2. s # <<>> => Len(s) \in Nat \ {0}
  BY EmptySeq
<1>3. s = <<>> => Len(s) = 0
  OBVIOUS
<1>4. \A e : Contains(s, e) <=> e \in Elems(s)
  BY DEF Contains, Elems
<1>5. Elems(s) \subseteq S
  BY <1>1 DEF Elems
<1>6. ASSUME s # <<>> PROVE Elems(s) # {}
  <2>1. 1 \in 1 .. Len(s)
    BY <1>2, <1>6
  <2>. QED  BY <2>1 DEF Elems
<1>7. ASSUME s = <<>> PROVE Elems(s) = {}
  <2>1. 1 .. Len(s) = {}
    BY <1>3, <1>7
  <2>. QED  BY <2>1 DEF Elems
<1>. QED  BY <1>1, <1>4, <1>5, <1>6, <1>7

LEMMA Placed ==
    ASSUME NEW S, NEW s \in Seq(S), NEW e \in Elems(s)
    PROVE  Position(s, e) \in 1 .. Len(s) /\ s[Position(s, e)] = e
BY Typed DEF Position, Elems

LEMMA Part ==
    ASSUME NEW S, NEW s \in Seq(S), Distinct(s),
           NEW m \in Nat \ {0}, NEW n \in Nat, n <= Len(s)
    PROVE  /\ SubSeq(s, m, n) \in Seq(S) /\ Distinct(SubSeq(s, m, n))
           /\ Elems(SubSeq(s, m, n)) = {s[i] : i \in m .. n}
           /\ Len(SubSeq(s, m, n)) = IF m <= n THEN n - m + 1 ELSE 0
<1>. DEFINE t == SubSeq(s, m, n)
<1>1. Len(s) \in Nat /\ \A i \in 1 .. Len(s) : s[i] \in S
  OBVIOUS
<1>2. m \in Int /\ n \in Int /\ \A i \in m .. n : i \in 1 .. Len(s)
  BY <1>1
<1>3. \A i \in m .. n : s[i] \in S
  BY <1>1, <1>2
<1>4. /\ t \in Seq(S) /\ Len(t) = IF m <= n THEN n - m + 1 ELSE 0
      /\ \A i \in 1 .. n - m + 1 : t[i] = s[m + i - 1]
  BY <1>2, <1>3, SubSeqProperties
<1>. HIDE DEF t
<1>5. \A i \in 1 .. Len(t) : m + i - 1 \in m .. n /\ t[i] = s[m + i - 1]
  <2>. TAKE i \in 1 .. Len(t)
  <2>1. i \in 1 .. n - m + 1
    BY <1>4
  <2>. QED  BY <1>4, <2>1
<1>6. Distinct(t)
  <2>. SUFFICES ASSUME NEW i \in 1 .. Len(t), NEW j \in 1 .. Len(t), t[i] = t[j]
                PROVE  i = j
    BY DEF Distinct
  <2>1. s[m + i - 1] = s[m + j - 1] /\ m + i - 1 \in 1 .. Len(s) /\ m + j - 1 \in 1 .. Len(s)
    BY <1>2, <1>5
  <2>2. m + i - 1 = m + j - 1
    BY <2>1 DEF Distinct
  <2>. QED  BY <1>4, <2>2
<1>7. ASSUME NEW i \in m .. n PROVE s[i] \in Elems(t)
  <2>1. i - m + 1 \in 1 .. Len(t) /\ i - m + 1 \in 1 .. n - m + 1 /\ m + (i - m + 1) - 1 = i
    BY <1>4
  <2>2. t[i - m + 1] = s[i]
    BY <1>4, <2>1
  <2>. QED  BY <2>1, <2>2 DEF Elems
<1>8. Elems(t) \subseteq {s[i] : i \in m .. n}
  BY <1>5 DEF Elems
<1>. QED  BY <1>4, <1>6, <1>7, <1>8 DEF t

LEMMA Joined ==
    ASSUME NEW S, NEW s \in Seq(S), NEW t \in Seq(S)
    PROVE  /\ s \o t \in Seq(S) /\ Len(s \o t) = Len(s) + Len(t)
           /\ Elems(s \o t) = Elems(s) \cup Elems(t)
           /\ Distinct(s) /\ Distinct(t) /\ Elems(s) \cap Elems(t) = {} => Distinct(s \o t)
<1>. DEFINE u == s \o t
<1>1. Len(s) \in Nat /\ Len(t) \in Nat
  OBVIOUS
<1>2. /\ u \in Seq(S) /\ Len(u) = Len(s) + Len(t)
      /\ \A i \in 1 .. Len(s) + Len(t) : u[i] = IF i <= Len(s) THEN s[i] ELSE t[i - Len(s)]
  BY ConcatProperties
<1>. HIDE DEF u
<1>3. ASSUME NEW i \in 1 .. Len(u)
      PROVE  \/ i \in 1 .. Len(s) /\ u[i] = s[i]
             \/ i - Len(s) \in 1 .. Len(t) /\ u[i] = t[i - Len(s)]
  <2>1. CASE i <= Len(s)
    BY <1>1, <1>2, <2>1
  <2>2. CASE ~(i <= Len(s))
    BY <1>1, <1>2, <2>2
  <2>. QED  BY <2>1, <2>2
<1>4. ASSUME NEW i \in 1 .. Len(s) PROVE s[i] \in Elems(u)
  <2>1. i \in 1 .. Len(u) /\ i <= Len(s)
    BY <1>1, <1>2
  <2>2. u[i] = s[i]
    BY <1>2, <2>1
  <2>. QED  BY <2>1, <2>2 DEF Elems
<1>5. ASSUME NEW i \in 1 .. Len(t) PROVE t[i] \in Elems(u)
  <2>1. i + Len(s) \in 1 .. Len(u) /\ ~(i + Len(s) <= Len(s)) /\ i + Len(s) - Len(s) = i
    BY <1>1, <1>2
  <2>2. u[i + Len(s)] = t[i]
    BY <1>2, <2>1
  <2>. QED  BY <2>1, <2>2 DEF Elems
<1>6. Elems(u) = Elems(s) \cup Elems(t)
  <2>1. Elems(u) \subseteq Elems(s) \cup Elems(t)
    BY <1>3 DEF Elems
  <2>2. Elems(s) \subseteq Elems(u) /\ Elems(t) \subseteq Elems(u)
    BY <1>4, <1>5 DEF Elems
  <2>. QED  BY <2>1, <2>2
<1>7. ASSUME Distinct(s), Distinct(t), Elems(s) \cap Elems(t) = {}
      PROVE  Distinct(u)
  <2>. SUFFICES ASSUME NEW i \in 1 .. Len(u), NEW j \in 1 .. Len(u), u[i] = u[j]
                PROVE  i = j
    BY DEF Distinct
  <2>1. \A k \in 1 .. Len(s), l \in 1 .. Len(t) : s[k] # t[l]
    BY <1>7 DEF Elems
  <2>2. CASE i \in 1 .. Len(s) /\ u[i] = s[i]
    BY <1>3, <1>7, <2>1, <2>2 DEF Distinct
  <2>3. CASE i - Len(s) \in 1 .. Len(t) /\ u[i] = t[i - Len(s)]
    <3>1. j - Len(s) \in 1 .. Len(t) /\ u[j] = t[j - Len(s)]
      BY <1>3, <2>1, <2>3
    <3>2. i - Len(s) = j - Len(s)
      BY <1>7, <2>3, <3>1 DEF Distinct
    <3>. QED  BY <1>1, <1>2, <3>2
  <2>. QED  BY <1>3, <2>2, <2>3
<1>. QED  BY <1>2, <1>6, <1>7 DEF u

LEMMA Removed ==
    ASSUME NEW S, NEW s \in Seq(S), Distinct(s), NEW i \in 1 .. Len(s)
    PROVE  /\ RemoveAt(s, i) \in Seq(S) /\ Distinct(RemoveAt(s, i))
           /\ Elems(RemoveAt(s, i)) = Elems(s) \ {s[i]}
           /\ Len(RemoveAt(s, i)) = Len(s) - 1
<1>. DEFINE a == SubSeq(s, 1, i - 1)
            b == SubSeq(s, i + 1, Len(s))
<1>1. Len(s) \in Nat /\ i - 1 \in Nat /\ i - 1 <= Len(s) /\ i + 1 \in Nat \ {0}
  OBVIOUS
<1>2. /\ a \in Seq(S) /\ Distinct(a) /\ Elems(a) = {s[j] : j \in 1 .. i - 1}
      /\ b \in Seq(S) /\ Distinct(b) /\ Elems(b) = {s[j] : j \in i + 1 .. Len(s)}
  BY <1>1, Part
<1>3. RemoveAt(s, i) = a \o b
  BY DEF RemoveAt
<1>. HIDE DEF a, b
<1>4. /\ \A j \in 1 .. i - 1 : j \in 1 .. Len(s) /\ j # i
      /\ \A j \in i + 1 .. Len(s) : j \in 1 .. Len(s) /\ j # i
      /\ \A j \in 1 .. i - 1 : \A k \in i + 1 .. Len(s) : j # k
      /\ \A j \in 1 .. Len(s) : j \in 1 .. i - 1 \/ j \in i + 1 .. Len(s) \/ j = i
  BY <1>1
<1>5. Elems(a) \cap Elems(b) = {}
  <2>. SUFFICES ASSUME NEW f, f \in Elems(a), f \in Elems(b) PROVE FALSE
    OBVIOUS
  <2>1. PICK j \in 1 .. i - 1 : f = s[j]
    BY <1>2
  <2>2. PICK k \in i + 1 .. Len(s) : f = s[k]
    BY <1>2
  <2>. QED  BY <1>4, <2>1, <2>2 DEF Distinct
<1>6. Elems(a) \cup Elems(b) = Elems(s) \ {s[i]}
  <2>1. \A e \in Elems(a) \cup Elems(b) : e \in Elems(s) /\ e # s[i]
    BY <1>2, <1>4, Zenon DEF Distinct, Elems
  <2>2. \A e \in Elems(s) : e = s[i] \/ e \in Elems(a) \cup Elems(b)
    BY <1>2, <1>4, Zenon DEF Elems
  <2>. QED  BY <2>1, <2>2
<1>7. a \o b \in Seq(S) /\ Distinct(a \o b) /\ Elems(a \o b) = Elems(a) \cup Elems(b)
  <2>1. a \in Seq(S)
    BY <1>2
  <2>2. b \in Seq(S)
    BY <1>2
  <2>3. Distinct(a) /\ Distinct(b)
    BY <1>2
  <2>4. Elems(a \o b) = Elems(a) \cup Elems(b)
    BY <2>1, <2>2, Joined
  <2>5. a \o b \in Seq(S)
    BY <2>1, <2>2, Joined
  <2>6. Distinct(a \o b)
    BY <1>5, <2>1, <2>2, <2>3, Joined
  <2>. QED  BY <2>4, <2>5, <2>6
<1>8. Len(a) = i - 1 /\ Len(b) = Len(s) - i
  <2>1. /\ Len(a) = IF 1 <= i - 1 THEN i - 1 - 1 + 1 ELSE 0
        /\ Len(b) = IF i + 1 <= Len(s) THEN Len(s) - (i + 1) + 1 ELSE 0
    BY <1>1, Part DEF a, b
  <2>. QED  BY <1>1, <2>1
<1>9. Len(a \o b) = Len(a) + Len(b)
  BY <1>2, Joined, Zenon
<1>10. Len(a \o b) = Len(s) - 1
  BY <1>1, <1>8, <1>9
<1>. QED  BY <1>3, <1>6, <1>7, <1>10

LEMMA Inserted ==
    ASSUME NEW S, NEW s \in Seq(S), Distinct(s), NEW i \in 1 .. (Len(s) + 1),
           NEW e \in S, e \notin Elems(s)
    PROVE  /\ InsertAt(s, i, e) \in Seq(S) /\ Distinct(InsertAt(s, i, e))
           /\ Elems(InsertAt(s, i, e)) = Elems(s) \cup {e}
<1>. DEFINE a == SubSeq(s, 1, i - 1)
            b == SubSeq(s, i, Len(s))
            c == <<e>>
<1>1. Len(s) \in Nat /\ i - 1 \in Nat /\ i - 1 <= Len(s) /\ i \in Nat \ {0}
  OBVIOUS
<1>2. /\ a \in Seq(S) /\ Distinct(a) /\ Elems(a) = {s[j] : j \in 1 .. i - 1}
      /\ b \in Seq(S) /\ Distinct(b) /\ Elems(b) = {s[j] : j \in i .. Len(s)}
  BY <1>1, Part
<1>3. InsertAt(s, i, e) = (a \o c) \o b
  BY DEF InsertAt
<1>. HIDE DEF a, b
<1>4. /\ \A j \in 1 .. i - 1 : j \in 1 .. Len(s)
      /\ \A j \in i .. Len(s) : j \in 1 .. Len(s)
      /\ \A j \in 1 .. i - 1 : \A k \in i .. Len(s) : j # k
      /\ \A j \in 1 .. Len(s) : j \in 1 .. i - 1 \/ j \in i .. Len(s)
  BY <1>1
<1>5. Elems(a) \cap Elems(b) = {}
  <2>. SUFFICES ASSUME NEW f, f \in Elems(a), f \in Elems(b) PROVE FALSE
    OBVIOUS
  <2>1. PICK j \in 1 .. i - 1 : f = s[j]
    BY <1>2
  <2>2. PICK k \in i .. Len(s) : f = s[k]
    BY <1>2
  <2>. QED  BY <1>4, <2>1, <2>2 DEF Distinct
<1>6. Elems(a) \cup Elems(b) = Elems(s)
  <2>1. \A f \in Elems(a) \cup Elems(b) : f \in Elems(s)
    BY <1>2, <1>4, Zenon DEF Elems
  <2>2. \A f \in Elems(s) : f \in Elems(a) \cup Elems(b)
    BY <1>2, <1>4, Zenon DEF Elems
  <2>. QED  BY <2>1, <2>2
<1>7. c \in Seq(S) /\ Distinct(c) /\ Elems(c) = {e}
  <2>1. c \in Seq(S) /\ Len(c) = 1 /\ c[1] = e
    BY DEF c
  <2>2. 1 .. Len(c) = {1}
    BY <2>1
  <2>. HIDE DEF c
  <2>. QED  BY <2>1, <2>2 DEF Distinct, Elems
<1>. HIDE DEF c
<1>8. a \o c \in Seq(S) /\ Distinct(a \o c) /\ Elems(a \o c) = Elems(a) \cup {e}
  <2>1. Elems(a) \cap Elems(c) = {}
    BY <1>6, <1>7
  <2>2. a \in Seq(S) /\ c \in Seq(S) /\ Distinct(a) /\ Distinct(c)
    BY <1>2, <1>7
  <2>3. /\ a \o c \in Seq(S) /\ Distinct(a \o c)
        /\ Elems(a \o c) = Elems(a) \cup Elems(c)
    BY <2>1, <2>2, Joined
  <2>. QED  BY <1>7, <2>3
<1>. DEFINE u == a \o c
<1>9. /\ u \in Seq(S) /\ Distinct(u) /\ Elems(u) = Elems(a) \cup {e}
      /\ InsertAt(s, i, e) = u \o b
  BY <1>3, <1>8
<1>. HIDE DEF u
<1>10. Elems(u) \cap Elems(b) = {}
  BY <1>5, <1>6, <1>9
<1>11. u \o b \in Seq(S) /\ Distinct(u \o b) /\ Elems(u \o b) = Elems(u) \cup Elems(b)
  <2>1. u \in Seq(S)
    BY <1>9
  <2>2. b \in Seq(S)
    BY <1>2
  <2>3. Distinct(u) /\ Distinct(b)
    BY <1>2, <1>9
  <2>4. Elems(u \o b) = Elems(u) \cup Elems(b)
    BY <2>1, <2>2, Joined
  <2>5. u \o b \in Seq(S)
    BY <2>1, <2>2, Joined
  <2>6. Distinct(u \o b)
    BY <1>10, <2>1, <2>2, <2>3, Joined
  <2>. QED  BY <2>4, <2>5, <2>6
<1>. QED  BY <1>6, <1>9, <1>11

LEMMA Appended ==
    ASSUME NEW S, NEW s \in Seq(S), Distinct(s), NEW e \in S, e \notin Elems(s)
    PROVE  /\ Append(s, e) \in Seq(S) /\ Distinct(Append(s, e))
           /\ Elems(Append(s, e)) = Elems(s) \cup {e}
<1>. DEFINE t == Append(s, e)
<1>1. Len(s) \in Nat
  OBVIOUS
<1>2. /\ t \in Seq(S) /\ Len(t) = Len(s) + 1
      /\ \A k \in 1 .. Len(s) : t[k] = s[k]
      /\ t[Len(s) + 1] = e
  BY AppendProperties
<1>. HIDE DEF t
<1>3. /\ \A k \in 1 .. Len(t) : k \in 1 .. Len(s) \/ k = Len(s) + 1
      /\ \A k \in 1 .. Len(s) : k \in 1 .. Len(t)
      /\ Len(s) + 1 \in 1 .. Len(t)
  BY <1>1, <1>2
<1>4. \A k \in 1 .. Len(s) : s[k] # e
  BY DEF Elems
<1>5. Distinct(t)
  BY <1>2, <1>3, <1>4 DEF Distinct
<1>6. Elems(t) = Elems(s) \cup {e}
  <2>1. \A f \in Elems(t) : f \in Elems(s) \cup {e}
    BY <1>2, <1>3 DEF Elems
  <2>2. \A f \in Elems(s) \cup {e} : f \in Elems(t)
    BY <1>2, <1>3 DEF Elems
  <2>. QED  BY <2>1, <2>2
<1>. QED  BY <1>2, <1>5, <1>6 DEF t

-----------------------------------------------------------------------------
(* Numbers. *)

\* A set of numbers that holds something holds a least one.
LEMMA Least ==
    ASSUME NEW T \in SUBSET Nat, T # {}
    PROVE  \E x \in T : \A y \in T : x <= y
<1>1. PICK x \in T : \A y \in T : <<y, x>> \notin OpToRel(<, Nat)
  BY WFMin, NatLessThanWellFounded, Zenon
<1>2. \A y \in T : ~(y < x)
  BY <1>1, Zenon DEF OpToRel
<1>3. x \in Nat /\ \A y \in T : y \in Nat
  OBVIOUS
<1>. QED  BY <1>2, <1>3

LEMMA FirstIsLeast ==
    ASSUME NEW T \in SUBSET Nat, T # {}
    PROVE  First(T) \in T /\ \A y \in T : First(T) <= y
BY Least DEF First

\* Induction, over a set of numbers.
LEMMA NatSet ==
    ASSUME NEW S \in SUBSET Nat, 0 \in S, \A n \in S : n + 1 \in S
    PROVE  S = Nat
<1>1. SUFFICES ASSUME Nat \ S # {} PROVE FALSE
  OBVIOUS
<1>2. PICK x \in Nat \ S : \A y \in Nat \ S : x <= y
  BY <1>1, Least
<1>3. x \in Nat /\ x # 0 /\ x - 1 \in Nat
  BY <1>2
<1>4. x - 1 \in S
  BY <1>2, <1>3
<1>5. x \in S
  BY <1>3, <1>4
<1>. QED  BY <1>2, <1>5

-----------------------------------------------------------------------------
(* Removing tabs from a window. *)

WindowRecord ==
    [tabs : Seq(Tab), active : Tab \cup {NoTab}, transfer : Doc \cup {None},
     removal : Tab \cup {NoTab}, dialog : Dialog, answered : SUBSET Large,
     failed : BOOLEAN]

TabsOf(rec) == Elems(rec.tabs)

\* One of the tabs of a window is active, and a preview has its editor.
Tidy(rec) ==
    /\ Distinct(rec.tabs)
    /\ rec.tabs # <<>> => rec.active \in TabsOf(rec)
    /\ \A t \in TabsOf(rec) : t.preview => Editor(t.doc) \in TabsOf(rec)

\* What has nothing to do with the tabs and the dialog is as it was.
Alike(rec, rec2) ==
    /\ rec2.transfer = rec.transfer /\ rec2.removal = rec.removal
    /\ rec2.answered = rec.answered /\ rec2.failed = rec.failed

\* What goes with a tab.
Taken(tab) == IF tab.preview THEN {tab} ELSE {tab, Preview(tab.doc)}

LEMMA DocFacts ==
    /\ Doc \subseteq Nat \ {0} /\ None \notin Doc /\ Markdown \subseteq Doc
    /\ \A d \in Large : d \notin Small
    /\ \A t \in Tab : t = Editor(t.doc) \/ t = Preview(t.doc)
    /\ \A t \in Tab : t.doc \in Doc /\ t.preview \in BOOLEAN
    /\ \A d \in Doc : /\ Editor(d) \in Tab /\ Editor(d).doc = d /\ ~Editor(d).preview
                      /\ Preview(d) \in Tab /\ Preview(d).doc = d /\ Preview(d).preview
                      /\ Editor(d) # NoTab
    /\ NoTab \notin Tab /\ ~NoTab.preview /\ Preview(NoTab.doc) \notin Tab
<1>1. Doc \subseteq Nat \ {0} /\ None \notin Doc /\ Markdown \subseteq Doc
      /\ \A d \in Large : d \notin Small
  BY BoundsAssumption DEF Doc, None
<1>2. \A t \in Tab : t.doc \in Doc /\ t.preview \in BOOLEAN
  BY DEF Tab
<1>3. \A t \in Tab : t = Editor(t.doc) \/ t = Preview(t.doc)
  BY DEF Tab, Editor, Preview
<1>4. \A d \in Doc : /\ Editor(d) \in Tab /\ Editor(d).doc = d /\ ~Editor(d).preview
                     /\ Preview(d) \in Tab /\ Preview(d).doc = d /\ Preview(d).preview
  BY DEF Tab, Editor, Preview
<1>5. NoTab.doc = None /\ ~NoTab.preview /\ Preview(None).doc = None
  BY DEF NoTab, Editor, Preview
<1>. QED  BY <1>1, <1>2, <1>3, <1>4, <1>5

LEMMA RecordFields ==
    ASSUME NEW rec \in WindowRecord
    PROVE  /\ rec.tabs \in Seq(Tab) /\ rec.active \in Tab \cup {NoTab}
           /\ rec.transfer \in Doc \cup {None} /\ rec.removal \in Tab \cup {NoTab}
           /\ rec.dialog \in Dialog /\ rec.answered \in SUBSET Large
           /\ rec.failed \in BOOLEAN
           /\ Len(rec.tabs) \in Nat /\ DOMAIN rec.tabs = 1 .. Len(rec.tabs)
           /\ TabsOf(rec) \subseteq Tab /\ (TabsOf(rec) = {} <=> rec.tabs = <<>>)
           /\ \A e : Contains(rec.tabs, e) <=> e \in TabsOf(rec)
           /\ ToSet(rec.tabs) = TabsOf(rec)
<1>1. /\ rec.tabs \in Seq(Tab) /\ rec.active \in Tab \cup {NoTab}
      /\ rec.transfer \in Doc \cup {None} /\ rec.removal \in Tab \cup {NoTab}
      /\ rec.dialog \in Dialog /\ rec.answered \in SUBSET Large
      /\ rec.failed \in BOOLEAN
  BY DEF WindowRecord
<1>2. /\ Len(rec.tabs) \in Nat /\ DOMAIN rec.tabs = 1 .. Len(rec.tabs)
      /\ Elems(rec.tabs) \subseteq Tab /\ (Elems(rec.tabs) = {} <=> rec.tabs = <<>>)
      /\ \A e : Contains(rec.tabs, e) <=> e \in Elems(rec.tabs)
  BY <1>1, Typed
<1>3. ToSet(rec.tabs) = Elems(rec.tabs)
  BY <1>2 DEF ToSet, Elems
<1>. QED  BY <1>1, <1>2, <1>3 DEF TabsOf

\* Other tabs, and another active one.
LEMMA WithTabs ==
    ASSUME NEW rec \in WindowRecord, NEW s \in Seq(Tab), NEW a \in Tab \cup {NoTab}
    PROVE  LET rec2 == [rec EXCEPT !.tabs = s, !.active = a]
           IN  /\ rec2 \in WindowRecord /\ Alike(rec, rec2) /\ rec2.dialog = rec.dialog
               /\ rec2.tabs = s /\ rec2.active = a
BY DEF WindowRecord, Alike

LEMMA WithoutFacts ==
    ASSUME NEW rec \in WindowRecord, Distinct(rec.tabs), NEW tab \in TabsOf(rec)
    PROVE  LET rec2 == Without(rec, tab)
           IN  /\ rec2 \in WindowRecord /\ Alike(rec, rec2) /\ rec2.dialog = rec.dialog
               /\ Distinct(rec2.tabs) /\ TabsOf(rec2) = TabsOf(rec) \ {tab}
               /\ rec2.tabs # <<>> => rec2.active \in TabsOf(rec2)
<1>. DEFINE pos == Position(rec.tabs, tab)
            left == RemoveAt(rec.tabs, pos)
            a == Anchored(left, rec.active, pos)
<1>1. rec.tabs \in Seq(Tab) /\ rec.active \in Tab \cup {NoTab}
  BY RecordFields
<1>2. pos \in 1 .. Len(rec.tabs) /\ rec.tabs[pos] = tab /\ pos \in Nat \ {0}
  BY <1>1, Placed DEF TabsOf
<1>3. left \in Seq(Tab) /\ Distinct(left) /\ Elems(left) = TabsOf(rec) \ {tab}
  BY <1>1, <1>2, Removed DEF TabsOf
<1>4. Without(rec, tab) = [rec EXCEPT !.tabs = left, !.active = a]
  BY DEF Without
<1>5. (left # <<>> => a \in Elems(left)) /\ a \in Tab \cup {NoTab}
  <2>. HIDE DEF pos, left
  <2>1. CASE left = <<>>
    BY <2>1 DEF Anchored
  <2>2. CASE left # <<>> /\ Contains(left, rec.active)
    BY <1>1, <1>3, <2>2, Typed DEF Anchored
  <2>3. CASE left # <<>> /\ ~Contains(left, rec.active)
    <3>1. Len(left) \in Nat \ {0}
      BY <1>3, <2>3, EmptySeq
    <3>2. Lesser(pos, Len(left)) \in 1 .. Len(left)
      BY <1>2, <3>1 DEF Lesser
    <3>3. a = left[Lesser(pos, Len(left))]
      BY <2>3 DEF Anchored
    <3>4. left[Lesser(pos, Len(left))] \in Elems(left)
      BY <3>2 DEF Elems
    <3>5. Elems(left) \subseteq Tab
      BY <1>3, Typed
    <3>. QED  BY <3>3, <3>4, <3>5
  <2>. QED  BY <2>1, <2>2, <2>3
<1>. HIDE DEF left, a
<1>. DEFINE rec2 == [rec EXCEPT !.tabs = left, !.active = a]
<1>6. /\ rec2 \in WindowRecord /\ Alike(rec, rec2) /\ rec2.dialog = rec.dialog
      /\ rec2.tabs = left /\ rec2.active = a
  BY <1>3, <1>5 DEF WindowRecord, Alike
<1>. HIDE DEF rec2
<1>7. /\ Distinct(rec2.tabs) /\ TabsOf(rec2) = TabsOf(rec) \ {tab}
      /\ rec2.tabs # <<>> => rec2.active \in TabsOf(rec2)
  BY <1>3, <1>5, <1>6 DEF TabsOf
<1>8. Without(rec, tab) = rec2
  BY <1>4 DEF rec2
<1>. QED  BY <1>6, <1>7, <1>8

\* rec2 is rec without the tabs of the set gone.
Reduced(rec, rec2, gone) ==
    /\ rec2 \in WindowRecord /\ Tidy(rec2)
    /\ Alike(rec, rec2) /\ rec2.dialog = rec.dialog
    /\ TabsOf(rec2) = TabsOf(rec) \ gone

LEMMA RemoveTabReduces ==
    ASSUME NEW rec \in WindowRecord, Tidy(rec), NEW tab \in Tab \cup {NoTab}
    PROVE  Reduced(rec, RemoveTab(rec, tab), Taken(tab))
<1>. DEFINE left == Without(rec, tab)
            preview == Preview(tab.doc)
<1>1. TabsOf(rec) \subseteq Tab /\ \A e : Contains(rec.tabs, e) <=> e \in TabsOf(rec)
  BY RecordFields
<1>2. \A t \in TabsOf(rec) : t.preview => Editor(t.doc) \in TabsOf(rec)
  BY DEF Tidy
<1>3. CASE tab \notin TabsOf(rec)
  <2>1. RemoveTab(rec, tab) = rec
    BY <1>1, <1>3 DEF RemoveTab
  <2>2. TabsOf(rec) \cap Taken(tab) = {}
    <3>1. CASE tab.preview
      BY <1>3, <3>1 DEF Taken
    <3>2. CASE ~tab.preview
      <4>1. preview \notin TabsOf(rec)
        <5>1. CASE tab = NoTab
          BY <1>1, <5>1, DocFacts
        <5>2. CASE tab \in Tab
          <6>a. tab.doc \in Doc /\ (tab = Editor(tab.doc) \/ tab = preview)
            BY <5>2, DocFacts
          <6>b. preview.preview /\ preview.doc = tab.doc
            BY <6>a, DocFacts
          <6>1. preview.preview /\ preview.doc = tab.doc /\ tab = Editor(tab.doc)
            BY <3>2, <6>a, <6>b
          <6>2. preview \in TabsOf(rec) => Editor(preview.doc) \in TabsOf(rec)
            BY <1>2, <6>1
          <6>. QED  BY <1>3, <6>1, <6>2
        <5>. QED  BY <5>1, <5>2
      <4>. QED  BY <1>3, <3>2, <4>1 DEF Taken
    <3>. QED  BY <3>1, <3>2
  <2>. QED  BY <2>1, <2>2 DEF Reduced, Alike
<1>4. CASE tab \in TabsOf(rec)
  <2>1. /\ left \in WindowRecord /\ Alike(rec, left) /\ left.dialog = rec.dialog
        /\ Distinct(left.tabs) /\ TabsOf(left) = TabsOf(rec) \ {tab}
        /\ left.tabs # <<>> => left.active \in TabsOf(left)
    BY <1>4, WithoutFacts DEF Tidy
  <2>2. Contains(rec.tabs, tab) /\ tab \in Tab
    BY <1>1, <1>4
  <2>. HIDE DEF left
  <2>3. \A e : Contains(left.tabs, e) <=> e \in TabsOf(left)
    BY <2>1, RecordFields
  <2>4. CASE ~tab.preview /\ preview \in TabsOf(left)
    <3>. DEFINE rec2 == Without(left, preview)
    <3>1. RemoveTab(rec, tab) = rec2
      BY <2>2, <2>3, <2>4 DEF RemoveTab, left
    <3>2. /\ rec2 \in WindowRecord /\ Alike(left, rec2) /\ rec2.dialog = left.dialog
          /\ Distinct(rec2.tabs) /\ TabsOf(rec2) = TabsOf(left) \ {preview}
          /\ rec2.tabs # <<>> => rec2.active \in TabsOf(rec2)
      BY <2>1, <2>4, WithoutFacts
    <3>. HIDE DEF rec2
    <3>3. TabsOf(rec2) = TabsOf(rec) \ Taken(tab)
      BY <2>1, <2>4, <3>2 DEF Taken
    <3>4. \A t \in TabsOf(rec2) : t.preview => Editor(t.doc) \in TabsOf(rec2)
      <4>. SUFFICES ASSUME NEW t \in TabsOf(rec2), t.preview
                    PROVE  Editor(t.doc) \in TabsOf(rec2)
        OBVIOUS
      <4>0. t \in Tab /\ t \in TabsOf(rec) /\ t # preview
        BY <1>1, <2>1, <3>2
      <4>1. /\ t = Preview(t.doc) /\ Editor(t.doc) \in TabsOf(rec)
            /\ ~Editor(t.doc).preview /\ Editor(t.doc).doc = t.doc
        BY <1>2, <4>0, DocFacts
      <4>2. Editor(t.doc) # tab
        BY <4>0, <4>1
      <4>3. Editor(t.doc) # preview
        BY <2>2, <4>1, DocFacts
      <4>. QED  BY <2>1, <3>2, <4>1, <4>2, <4>3
    <3>5. Tidy(rec2)
      BY <3>2, <3>4 DEF Tidy
    <3>. QED  BY <2>1, <3>1, <3>2, <3>3, <3>5 DEF Reduced, Alike
  <2>5. CASE tab.preview \/ preview \notin TabsOf(left)
    <3>1. RemoveTab(rec, tab) = left
      BY <2>2, <2>3, <2>5 DEF RemoveTab, left
    <3>2. TabsOf(left) = TabsOf(rec) \ Taken(tab)
      BY <2>1, <2>5 DEF Taken
    <3>3. \A t \in TabsOf(left) : t.preview => Editor(t.doc) \in TabsOf(left)
      <4>. SUFFICES ASSUME NEW t \in TabsOf(left), t.preview
                    PROVE  Editor(t.doc) \in TabsOf(left)
        OBVIOUS
      <4>1. t \in Tab /\ t \in TabsOf(rec) /\ t = Preview(t.doc)
            /\ Editor(t.doc) \in TabsOf(rec) /\ ~Editor(t.doc).preview /\ Editor(t.doc).doc = t.doc
        BY <1>1, <1>2, <2>1, DocFacts
      <4>2. Editor(t.doc) # tab
        BY <2>5, <4>1
      <4>. QED  BY <2>1, <4>1, <4>2
    <3>4. Tidy(left)
      BY <2>1, <3>3 DEF Tidy
    <3>. QED  BY <2>1, <3>1, <3>2, <3>4 DEF Reduced
  <2>. QED  BY <2>4, <2>5
<1>. QED  BY <1>3, <1>4

-----------------------------------------------------------------------------
(* Closing many tabs. *)

\* The recursive definition of RemoveTabs has a solution.
After(rec, list, m, g) ==
    g = [n \in 0 .. m |-> IF n = 0 THEN rec ELSE RemoveTab(g[n - 1], list[n])]

LEMMA AfterExists ==
    ASSUME NEW rec, NEW list
    PROVE  \A m \in Nat : \E g : After(rec, list, m, g)
<1>. DEFINE S == {m \in Nat : \E g : After(rec, list, m, g)}
<1>1. 0 \in S
  <2>. DEFINE g == [n \in 0 .. 0 |-> rec]
  <2>1. g = [n \in 0 .. 0 |-> IF n = 0 THEN rec ELSE RemoveTab(g[n - 1], list[n])]
    OBVIOUS
  <2>. QED  BY <2>1 DEF After
<1>2. ASSUME NEW m \in S PROVE m + 1 \in S
  <2>1. PICK g : g = [n \in 0 .. m |-> IF n = 0 THEN rec ELSE RemoveTab(g[n - 1], list[n])]
    BY DEF After
  <2>. DEFINE h == [n \in 0 .. (m + 1) |->
                      IF n = m + 1 THEN RemoveTab(g[m], list[m + 1]) ELSE g[n]]
  <2>2. ASSUME NEW n \in 0 .. (m + 1)
        PROVE  h[n] = IF n = 0 THEN rec ELSE RemoveTab(h[n - 1], list[n])
    <3>1. CASE n = m + 1
      BY <3>1
    <3>2. CASE n # m + 1
      <4>1. n \in 0 .. m /\ h[n] = g[n]
        BY <3>2
      <4>2. CASE n = 0
        BY <2>1, <4>1, <4>2
      <4>3. CASE n # 0
        <5>1. n - 1 \in 0 .. m /\ n - 1 # m + 1 /\ n - 1 \in 0 .. (m + 1)
          BY <4>1, <4>3
        <5>2. h[n - 1] = g[n - 1]
          BY <5>1
        <5>3. g[n] = RemoveTab(g[n - 1], list[n])
          BY <2>1, <4>1, <4>3
        <5>. QED  BY <4>1, <4>3, <5>2, <5>3
      <4>. QED  BY <4>2, <4>3
    <3>. QED  BY <3>1, <3>2
  <2>3. h = [n \in 0 .. (m + 1) |-> IF n = 0 THEN rec ELSE RemoveTab(h[n - 1], list[n])]
    <3>1. h = [n \in 0 .. (m + 1) |-> h[n]]
      OBVIOUS
    <3>. HIDE DEF h
    <3>. QED  BY <2>2, <3>1
  <2>. HIDE DEF h
  <2>. QED  BY <2>3 DEF After
<1>. QED  BY <1>1, <1>2, NatSet

\* g lists what the window is between the removals.
Between(rec, list, g) ==
    /\ g[0] = rec /\ RemoveTabs(rec, list) = g[Len(list)]
    /\ \A n \in 1 .. Len(list) : g[n] = RemoveTab(g[n - 1], list[n])

LEMMA RemoveTabsSteps ==
    ASSUME NEW rec, NEW list, Len(list) \in Nat
    PROVE  \E g : Between(rec, list, g)
<1>. DEFINE g == CHOOSE f : After(rec, list, Len(list), f)
<1>1. After(rec, list, Len(list), g)
  BY AfterExists
<1>2. RemoveTabs(rec, list) = g[Len(list)]
  BY DEF RemoveTabs, After
<1>. HIDE DEF g
<1>3. g = [n \in 0 .. Len(list) |-> IF n = 0 THEN rec ELSE RemoveTab(g[n - 1], list[n])]
  BY <1>1 DEF After
<1>4. \A n \in 0 .. Len(list) : g[n] = IF n = 0 THEN rec ELSE RemoveTab(g[n - 1], list[n])
  BY <1>3
<1>. QED  BY <1>2, <1>4 DEF Between

AllTaken(list, n) == UNION {Taken(list[i]) : i \in 1 .. n}

LEMMA RemoveTabsReduces ==
    ASSUME NEW rec \in WindowRecord, Tidy(rec), NEW list \in Seq(Tab)
    PROVE  Reduced(rec, RemoveTabs(rec, list), AllTaken(list, Len(list)))
<1>1. Len(list) \in Nat /\ \A i \in 1 .. Len(list) : list[i] \in Tab
  OBVIOUS
<1>2. PICK g : Between(rec, list, g)
  BY <1>1, RemoveTabsSteps
<1>. DEFINE S == {n \in Nat : n <= Len(list) => Reduced(rec, g[n], AllTaken(list, n))}
<1>3. 0 \in S
  <2>1. g[0] = rec /\ AllTaken(list, 0) = {}
    BY <1>2 DEF Between, AllTaken
  <2>2. Reduced(rec, rec, {})
    BY DEF Reduced, Alike
  <2>. QED  BY <2>1, <2>2
<1>4. ASSUME NEW n \in S PROVE n + 1 \in S
  <2>. SUFFICES ASSUME n + 1 <= Len(list)
                PROVE  Reduced(rec, g[n + 1], AllTaken(list, n + 1))
    OBVIOUS
  <2>1. n \in Nat /\ n + 1 \in 1 .. Len(list) /\ Reduced(rec, g[n], AllTaken(list, n))
        /\ n + 1 - 1 = n
    BY <1>1
  <2>2. g[n + 1] = RemoveTab(g[n], list[n + 1])
    BY <1>2, <2>1 DEF Between
  <2>3. g[n] \in WindowRecord /\ Tidy(g[n]) /\ list[n + 1] \in Tab \cup {NoTab}
    BY <1>1, <2>1 DEF Reduced
  <2>4. Reduced(g[n], g[n + 1], Taken(list[n + 1]))
    BY <2>2, <2>3, RemoveTabReduces
  <2>5. AllTaken(list, n + 1) = AllTaken(list, n) \cup Taken(list[n + 1])
    <3>1. \A i : i \in 1 .. n + 1 <=> i \in 1 .. n \/ i = n + 1
      BY <2>1
    <3>. QED  BY <3>1 DEF AllTaken
  <2>. QED  BY <2>1, <2>4, <2>5 DEF Reduced, Alike
<1>5. S = Nat
  <2>. HIDE DEF S
  <2>1. S \subseteq Nat
    BY DEF S
  <2>. QED  BY <1>3, <1>4, <2>1, NatSet
<1>6. Reduced(rec, g[Len(list)], AllTaken(list, Len(list)))
  BY <1>1, <1>5
<1>. QED  BY <1>2, <1>6 DEF Between

\* The bulk operations keep the tabs that have to be asked about.
Spared(rec, rec2) ==
    /\ rec2 \in WindowRecord /\ Tidy(rec2) /\ Alike(rec, rec2)
    /\ TabsOf(rec2) \subseteq TabsOf(rec)
    /\ \A t \in TabsOf(rec) : IsModified(t) => t \in TabsOf(rec2)
    /\ rec2.dialog = rec.dialog \/ rec2.dialog.kind \in {"all", "left", "right", "others"}

\* An editor goes only with itself.
LEMMA TakenAlone ==
    ASSUME NEW list \in Seq(Tab), NEW n \in Nat, n <= Len(list),
           NEW t, ~t.preview, t \in AllTaken(list, n)
    PROVE  \E i \in 1 .. n : t = list[i]
<1>1. PICK i \in 1 .. n : t \in Taken(list[i])
  BY DEF AllTaken
<1>2. list[i] \in Tab
  BY <1>1
<1>3. Preview(list[i].doc).preview
  BY <1>2, DocFacts
<1>4. t = list[i]
  BY <1>1, <1>3 DEF Taken
<1>. QED  BY <1>4

LEMMA Sweeps ==
    ASSUME NEW rec \in WindowRecord, Tidy(rec), NEW tabs \in Seq(Tab), Distinct(tabs),
           Elems(tabs) \subseteq TabsOf(rec), NEW kind \in {"all", "left", "right", "others"},
           NEW keep \in Tab \cup {NoTab}
    PROVE  LET rec2 == Swept(rec, tabs, kind, keep)
           IN  /\ Spared(rec, rec2)
               /\ \/ rec2.dialog = rec.dialog /\ TabsOf(rec2) \cap Elems(tabs) = {}
                  \/ rec2.dialog.kind = kind
<1>. DEFINE rec2 == Swept(rec, tabs, kind, keep)
            toAsk == {i \in 1 .. Len(tabs) : IsModified(tabs[i])}
            stop == First(toAsk)
            n == stop - 1
            part == SubSeq(tabs, 1, n)
            left == RemoveTabs(rec, part)
<1>1. Len(tabs) \in Nat /\ (\A i \in 1 .. Len(tabs) : tabs[i] \in Tab) /\ toAsk \subseteq Nat
  OBVIOUS
<1>2. CASE toAsk = {}
  <2>. DEFINE gone == AllTaken(tabs, Len(tabs))
  <2>1. rec2 = RemoveTabs(rec, tabs)
    BY <1>2 DEF Swept
  <2>2. Reduced(rec, rec2, gone)
    BY <2>1, RemoveTabsReduces
  <2>3. ASSUME NEW t \in TabsOf(rec), IsModified(t) PROVE t \notin gone
    <3>1. ~t.preview
      BY <2>3 DEF IsModified
    <3>. QED  BY <1>1, <1>2, <2>3, <3>1, TakenAlone
  <2>4. \A i \in 1 .. Len(tabs) : tabs[i] \in gone
    <3>1. \A i \in 1 .. Len(tabs) : tabs[i] \in Taken(tabs[i])
      BY DEF Taken
    <3>. QED  BY <3>1 DEF AllTaken
  <2>. HIDE DEF rec2, gone
  <2>5. TabsOf(rec2) \cap Elems(tabs) = {}
    BY <2>2, <2>4 DEF Reduced, Elems
  <2>6. Spared(rec, rec2) /\ rec2.dialog = rec.dialog
    BY <2>2, <2>3 DEF Reduced, Spared
  <2>. QED  BY <2>5, <2>6 DEF rec2
<1>3. CASE toAsk # {}
  <2>1. stop \in toAsk /\ \A i \in toAsk : stop <= i
    BY <1>1, <1>3, FirstIsLeast
  <2>2. rec2 = [left EXCEPT !.active = tabs[stop], !.dialog = Asking(kind, tabs[stop], keep)]
    BY <1>3 DEF Swept
  <2>3. /\ stop \in 1 .. Len(tabs) /\ tabs[stop] \in Tab /\ IsModified(tabs[stop])
        /\ n \in Nat /\ n <= Len(tabs)
        /\ \A i \in 1 .. n : i \in 1 .. Len(tabs) /\ ~IsModified(tabs[i])
    <3>1. stop \in 1 .. Len(tabs) /\ IsModified(tabs[stop])
      BY <2>1
    <3>2. \A i \in 1 .. Len(tabs) : IsModified(tabs[i]) => stop <= i
      BY <2>1
    <3>. HIDE DEF stop, toAsk
    <3>3. n \in Nat /\ n <= Len(tabs)
          /\ \A i \in 1 .. n : i \in 1 .. Len(tabs) /\ ~(stop <= i)
      BY <1>1, <3>1
    <3>. QED  BY <1>1, <3>1, <3>2, <3>3
  <2>. HIDE DEF toAsk, stop, n
  <2>4. part \in Seq(Tab) /\ Elems(part) = {tabs[i] : i \in 1 .. n}
    BY <2>3, Part
  <2>. DEFINE gone == AllTaken(part, Len(part))
  <2>5. Reduced(rec, left, gone)
    BY <2>4, RemoveTabsReduces
  <2>. HIDE DEF part, left
  <2>6. ASSUME NEW t, IsModified(t) PROVE t \notin gone
    <3>1. ~t.preview /\ Len(part) \in Nat /\ Len(part) <= Len(part)
      BY <2>4, <2>6 DEF IsModified
    <3>2. SUFFICES ASSUME t \in gone PROVE FALSE
      OBVIOUS
    <3>3. PICK i \in 1 .. Len(part) : t = part[i]
      BY <2>4, <3>1, <3>2, TakenAlone
    <3>4. t \in Elems(part)
      BY <3>3 DEF Elems
    <3>. QED  BY <2>3, <2>4, <2>6, <3>4
  <2>. HIDE DEF gone
  <2>7. tabs[stop] \in TabsOf(left)
    <3>1. tabs[stop] \in TabsOf(rec)
      BY <2>3 DEF Elems
    <3>. QED  BY <2>3, <2>5, <2>6, <3>1 DEF Reduced
  <2>. DEFINE ask == Asking(kind, tabs[stop], keep)
              shown == tabs[stop]
              r == [left EXCEPT !.active = shown, !.dialog = ask]
  <2>8. ask \in Dialog /\ ask.kind = kind
    BY <2>3 DEF Asking, Dialog
  <2>. HIDE DEF ask
  <2>9. left \in WindowRecord /\ Tidy(left) /\ Alike(rec, left)
        /\ TabsOf(left) = TabsOf(rec) \ gone
    BY <2>5 DEF Reduced
  <2>10. shown \in Tab /\ shown \in TabsOf(left)
    BY <2>3, <2>7
  <2>. HIDE DEF shown
  <2>11. r \in WindowRecord /\ Alike(rec, r) /\ r.tabs = left.tabs /\ r.active = shown
         /\ r.dialog = ask
    BY <2>8, <2>9, <2>10 DEF WindowRecord, Alike
  <2>12. rec2 = r
    BY <2>2 DEF ask, shown
  <2>. HIDE DEF r, rec2
  <2>13. Tidy(r) /\ TabsOf(r) = TabsOf(rec) \ gone
    BY <2>9, <2>10, <2>11 DEF Tidy, TabsOf
  <2>14. Spared(rec, r)
    BY <2>6, <2>8, <2>11, <2>13 DEF Spared
  <2>. QED  BY <2>8, <2>11, <2>12, <2>14 DEF rec2
<1>. QED  BY <1>2, <1>3

\* Another tab is active.
LEMMA WithActive ==
    ASSUME NEW rec \in WindowRecord, Tidy(rec), NEW a \in TabsOf(rec)
    PROVE  LET rec2 == [rec EXCEPT !.active = a]
           IN  /\ rec2 \in WindowRecord /\ Tidy(rec2) /\ Alike(rec, rec2)
               /\ rec2.dialog = rec.dialog /\ rec2.tabs = rec.tabs
               /\ TabsOf(rec2) = TabsOf(rec) /\ rec2.active = a
<1>. DEFINE rec2 == [rec EXCEPT !.active = a]
<1>1. a \in Tab
  BY RecordFields
<1>2. /\ rec2 \in WindowRecord /\ Alike(rec, rec2) /\ rec2.dialog = rec.dialog
      /\ rec2.tabs = rec.tabs /\ rec2.active = a
  BY <1>1 DEF WindowRecord, Alike
<1>. HIDE DEF rec2
<1>3. Tidy(rec2) /\ TabsOf(rec2) = TabsOf(rec)
  BY <1>2 DEF Tidy, TabsOf
<1>. QED  BY <1>2, <1>3 DEF rec2

LEMMA SparesAll ==
    ASSUME NEW rec \in WindowRecord, Tidy(rec)
    PROVE  Spared(rec, ClosedAll(rec))
<1>1. rec.tabs \in Seq(Tab) /\ Distinct(rec.tabs) /\ Elems(rec.tabs) \subseteq TabsOf(rec)
  BY RecordFields DEF Tidy, TabsOf
<1>. QED  BY <1>1, Sweeps DEF ClosedAll

LEMMA SparesItself == ASSUME NEW rec \in WindowRecord, Tidy(rec) PROVE Spared(rec, rec)
BY DEF Spared, Alike

LEMMA SparesLeft ==
    ASSUME NEW rec \in WindowRecord, Tidy(rec), NEW keep \in Tab \cup {NoTab}
    PROVE  Spared(rec, ClosedLeft(rec, keep))
<1>1. CASE ~Contains(rec.tabs, keep)
  BY <1>1, SparesItself DEF ClosedLeft
<1>2. CASE Contains(rec.tabs, keep)
  <2>. DEFINE pos == Position(rec.tabs, keep)
              part == SubSeq(rec.tabs, 1, pos - 1)
  <2>1. rec.tabs \in Seq(Tab) /\ Distinct(rec.tabs) /\ Len(rec.tabs) \in Nat /\ keep \in Elems(rec.tabs)
    BY <1>2, RecordFields DEF Tidy, TabsOf
  <2>2. pos \in 1 .. Len(rec.tabs)
    BY <2>1, Placed
  <2>. HIDE DEF pos
  <2>3. pos - 1 \in Nat /\ pos - 1 <= Len(rec.tabs) /\ \A i \in 1 .. pos - 1 : i \in 1 .. Len(rec.tabs)
    BY <2>1, <2>2
  <2>4. part \in Seq(Tab) /\ Distinct(part) /\ Elems(part) = {rec.tabs[i] : i \in 1 .. pos - 1}
    BY <2>1, <2>3, Part
  <2>5. Elems(part) \subseteq TabsOf(rec)
    BY <2>3, <2>4 DEF TabsOf, Elems
  <2>6. ClosedLeft(rec, keep) = Swept(rec, part, "left", keep)
    BY <1>2 DEF ClosedLeft, pos
  <2>. HIDE DEF part
  <2>. QED  BY <2>4, <2>5, <2>6, Sweeps
<1>. QED  BY <1>1, <1>2

LEMMA SparesRight ==
    ASSUME NEW rec \in WindowRecord, Tidy(rec), NEW keep \in Tab \cup {NoTab}
    PROVE  Spared(rec, ClosedRight(rec, keep))
<1>1. CASE ~Contains(rec.tabs, keep)
  BY <1>1, SparesItself DEF ClosedRight
<1>2. CASE Contains(rec.tabs, keep)
  <2>. DEFINE pos == Position(rec.tabs, keep)
              n == Len(rec.tabs)
              part == SubSeq(rec.tabs, pos + 1, n)
  <2>1. rec.tabs \in Seq(Tab) /\ Distinct(rec.tabs) /\ n \in Nat /\ keep \in Elems(rec.tabs)
    BY <1>2, RecordFields DEF Tidy, TabsOf
  <2>2. pos \in 1 .. n
    BY <2>1, Placed
  <2>. HIDE DEF pos
  <2>3. pos + 1 \in Nat \ {0} /\ n <= Len(rec.tabs) /\ \A i \in pos + 1 .. n : i \in 1 .. Len(rec.tabs)
    BY <2>1, <2>2
  <2>4. part \in Seq(Tab) /\ Distinct(part) /\ Elems(part) = {rec.tabs[i] : i \in pos + 1 .. n}
    BY <2>1, <2>3, Part
  <2>5. Elems(part) \subseteq TabsOf(rec)
    BY <2>3, <2>4 DEF TabsOf, Elems
  <2>6. ClosedRight(rec, keep) = Swept(rec, part, "right", keep)
    BY <1>2 DEF ClosedRight, pos
  <2>. HIDE DEF part
  <2>. QED  BY <2>4, <2>5, <2>6, Sweeps
<1>. QED  BY <1>1, <1>2

LEMMA SparesOthers ==
    ASSUME NEW rec \in WindowRecord, Tidy(rec), rec.dialog = NoDialog
    PROVE  Spared(rec, ClosedOthers(rec))
<1>1. CASE rec.active = NoTab \/ Len(rec.tabs) <= 1
  BY <1>1, SparesItself DEF ClosedOthers
<1>2. CASE ~(rec.active = NoTab \/ Len(rec.tabs) <= 1)
  <2>. DEFINE pos == Position(rec.tabs, rec.active)
              others == RemoveAt(rec.tabs, pos)
              swept == Swept(rec, others, "others", rec.active)
  <2>1. /\ rec.tabs \in Seq(Tab) /\ Distinct(rec.tabs) /\ Len(rec.tabs) \in Nat
        /\ rec.active \in Tab \cup {NoTab}
    BY RecordFields DEF Tidy
  <2>2. rec.tabs # <<>>
    BY <1>2
  <2>3. rec.active \in Elems(rec.tabs) /\ Contains(rec.tabs, rec.active)
    BY <2>1, <2>2, Typed DEF Tidy, TabsOf
  <2>4. pos \in 1 .. Len(rec.tabs) /\ rec.tabs[pos] = rec.active
    BY <2>1, <2>3, Placed
  <2>5. ClosedOthers(rec) = IF swept.dialog # NoDialog THEN swept
                            ELSE [swept EXCEPT !.active = rec.active]
    BY <1>2, <2>3 DEF ClosedOthers
  <2>. HIDE DEF pos
  <2>6. /\ others \in Seq(Tab) /\ Distinct(others)
        /\ Elems(others) = TabsOf(rec) \ {rec.active}
    BY <2>1, <2>4, Removed DEF TabsOf
  <2>. HIDE DEF others
  <2>7. /\ Spared(rec, swept)
        /\ \/ swept.dialog = rec.dialog /\ TabsOf(swept) \cap Elems(others) = {}
           \/ swept.dialog.kind = "others"
    BY <2>1, <2>6, Sweeps
  <2>. HIDE DEF swept
  <2>8. CASE swept.dialog # NoDialog
    BY <2>5, <2>7, <2>8
  <2>9. CASE swept.dialog = NoDialog
    <3>. DEFINE rec2 == [swept EXCEPT !.active = rec.active]
    <3>1. "others" # "none" /\ NoDialog.kind = "none"
      BY DEF NoDialog
    <3>2. TabsOf(swept) \subseteq {rec.active}
      BY <2>6, <2>7, <2>9, <3>1 DEF Spared
    <3>3. swept \in WindowRecord /\ Tidy(swept)
      BY <2>7 DEF Spared
    <3>4. /\ rec2 \in WindowRecord /\ Alike(swept, rec2) /\ rec2.dialog = swept.dialog
          /\ rec2.tabs = swept.tabs /\ rec2.active = rec.active
      BY <2>1, <3>3 DEF WindowRecord, Alike
    <3>. HIDE DEF rec2
    <3>5. rec2.tabs # <<>> => rec2.active \in TabsOf(rec2)
      <4>1. swept.tabs # <<>> => TabsOf(swept) # {}
        BY <3>3, RecordFields
      <4>. QED  BY <3>2, <3>4, <4>1 DEF TabsOf
    <3>6. Tidy(rec2) /\ TabsOf(rec2) = TabsOf(swept)
      BY <3>3, <3>4, <3>5 DEF Tidy, TabsOf
    <3>7. Spared(rec, rec2)
      BY <2>7, <3>4, <3>6 DEF Spared, Alike
    <3>. QED  BY <2>5, <2>9, <3>7 DEF rec2
  <2>. QED  BY <2>8, <2>9
<1>. QED  BY <1>1, <1>2

LEMMA DialogFields ==
    /\ \A d \in Dialog : /\ d.tab \in Tab \cup {NoTab} /\ d.keep \in Tab \cup {NoTab}
                         /\ d.kind \in {"close", "all", "left", "right", "others",
                                        "large quit", "large window"} => d.tab \in Tab
    /\ NoDialog \in Dialog /\ NoDialog.kind = "none"
BY DEF Dialog, NoDialog

LEMMA SparesContinued ==
    ASSUME NEW rec \in WindowRecord, Tidy(rec), rec.dialog = NoDialog, NEW dialog \in Dialog,
           dialog.kind \in {"close", "all", "left", "right", "others"}
    PROVE  Spared(rec, Continued(rec, dialog))
<1>1. dialog.keep \in Tab \cup {NoTab}
  BY DialogFields
<1>2. CASE dialog.kind = "close"
  BY <1>2, SparesItself DEF Continued
<1>3. CASE dialog.kind = "all"
  BY <1>3, SparesAll DEF Continued
<1>4. CASE dialog.kind = "left"
  BY <1>1, <1>4, SparesLeft DEF Continued
<1>5. CASE dialog.kind = "right"
  BY <1>1, <1>5, SparesRight DEF Continued
<1>6. CASE dialog.kind = "others"
  <2>. DEFINE a == IF Contains(rec.tabs, dialog.keep) THEN dialog.keep ELSE rec.active
              rec2 == [rec EXCEPT !.active = a]
  <2>1. Continued(rec, dialog) = ClosedOthers(rec2)
    BY <1>6 DEF Continued
  <2>2. rec2 \in WindowRecord /\ Tidy(rec2) /\ Alike(rec, rec2) /\ rec2.dialog = rec.dialog
        /\ TabsOf(rec2) = TabsOf(rec)
    <3>1. CASE Contains(rec.tabs, dialog.keep)
      <4>1. dialog.keep \in TabsOf(rec)
        BY <3>1, RecordFields
      <4>2. rec2 = [rec EXCEPT !.active = dialog.keep]
        BY <3>1
      <4>. HIDE DEF rec2
      <4>. QED  BY <4>1, <4>2, WithActive
    <3>2. CASE ~Contains(rec.tabs, dialog.keep)
      <4>1. rec2 = rec
        BY <3>2 DEF WindowRecord
      <4>. QED  BY <4>1 DEF Alike
    <3>. QED  BY <3>1, <3>2
  <2>. HIDE DEF rec2
  <2>3. Spared(rec2, ClosedOthers(rec2))
    BY <2>2, SparesOthers
  <2>. QED  BY <2>1, <2>2, <2>3 DEF Spared, Alike
<1>. QED  BY <1>2, <1>3, <1>4, <1>5, <1>6

-----------------------------------------------------------------------------
(* Showing a tab. *)

LEMMA ShownFacts ==
    ASSUME NEW rec \in WindowRecord, Tidy(rec), NEW pos \in 1 .. (Len(rec.tabs) + 1),
           NEW tab \in Tab, tab \notin TabsOf(rec),
           tab.preview => Editor(tab.doc) \in TabsOf(rec)
    PROVE  LET rec2 == Shown(rec, pos, tab)
           IN  /\ rec2 \in WindowRecord /\ Tidy(rec2) /\ Alike(rec, rec2)
               /\ rec2.dialog = rec.dialog /\ TabsOf(rec2) = TabsOf(rec) \cup {tab}
<1>. DEFINE rec2 == Shown(rec, pos, tab)
            s == InsertAt(rec.tabs, pos, tab)
<1>1. rec.tabs \in Seq(Tab) /\ Distinct(rec.tabs)
  BY RecordFields DEF Tidy
<1>2. s \in Seq(Tab) /\ Distinct(s) /\ Elems(s) = TabsOf(rec) \cup {tab}
  BY <1>1, Inserted DEF TabsOf
<1>3. rec2 = [rec EXCEPT !.tabs = s, !.active = tab]
  BY DEF Shown
<1>. HIDE DEF s
<1>4. /\ rec2 \in WindowRecord /\ Alike(rec, rec2) /\ rec2.dialog = rec.dialog
      /\ rec2.tabs = s /\ rec2.active = tab
  BY <1>2, <1>3 DEF WindowRecord, Alike
<1>. HIDE DEF rec2
<1>5. Tidy(rec2) /\ TabsOf(rec2) = TabsOf(rec) \cup {tab}
  BY <1>2, <1>4 DEF Tidy, TabsOf
<1>. QED  BY <1>4, <1>5 DEF rec2

LEMMA EmptyWindow ==
    /\ NoWindow \in WindowRecord /\ Tidy(NoWindow) /\ TabsOf(NoWindow) = {}
    /\ NoWindow.transfer = None /\ NoWindow.removal = NoTab /\ NoWindow.dialog = NoDialog
    /\ NoWindow.answered = {} /\ NoWindow.failed = FALSE /\ NoWindow.tabs = <<>>
    /\ Len(NoWindow.tabs) = 0
<1>1. NoDialog \in Dialog
  BY DialogFields
<1>2. <<>> \in Seq(Tab) /\ Len(<<>>) = 0
  BY EmptySeq
<1>3. NoWindow \in WindowRecord
  BY <1>1, <1>2 DEF NoWindow, WindowRecord
<1>4. /\ NoWindow.transfer = None /\ NoWindow.removal = NoTab /\ NoWindow.dialog = NoDialog
      /\ NoWindow.answered = {} /\ NoWindow.failed = FALSE /\ NoWindow.tabs = <<>>
  BY DEF NoWindow
<1>5. 1 .. Len(NoWindow.tabs) = {}
  BY <1>2, <1>4
<1>6. Tidy(NoWindow) /\ TabsOf(NoWindow) = {}
  BY <1>4, <1>5 DEF Tidy, Distinct, TabsOf, Elems
<1>. QED  BY <1>2, <1>3, <1>4, <1>6

-----------------------------------------------------------------------------
(* The invariant. *)

\* The documents whose tabs are to stay.
Kept(rec) == {d \in Doc : Editor(d) \in TabsOf(rec) /\ rec.removal # Editor(d)}

\* The homes that a document has with the windows op, which keep ws, and the
\* window that is being created for og.
InTab(op, ws, d) == {w \in op : d \in Kept(ws[w])}
InSlot(op, ws, d) == {w \in op : ws[w].transfer = d}
HasHome(op, ws, og, d) == og = d \/ InTab(op, ws, d) # {} \/ InSlot(op, ws, d) # {}
OneHome(op, ws, og, d) ==
    /\ \A w, v \in InTab(op, ws, d) : w = v
    /\ \A w, v \in InSlot(op, ws, d) : w = v
    /\ InTab(op, ws, d) = {} \/ InSlot(op, ws, d) = {}
    /\ og = d => InTab(op, ws, d) = {} /\ InSlot(op, ws, d) = {}

\* No document is in two places, and those that are anywhere were opened.
Tracked(op, ws, og, us) ==
    \A d \in Doc : OneHome(op, ws, og, d) /\ (HasHome(op, ws, og, d) => d \in us)

\* Changes that can be persisted are somewhere, white space apart.
Safe(op, ws, og, uns, sv) ==
    \A d \in uns : HasHome(op, ws, og, d) \/ (op = {} /\ d \in sv)

Sound(rec) ==
    /\ Tidy(rec)
    /\ rec.dialog.kind \in {"large quit", "large window"} => rec.dialog.tab.doc \in Large
    /\ ~rec.removal.preview

TextTypes == blank \subseteq untitled /\ untitled \subseteq Small

Types ==
    /\ TextTypes
    /\ open \subseteq Window /\ registered \subseteq Window /\ open \subseteq registered
    /\ opening \in Doc \cup {None} /\ modified \subseteq Doc
    /\ saved \subseteq Small /\ used \subseteq Doc

TabsUsed(rec, us) == \A t \in TabsOf(rec) : t.doc \in us

Inv ==
    /\ Types /\ lost \in BOOLEAN
    /\ win \in [Window -> WindowRecord]
    /\ \A w \in Window : Sound(win[w])
    /\ \A w \in open : TabsUsed(win[w], used)
    /\ Tracked(open, win, opening, used)
    /\ Safe(open, win, opening, Unsaved, saved)

\* No document becomes one with unsaved changes but by a change of its own.
LEMMA FewerUnsaved ==
    /\ Unsaved \subseteq modified /\ Unsaved \subseteq Small
    /\ Unsaved' \subseteq modified' /\ Unsaved' \subseteq Small
    /\ modified' \subseteq modified /\ blank' = blank => Unsaved' \subseteq Unsaved
    /\ modified' = modified /\ blank' = blank => Unsaved' = Unsaved
BY DEF Unsaved

\* What the invariant says of one window.
LEMMA InvOfWindow ==
    ASSUME Inv, NEW w \in Window
    PROVE  /\ win[w] \in WindowRecord /\ Sound(win[w]) /\ Tidy(win[w])
           /\ w \in open => TabsUsed(win[w], used)
BY DEF Inv, Sound

LEMMA DocsAreEditors ==
    ASSUME NEW rec \in WindowRecord
    PROVE  /\ Docs(rec.tabs) = {d \in Doc : Editor(d) \in TabsOf(rec)}
           /\ \A d \in Doc : d \in Docs(rec.tabs) <=> Editor(d) \in TabsOf(rec)
           /\ Docs(rec.tabs) \subseteq Doc
<1>1. /\ DOMAIN rec.tabs = 1 .. Len(rec.tabs)
      /\ \A i \in 1 .. Len(rec.tabs) : rec.tabs[i] \in Tab
  BY RecordFields
<1>2. ASSUME NEW d \in Docs(rec.tabs) PROVE d \in Doc /\ Editor(d) \in TabsOf(rec)
  <2>1. PICK i \in 1 .. Len(rec.tabs) : ~rec.tabs[i].preview /\ d = rec.tabs[i].doc
    BY <1>1 DEF Docs
  <2>2. d \in Doc /\ Preview(d).preview /\ (rec.tabs[i] = Editor(d) \/ rec.tabs[i] = Preview(d))
    BY <1>1, <2>1, DocFacts
  <2>3. rec.tabs[i] = Editor(d)
    BY <2>1, <2>2
  <2>. QED  BY <2>2, <2>3 DEF TabsOf, Elems
<1>3. ASSUME NEW d \in Doc, Editor(d) \in TabsOf(rec) PROVE d \in Docs(rec.tabs)
  <2>1. PICK i \in 1 .. Len(rec.tabs) : rec.tabs[i] = Editor(d)
    BY <1>3 DEF TabsOf, Elems
  <2>2. Editor(d).doc = d /\ ~Editor(d).preview
    BY DocFacts
  <2>. QED  BY <1>1, <2>1, <2>2 DEF Docs
<1>. QED  BY <1>2, <1>3

\* A step of one window: it keeps the tabs that have to stay, and shows no
\* documents but those it showed and the fresh ones.
LEMMA OneWindow ==
    ASSUME Inv, NEW w \in open, NEW r \in WindowRecord, Sound(r),
           r.transfer = win[w].transfer, r.removal = win[w].removal,
           NEW N \in SUBSET Doc, N \cap used = {},
           \A d \in Doc : Editor(d) \in TabsOf(r) => d \in N \/ Editor(d) \in TabsOf(win[w]),
           Set(w, r), UNCHANGED screenVars, used' = used \cup N, modified' \subseteq Doc,
           TextTypes',
           \A d \in Unsaved' :
              d \in Kept(r) \/ (d \in Unsaved /\ (d \in Kept(win[w]) => d \in Kept(r)))
    PROVE  Inv'
<1>1. /\ w \in Window /\ win \in [Window -> WindowRecord]
      /\ open' = open /\ registered' = registered /\ opening' = opening
      /\ saved' = saved /\ lost' = lost
  BY DEF Inv, Types, screenVars
<1>2. win' \in [Window -> WindowRecord] /\ win'[w] = r
      /\ \A v \in Window \ {w} : win'[v] = win[v]
  BY <1>1 DEF Set
<1>3. Types'
  BY <1>1 DEF Inv, Types
<1>4. lost' \in BOOLEAN
  BY <1>1, Zenon DEF Inv
<1>5. \A v \in Window : Sound(win'[v])
  BY <1>2 DEF Inv
<1>6. ASSUME NEW v \in open PROVE TabsUsed(win'[v], used')
  <2>1. v \in Window /\ TabsUsed(win[v], used) /\ TabsUsed(win[w], used)
    BY DEF Inv, Types
  <2>2. CASE v # w
    BY <1>2, <2>1, <2>2 DEF TabsUsed
  <2>3. CASE v = w
    <3>. SUFFICES ASSUME NEW t \in TabsOf(r) PROVE t.doc \in used \cup N
      BY <1>2, <2>3 DEF TabsUsed
    <3>1. t \in Tab /\ t.doc \in Doc /\ t.preview \in BOOLEAN
      BY RecordFields, DocFacts
    <3>2. Editor(t.doc) \in TabsOf(r) /\ Editor(t.doc).doc = t.doc
      <4>1. CASE t.preview
        BY <3>1, <4>1, DocFacts DEF Sound, Tidy
      <4>2. CASE ~t.preview
        <5>1. Preview(t.doc).preview /\ (t = Editor(t.doc) \/ t = Preview(t.doc))
          BY <3>1, DocFacts
        <5>. QED  BY <3>1, <4>2, <5>1, DocFacts
      <4>. QED  BY <4>1, <4>2
    <3>3. t.doc \in N \/ Editor(t.doc) \in TabsOf(win[w])
      BY <3>1, <3>2
    <3>. QED  BY <2>1, <3>2, <3>3 DEF TabsUsed
  <2>. QED  BY <2>2, <2>3
<1>7. ASSUME NEW d \in Doc, d \notin N
      PROVE  InTab(open, win', d) \subseteq InTab(open, win, d)
             /\ InSlot(open, win', d) = InSlot(open, win, d)
  <2>1. d \in Kept(r) => d \in Kept(win[w])
    BY <1>7 DEF Kept
  <2>2. open \subseteq Window
    BY DEF Inv, Types
  <2>. QED  BY <1>2, <2>1, <2>2 DEF InTab, InSlot
<1>8. ASSUME NEW d \in N
      PROVE  /\ InTab(open, win', d) \subseteq {w} /\ InSlot(open, win', d) = {} /\ opening # d
             /\ d \in used'
  <2>1. d \in Doc /\ ~HasHome(open, win, opening, d) /\ open \subseteq Window
    BY DEF Inv, Types, Tracked
  <2>. QED  BY <1>2, <2>1 DEF HasHome, InTab, InSlot
<1>9. Tracked(open', win', opening', used')
  <2>. SUFFICES ASSUME NEW d \in Doc
                PROVE  /\ OneHome(open, win', opening, d)
                       /\ HasHome(open, win', opening, d) => d \in used'
    BY <1>1 DEF Tracked
  <2>1. CASE d \in N
    BY <1>8, <2>1 DEF OneHome
  <2>2. CASE d \notin N
    <3>1. /\ OneHome(open, win, opening, d)
          /\ HasHome(open, win, opening, d) => d \in used
      BY DEF Inv, Tracked
    <3>2. OneHome(open, win', opening, d)
      BY <1>7, <2>2, <3>1 DEF OneHome
    <3>. QED  BY <1>7, <2>2, <3>1, <3>2 DEF HasHome
  <2>. QED  BY <2>1, <2>2
<1>10. Safe(open', win', opening', Unsaved', saved')
  <2>. SUFFICES ASSUME NEW d \in Unsaved'
                PROVE  HasHome(open, win', opening, d)
    BY <1>1 DEF Safe
  <2>1. d \in Doc /\ open \subseteq Window
    BY FewerUnsaved DEF Inv, Types, Doc
  <2>2. CASE d \in Kept(r)
    BY <1>2, <2>2 DEF HasHome, InTab
  <2>3. CASE d \notin Kept(r)
    <3>1. d \in Unsaved /\ d \notin Kept(win[w])
      BY <2>3
    <3>2. HasHome(open, win, opening, d)
      BY <3>1 DEF Inv, Safe
    <3>3. \A v \in open : /\ d \in Kept(win[v]) => d \in Kept(win'[v])
                          /\ win'[v].transfer = win[v].transfer
      BY <1>2, <2>1, <3>1
    <3>. QED  BY <3>2, <3>3 DEF HasHome, InTab, InSlot
  <2>. QED  BY <2>2, <2>3
<1>. QED  BY <1>2, <1>3, <1>4, <1>5, <1>6, <1>9, <1>10, <1>1 DEF Inv

-----------------------------------------------------------------------------
(* Opening, activating and ordering tabs. *)

\* A step of one window that opens no document.
LEMMA SameDocs ==
    ASSUME Inv, NEW w \in open, NEW r \in WindowRecord, Sound(r),
           r.transfer = win[w].transfer, r.removal = win[w].removal,
           \A d \in Doc : Editor(d) \in TabsOf(r) => Editor(d) \in TabsOf(win[w]),
           Set(w, r), UNCHANGED windowVars, modified' \subseteq modified,
           \A d \in modified' \cap Small :
              Editor(d) \in TabsOf(win[w]) => Editor(d) \in TabsOf(r)
    PROVE  Inv'
<1>1. UNCHANGED screenVars /\ used' = used \cup {} /\ modified \subseteq Doc
      /\ blank' = blank /\ TextTypes'
  BY DEF windowVars, textVars, Inv, Types, TextTypes
<1>2. \A d \in Unsaved' :
         d \in Unsaved /\ (d \in Kept(win[w]) => d \in Kept(r))
  BY <1>1, FewerUnsaved DEF Kept
<1>3. {} \in SUBSET Doc /\ {} \cap used = {} /\ modified' \subseteq Doc
  BY <1>1
<1>4. \A d \in Doc : Editor(d) \in TabsOf(r) => d \in {} \/ Editor(d) \in TabsOf(win[w])
  OBVIOUS
<1>5. \A d \in Unsaved' :
         d \in Kept(r) \/ (d \in Unsaved /\ (d \in Kept(win[w]) => d \in Kept(r)))
  BY <1>2
<1>. QED  BY <1>1, <1>3, <1>4, <1>5, OneWindow

\* A record with the same tabs.
LEMMA SameTabs ==
    ASSUME Inv, NEW w \in open, NEW r \in WindowRecord,
           r.tabs = win[w].tabs, r.active = win[w].active \/ r.active \in TabsOf(win[w]),
           r.dialog.kind \in {"large quit", "large window"} => r.dialog.tab.doc \in Large,
           r.transfer = win[w].transfer, r.removal = win[w].removal,
           Set(w, r), UNCHANGED windowVars, modified' \subseteq modified
    PROVE  Inv'
<1>1. w \in Window /\ win[w] \in WindowRecord /\ Sound(win[w]) /\ Tidy(win[w])
  BY InvOfWindow DEF Inv, Types
<1>2. TabsOf(r) = TabsOf(win[w]) /\ Tidy(r)
  BY <1>1 DEF TabsOf, Tidy
<1>3. Sound(r)
  BY <1>1, <1>2 DEF Sound
<1>. QED  BY <1>2, <1>3, SameDocs

\* The window as it is.
LEMMA SameWindow ==
    ASSUME Inv, NEW w \in Window
    PROVE  win = [win EXCEPT ![w] = win[w]]
BY DEF Inv

LEMMA FreshFacts ==
    ASSUME Inv, NEW docs, NEW d \in Fresh(docs), docs \subseteq Doc
    PROVE  /\ d \in Doc /\ d \in docs /\ d \notin used /\ {d} \in SUBSET Doc /\ {d} \cap used = {}
           /\ Editor(d) \in Tab /\ Editor(d).doc = d /\ ~Editor(d).preview
           /\ \A e \in Doc : Editor(e) = Editor(d) => e = d
           /\ \A w \in open : \A t \in TabsOf(win[w]) : t.doc # d
<1>1. d \in Doc /\ d \in docs /\ d \notin used
  BY DEF Fresh
<1>2. \A e \in Doc : Editor(e).doc = e
  BY DocFacts
<1>3. \A w \in open : \A t \in TabsOf(win[w]) : t.doc # d
  BY <1>1 DEF Inv, TabsUsed
<1>4. Editor(d) \in Tab /\ ~Editor(d).preview
  BY <1>1, DocFacts
<1>. QED  BY <1>1, <1>2, <1>3, <1>4

\* One fresh document is shown, and nothing goes that has unsaved changes.
LEMMA FreshShown ==
    ASSUME Inv, NEW w \in open, NEW docs \in SUBSET Doc, NEW d \in Fresh(docs),
           NEW r \in WindowRecord, Tidy(r), Alike(win[w], r), r.dialog = win[w].dialog,
           \A e \in Doc : Editor(e) \in TabsOf(r) => e = d \/ Editor(e) \in TabsOf(win[w]),
           \A e \in Unsaved : Editor(e) \in TabsOf(win[w]) => Editor(e) \in TabsOf(r),
           Set(w, r), UNCHANGED screenVars, Opens(d), TextTypes', blank \subseteq blank',
           \/ modified' = modified
           \/ modified' = modified \cup {d} /\ d \in Kept(r)
    PROVE  Inv'
<1>1. w \in Window /\ Sound(win[w]) /\ modified \subseteq Doc
  BY InvOfWindow DEF Inv, Types
<1>2. d \in Doc /\ {d} \in SUBSET Doc /\ {d} \cap used = {} /\ used' = used \cup {d}
  BY FreshFacts DEF Opens
<1>3. Sound(r)
  BY <1>1 DEF Sound, Alike
<1>4. \A e \in Unsaved : e \in Kept(win[w]) => e \in Kept(r)
  BY <1>1 DEF Kept, Alike
<1>5. modified' \subseteq Doc /\ \A e \in Unsaved' : e \in Kept(r) \/ e \in Unsaved
  BY <1>1, <1>2 DEF Unsaved
<1>6. r.transfer = win[w].transfer /\ r.removal = win[w].removal
  BY DEF Alike
<1>7. \A e \in Doc : Editor(e) \in TabsOf(r) => e \in {d} \/ Editor(e) \in TabsOf(win[w])
  OBVIOUS
<1>8. \A e \in Unsaved' :
         e \in Kept(r) \/ (e \in Unsaved /\ (e \in Kept(win[w]) => e \in Kept(r)))
  BY <1>4, <1>5
<1>. QED  BY <1>2, <1>3, <1>5, <1>6, <1>7, <1>8, OneWindow

LEMMA NewTabStep == ASSUME Inv, NEW w \in Window, NewTab(w) PROVE Inv'
<1>1. w \in open /\ win[w] \in WindowRecord /\ Tidy(win[w])
  BY InvOfWindow DEF NewTab, Ready, Rendered
<1>2. PICK d \in Fresh(Small) :
         Set(w, Shown(win[w], Len(win[w].tabs) + 1, Editor(d))) /\ OpensBlank(d)
  BY DEF NewTab
<1>. DEFINE r == Shown(win[w], Len(win[w].tabs) + 1, Editor(d))
<1>3. Small \in SUBSET Doc
  BY DEF Doc
<1>4. /\ Editor(d) \in Tab /\ ~Editor(d).preview /\ Editor(d) \notin TabsOf(win[w])
      /\ \A e \in Doc : Editor(e) = Editor(d) => e = d
  BY <1>1, <1>3, FreshFacts
<1>5. Len(win[w].tabs) + 1 \in 1 .. (Len(win[w].tabs) + 1)
  BY <1>1, RecordFields
<1>6. /\ r \in WindowRecord /\ Tidy(r) /\ Alike(win[w], r) /\ r.dialog = win[w].dialog
      /\ TabsOf(r) = TabsOf(win[w]) \cup {Editor(d)}
  BY <1>1, <1>4, <1>5, ShownFacts
<1>7. Set(w, r)
  BY <1>2
<1>. HIDE DEF r
<1>8. /\ UNCHANGED screenVars /\ modified' = modified
      /\ Opens(d) /\ TextTypes' /\ blank \subseteq blank'
  <2>1. d \in Small /\ TextTypes
    BY DEF Fresh, Inv, Types
  <2>. QED  BY <1>2, <2>1 DEF NewTab, OpensBlank, TextTypes
<1>9. \A e \in Doc : Editor(e) \in TabsOf(r) => e = d \/ Editor(e) \in TabsOf(win[w])
  BY <1>4, <1>6
<1>10. \A e \in Unsaved : Editor(e) \in TabsOf(win[w]) => Editor(e) \in TabsOf(r)
  BY <1>6
<1>. QED  BY <1>1, <1>2, <1>3, <1>6, <1>7, <1>8, <1>9, <1>10, FreshShown

LEMMA DuplicateTabStep == ASSUME Inv, NEW w \in Window, DuplicateTab(w) PROVE Inv'
<1>1. /\ w \in open /\ win[w] \in WindowRecord /\ Tidy(win[w])
      /\ win[w].removal = NoTab
  BY InvOfWindow DEF DuplicateTab, Ready, Rendered
<1>2. PICK i \in DOMAIN win[w].tabs, d \in Fresh(Small) :
         /\ Set(w, Shown(win[w], i + 1, Editor(d)))
         /\ blank' = blank \cup {d} \/ blank' = blank
         /\ modified' = modified \cup {d} /\ untitled' = untitled \cup {d} /\ Opens(d)
  BY DEF DuplicateTab
<1>. DEFINE r == Shown(win[w], i + 1, Editor(d))
<1>3. Small \in SUBSET Doc
  BY DEF Doc
<1>4. /\ d \in Doc /\ Editor(d) \in Tab /\ ~Editor(d).preview /\ Editor(d) \notin TabsOf(win[w])
      /\ \A e \in Doc : Editor(e) = Editor(d) => e = d
  BY <1>1, <1>3, FreshFacts
<1>5. i + 1 \in 1 .. (Len(win[w].tabs) + 1)
  BY <1>1, RecordFields
<1>6. /\ r \in WindowRecord /\ Tidy(r) /\ Alike(win[w], r) /\ r.dialog = win[w].dialog
      /\ TabsOf(r) = TabsOf(win[w]) \cup {Editor(d)}
  BY <1>1, <1>4, <1>5, ShownFacts
<1>7. Set(w, r)
  BY <1>2
<1>. HIDE DEF r
<1>8. UNCHANGED screenVars /\ TextTypes' /\ blank \subseteq blank'
  <2>1. d \in Small /\ TextTypes
    BY DEF Fresh, Inv, Types
  <2>. QED  BY <1>2, <2>1 DEF DuplicateTab, TextTypes
<1>9. \A e \in Doc : Editor(e) \in TabsOf(r) => e = d \/ Editor(e) \in TabsOf(win[w])
  BY <1>4, <1>6
<1>10. \A e \in Unsaved : Editor(e) \in TabsOf(win[w]) => Editor(e) \in TabsOf(r)
  BY <1>6
<1>11. d \in Kept(r)
  BY <1>1, <1>4, <1>6, DocFacts DEF Kept, Alike
<1>. QED  BY <1>1, <1>2, <1>3, <1>6, <1>7, <1>8, <1>9, <1>10, <1>11, FreshShown

\* A blank tab may go.
LEMMA ScratchFacts ==
    ASSUME TextTypes, NEW rec \in WindowRecord, Tidy(rec)
    PROVE  LET rec2 == ReusingScratch(rec)
           IN  /\ rec2 \in WindowRecord /\ Tidy(rec2) /\ Alike(rec, rec2)
               /\ rec2.dialog = rec.dialog /\ TabsOf(rec2) \subseteq TabsOf(rec)
               /\ \A e \in Unsaved : Editor(e) \in TabsOf(rec) => Editor(e) \in TabsOf(rec2)
<1>. DEFINE final == Last(rec.tabs)
<1>1. CASE rec.tabs = <<>> \/ ~(~final.preview /\ final.doc \in blank)
  BY <1>1 DEF ReusingScratch, Alike
<1>2. CASE rec.tabs # <<>> /\ ~final.preview /\ final.doc \in blank
  <2>1. ReusingScratch(rec) = RemoveTab(rec, final)
    BY <1>2 DEF ReusingScratch
  <2>2. rec.tabs \in Seq(Tab)
    BY RecordFields
  <2>3. Len(rec.tabs) \in Nat \ {0}
    BY <1>2, <2>2, EmptySeq
  <2>4. final \in Tab
    BY <2>2, <2>3 DEF Last
  <2>. HIDE DEF final
  <2>5. Reduced(rec, RemoveTab(rec, final), Taken(final))
    BY <2>4, RemoveTabReduces
  <2>6. final.doc \in Doc /\ Taken(final) = {final, Preview(final.doc)}
        /\ Preview(final.doc).preview
    BY <1>2, <2>4, DocFacts DEF Taken
  <2>7. ASSUME NEW e \in Unsaved, Editor(e) \in TabsOf(rec) PROVE Editor(e) \notin Taken(final)
    <3>1. Editor(e).doc = e /\ ~Editor(e).preview /\ e \notin blank
      BY DEF Editor, Unsaved
    <3>2. Editor(e) # final
      BY <1>2, <3>1
    <3>. QED  BY <2>6, <3>1, <3>2
  <2>. QED  BY <2>1, <2>5, <2>7 DEF Reduced
<1>. QED  BY <1>1, <1>2

LEMMA FileOpenedStep == ASSUME Inv, NEW w \in Window, FileOpened(w) PROVE Inv'
<1>1. w \in open /\ win[w] \in WindowRecord /\ Tidy(win[w])
  BY InvOfWindow DEF FileOpened
<1>. DEFINE reused == ReusingScratch(win[w])
            Shows(d) == Shown(reused, Len(reused.tabs) + 1, Editor(d))
<1>2. /\ UNCHANGED screenVars /\ modified' = modified /\ TextTypes' /\ blank \subseteq blank'
      /\ \E d \in Fresh(Small) \cup Fresh(Large) :
            /\ Opens(d)
            /\ \/ Set(w, Shows(d))
               \/ /\ Len(Shows(d).tabs) < MaxTabs /\ d \in Markdown
                  /\ Set(w, [Shows(d) EXCEPT !.tabs = Append(@, Preview(d))])
  BY DEF FileOpened, textVars, TextTypes, Inv, Types
<1>. HIDE DEF Shows
<1>3. PICK d \in Fresh(Small) \cup Fresh(Large) :
         /\ Opens(d)
         /\ \/ Set(w, Shows(d))
            \/ d \in Markdown /\ Set(w, [Shows(d) EXCEPT !.tabs = Append(@, Preview(d))])
  BY <1>2
<1>. DEFINE placed == Shows(d)
<1>4. PICK docs \in SUBSET Doc : d \in Fresh(docs)
  BY DEF Doc
<1>5. /\ d \in Doc /\ Editor(d) \in Tab /\ ~Editor(d).preview /\ Editor(d).doc = d
      /\ (\A e \in Doc : Editor(e) = Editor(d) => e = d)
      /\ \A t \in TabsOf(win[w]) : t.doc # d
  BY <1>1, <1>4, FreshFacts
<1>6. /\ reused \in WindowRecord /\ Tidy(reused) /\ Alike(win[w], reused)
      /\ reused.dialog = win[w].dialog /\ TabsOf(reused) \subseteq TabsOf(win[w])
      /\ \A e \in Unsaved : Editor(e) \in TabsOf(win[w]) => Editor(e) \in TabsOf(reused)
  BY <1>1, ScratchFacts DEF Inv, Types
<1>7. placed = Shown(reused, Len(reused.tabs) + 1, Editor(d))
  BY DEF Shows
<1>. HIDE DEF reused
<1>8. Len(reused.tabs) + 1 \in 1 .. (Len(reused.tabs) + 1) /\ Editor(d) \notin TabsOf(reused)
  BY <1>5, <1>6, RecordFields
<1>9. /\ placed \in WindowRecord /\ Tidy(placed) /\ Alike(reused, placed)
      /\ placed.dialog = reused.dialog /\ TabsOf(placed) = TabsOf(reused) \cup {Editor(d)}
  BY <1>5, <1>6, <1>7, <1>8, ShownFacts
<1>10. CASE Set(w, placed)
  <2>1. /\ Alike(win[w], placed) /\ placed.dialog = win[w].dialog
        /\ \A e \in Doc : Editor(e) \in TabsOf(placed) => e = d \/ Editor(e) \in TabsOf(win[w])
        /\ \A e \in Unsaved : Editor(e) \in TabsOf(win[w]) => Editor(e) \in TabsOf(placed)
    BY <1>5, <1>6, <1>9 DEF Alike
  <2>. HIDE DEF placed
  <2>. QED  BY <1>1, <1>2, <1>3, <1>4, <1>9, <1>10, <2>1, FreshShown
<1>11. CASE d \in Markdown /\ Set(w, [placed EXCEPT !.tabs = Append(@, Preview(d))])
  <2>. DEFINE s == Append(placed.tabs, Preview(d))
              r == [placed EXCEPT !.tabs = s]
  <2>. HIDE DEF placed
  <2>1. Preview(d) \in Tab /\ Preview(d).preview /\ Preview(d).doc = d /\ Preview(d) # Editor(d)
    BY <1>5, DocFacts
  <2>2. Preview(d) \notin TabsOf(placed)
    BY <1>5, <1>6, <1>9, <2>1
  <2>3. placed.tabs \in Seq(Tab) /\ Distinct(placed.tabs)
    BY <1>9, RecordFields DEF Tidy
  <2>4. s \in Seq(Tab) /\ Distinct(s) /\ Elems(s) = TabsOf(placed) \cup {Preview(d)}
    BY <2>1, <2>2, <2>3, Appended DEF TabsOf
  <2>5. Set(w, r)
    BY <1>11
  <2>. HIDE DEF s
  <2>6. /\ r \in WindowRecord /\ Alike(placed, r) /\ r.dialog = placed.dialog
        /\ r.tabs = s /\ r.active = placed.active
    BY <1>9, <2>4 DEF WindowRecord, Alike
  <2>. HIDE DEF r
  <2>7. TabsOf(r) = TabsOf(placed) \cup {Preview(d)}
    BY <2>4, <2>6 DEF TabsOf
  <2>8. Tidy(r)
    <3>1. placed.active \in TabsOf(placed)
      BY <1>9, RecordFields DEF Tidy
    <3>2. \A t \in TabsOf(r) : t.preview => Editor(t.doc) \in TabsOf(r)
      BY <1>9, <2>1, <2>7 DEF Tidy
    <3>. QED  BY <2>4, <2>6, <2>7, <3>1, <3>2 DEF Tidy
  <2>9. \A e \in Doc : Editor(e) \in TabsOf(r) => Editor(e) \in TabsOf(placed)
    <3>1. \A e \in Doc : Editor(e) # Preview(d)
      BY <2>1, DocFacts
    <3>. QED  BY <2>7, <3>1
  <2>10. /\ Alike(win[w], r) /\ r.dialog = win[w].dialog
         /\ \A e \in Doc : Editor(e) \in TabsOf(r) => e = d \/ Editor(e) \in TabsOf(win[w])
         /\ \A e \in Unsaved : Editor(e) \in TabsOf(win[w]) => Editor(e) \in TabsOf(r)
    BY <1>5, <1>6, <1>9, <2>6, <2>7, <2>9 DEF Alike
  <2>. QED  BY <1>1, <1>2, <1>3, <1>4, <2>5, <2>6, <2>8, <2>10, FreshShown
<1>. QED  BY <1>3, <1>10, <1>11

\* The tabs that a removal leaves.
LEMMA ReducedDocs ==
    ASSUME NEW rec \in WindowRecord, NEW tab \in Tab, NEW rec2, Reduced(rec, rec2, Taken(tab)),
           NEW d \in Doc, Editor(d) \in TabsOf(rec), Editor(d) # tab
    PROVE  Editor(d) \in TabsOf(rec2)
<1>1. ~Editor(d).preview /\ Preview(tab.doc).preview
  BY DocFacts
<1>. QED  BY <1>1 DEF Reduced, Taken

LEMMA TogglePreviewStep == ASSUME Inv, NEW w \in Window, TogglePreview(w) PROVE Inv'
<1>. DEFINE tab == win[w].active
            preview == Preview(tab.doc)
<1>1. /\ w \in open /\ win[w] \in WindowRecord /\ Tidy(win[w]) /\ Sound(win[w])
      /\ modified \subseteq Doc
  BY InvOfWindow DEF TogglePreview, Ready, Rendered, Inv, Types
<1>2. /\ Contains(win[w].tabs, tab) /\ UNCHANGED windowVars /\ modified' = modified
      /\ \/ /\ Contains(win[w].tabs, preview)
            /\ Set(w, RemoveTab(win[w], preview))
         \/ /\ ~Contains(win[w].tabs, preview) /\ tab.doc \in Markdown
            /\ Set(w, Shown(win[w], Position(win[w].tabs, tab) + 1, preview))
  BY DEF TogglePreview
<1>3. tab \in TabsOf(win[w]) /\ tab \in Tab /\ tab.doc \in Doc
  BY <1>1, <1>2, RecordFields, DocFacts
<1>4. preview \in Tab /\ preview.preview /\ preview.doc = tab.doc
  BY <1>3, DocFacts
<1>5. CASE Set(w, RemoveTab(win[w], preview))
  <2>. DEFINE r == RemoveTab(win[w], preview)
  <2>1. Reduced(win[w], r, Taken(preview))
    BY <1>1, <1>4, RemoveTabReduces
  <2>. HIDE DEF r
  <2>2. r \in WindowRecord /\ Sound(r) /\ r.transfer = win[w].transfer /\ r.removal = win[w].removal
    BY <1>1, <2>1 DEF Reduced, Sound, Alike
  <2>3. \A d \in Doc : Editor(d) # preview
    BY <1>4, DocFacts
  <2>4. \A d \in Doc : Editor(d) \in TabsOf(r) => Editor(d) \in TabsOf(win[w])
    BY <2>1 DEF Reduced
  <2>5. \A d \in modified' \cap Small : Editor(d) \in TabsOf(win[w]) => Editor(d) \in TabsOf(r)
    BY <1>1, <1>2, <1>4, <2>1, <2>3, ReducedDocs
  <2>. QED  BY <1>1, <1>2, <1>5, <2>2, <2>4, <2>5, SameDocs DEF r
<1>6. CASE /\ ~Contains(win[w].tabs, preview)
           /\ Set(w, Shown(win[w], Position(win[w].tabs, tab) + 1, preview))
  <2>. DEFINE r == Shown(win[w], Position(win[w].tabs, tab) + 1, preview)
  <2>1. preview \notin TabsOf(win[w])
    BY <1>1, <1>6, RecordFields
  <2>2. Editor(preview.doc) \in TabsOf(win[w])
    <3>1. tab = Editor(tab.doc) \/ tab.preview
      BY <1>3, DocFacts
    <3>. QED  BY <1>1, <1>3, <1>4, <3>1 DEF Tidy
  <2>3. Position(win[w].tabs, tab) + 1 \in 1 .. (Len(win[w].tabs) + 1)
    <3>1. win[w].tabs \in Seq(Tab) /\ Len(win[w].tabs) \in Nat /\ tab \in Elems(win[w].tabs)
      BY <1>1, <1>3, RecordFields DEF TabsOf
    <3>2. Position(win[w].tabs, tab) \in 1 .. Len(win[w].tabs)
      BY <3>1, Placed
    <3>. QED  BY <3>1, <3>2
  <2>4. /\ r \in WindowRecord /\ Tidy(r) /\ Alike(win[w], r) /\ r.dialog = win[w].dialog
        /\ TabsOf(r) = TabsOf(win[w]) \cup {preview}
    BY <1>1, <1>4, <2>1, <2>2, <2>3, ShownFacts
  <2>. HIDE DEF r
  <2>5. Sound(r) /\ r.transfer = win[w].transfer /\ r.removal = win[w].removal
    BY <1>1, <2>4 DEF Sound, Alike
  <2>6. \A d \in Doc : Editor(d) # preview
    BY <1>4, DocFacts
  <2>7. \A d \in Doc : Editor(d) \in TabsOf(r) => Editor(d) \in TabsOf(win[w])
    BY <2>4, <2>6
  <2>8. \A d \in modified' \cap Small : Editor(d) \in TabsOf(win[w]) => Editor(d) \in TabsOf(r)
    BY <2>4
  <2>. QED  BY <1>1, <1>2, <1>6, <2>4, <2>5, <2>7, <2>8, SameDocs DEF r
<1>. QED  BY <1>2, <1>5, <1>6

LEMMA SetActiveTabStep == ASSUME Inv, NEW w \in Window, SetActiveTab(w) PROVE Inv'
<1>1. w \in open /\ win[w] \in WindowRecord /\ Tidy(win[w]) /\ Sound(win[w])
  BY InvOfWindow DEF SetActiveTab, Ready, Rendered
<1>2. PICK tab \in ToSet(win[w].tabs) \ {win[w].active} :
         Set(w, [win[w] EXCEPT !.active = tab])
  BY DEF SetActiveTab
<1>. DEFINE r == [win[w] EXCEPT !.active = tab]
<1>3. tab \in TabsOf(win[w])
  BY <1>1, RecordFields
<1>4. /\ r \in WindowRecord /\ Tidy(r) /\ Alike(win[w], r) /\ r.dialog = win[w].dialog
      /\ r.tabs = win[w].tabs /\ r.active = tab
  BY <1>1, <1>3, WithActive
<1>5. Set(w, r)
  BY <1>2
<1>. HIDE DEF r
<1>6. UNCHANGED windowVars /\ modified' \subseteq modified
  BY DEF SetActiveTab
<1>7. r.dialog.kind \in {"large quit", "large window"} => r.dialog.tab.doc \in Large
  BY <1>1, <1>4 DEF Sound
<1>. QED  BY <1>1, <1>3, <1>4, <1>5, <1>6, <1>7, SameTabs DEF Alike

LEMMA ReorderTabStep == ASSUME Inv, NEW w \in Window, ReorderTab(w) PROVE Inv'
<1>1. w \in open /\ win[w] \in WindowRecord /\ Tidy(win[w]) /\ Sound(win[w])
  BY InvOfWindow DEF ReorderTab, Ready, Rendered
<1>. DEFINE old == win[w].tabs
<1>2. PICK from \in DOMAIN old, to \in 1 .. (Len(old) + 1) :
         /\ to \notin {from, from + 1}
         /\ Set(w, [win[w] EXCEPT
              !.tabs = InsertAt(RemoveAt(old, from), IF to > from THEN to - 1 ELSE to, old[from])])
  BY DEF ReorderTab
<1>. DEFINE tab == old[from]
            rest == RemoveAt(old, from)
            k == IF to > from THEN to - 1 ELSE to
            s == InsertAt(rest, k, tab)
            r == [win[w] EXCEPT !.tabs = s]
<1>3. /\ old \in Seq(Tab) /\ Distinct(old) /\ Len(old) \in Nat /\ from \in 1 .. Len(old)
      /\ tab \in Tab /\ tab \in Elems(old)
  BY <1>1, RecordFields, Typed DEF Tidy, Elems
<1>4. Set(w, r)
  BY <1>2
<1>. HIDE DEF old, tab
<1>5. /\ rest \in Seq(Tab) /\ Distinct(rest) /\ Elems(rest) = Elems(old) \ {tab}
      /\ Len(rest) = Len(old) - 1
  BY <1>3, Removed DEF tab
<1>. HIDE DEF rest
<1>6. k \in 1 .. (Len(rest) + 1)
  BY <1>2, <1>3, <1>5
<1>. HIDE DEF k
<1>7. s \in Seq(Tab) /\ Distinct(s) /\ Elems(s) = Elems(old)
  <2>1. tab \in Tab /\ tab \notin Elems(rest) /\ rest \in Seq(Tab) /\ Distinct(rest)
    BY <1>3, <1>5
  <2>2. s \in Seq(Tab)
    BY <1>6, <2>1, Inserted
  <2>3. Distinct(s)
    BY <1>6, <2>1, Inserted
  <2>4. Elems(s) = Elems(rest) \cup {tab}
    BY <1>6, <2>1, Inserted
  <2>. QED  BY <1>3, <1>5, <2>2, <2>3, <2>4
<1>. HIDE DEF s
<1>8. /\ r \in WindowRecord /\ r.tabs = s /\ r.active = win[w].active
      /\ r.transfer = win[w].transfer /\ r.removal = win[w].removal /\ r.dialog = win[w].dialog
  BY <1>1, <1>7 DEF WindowRecord
<1>. HIDE DEF r
<1>9. TabsOf(r) = TabsOf(win[w])
  BY <1>7, <1>8 DEF TabsOf, old
<1>10. Tidy(r)
  <2>1. r.tabs # <<>> => win[w].tabs # <<>>
    BY <1>1, <1>8, <1>9, RecordFields
  <2>. QED  BY <1>1, <1>7, <1>8, <1>9, <2>1 DEF Tidy
<1>11. Sound(r)
  BY <1>1, <1>8, <1>10 DEF Sound
<1>12. UNCHANGED windowVars /\ modified' \subseteq modified
  BY DEF ReorderTab
<1>. QED  BY <1>1, <1>4, <1>8, <1>9, <1>11, <1>12, SameDocs

LEMMA ActiveDocFacts ==
    ASSUME Inv, NEW w \in Window, Ready(w), ActiveDoc(w) # None
    PROVE  ActiveDoc(w) \in Doc /\ ActiveDoc(w) \in Kept(win[w])
<1>1. win[w] \in WindowRecord /\ win[w].removal = NoTab
  BY InvOfWindow DEF Ready, Rendered
<1>2. /\ Contains(win[w].tabs, win[w].active) /\ ~win[w].active.preview
      /\ ActiveDoc(w) = win[w].active.doc
  BY DEF ActiveDoc
<1>3. win[w].active \in TabsOf(win[w]) /\ win[w].active \in Tab
  BY <1>1, <1>2, RecordFields
<1>4. win[w].active = Editor(win[w].active.doc) /\ win[w].active.doc \in Doc
  <2>1. win[w].active.doc \in Doc
    BY <1>3, DocFacts
  <2>2. Preview(win[w].active.doc).preview
    BY <2>1, DocFacts
  <2>. QED  BY <1>2, <1>3, <2>1, <2>2, DocFacts
<1>. QED  BY <1>1, <1>2, <1>3, <1>4, DocFacts DEF Kept

LEMMA EditStep == ASSUME Inv, NEW w \in Window, Edit(w) PROVE Inv'
<1>1. /\ w \in open /\ win[w] \in WindowRecord /\ Sound(win[w])
      /\ modified \subseteq Doc
  BY InvOfWindow DEF Edit, Ready, Rendered, Inv, Types
<1>2. ActiveDoc(w) \in Doc /\ ActiveDoc(w) \in Kept(win[w])
  BY ActiveDocFacts DEF Edit
<1>3. UNCHANGED screenVars /\ used' = used \cup {} /\ modified' \subseteq Doc /\ TextTypes'
  BY <1>1, <1>2 DEF Edit, TextTypes, Inv, Types
<1>4. Set(w, win[w])
  BY SameWindow DEF Set, Edit
<1>5. {} \in SUBSET Doc /\ {} \cap used = {}
  OBVIOUS
<1>6. \A d \in Doc : Editor(d) \in TabsOf(win[w]) => d \in {} \/ Editor(d) \in TabsOf(win[w])
  OBVIOUS
<1>7. \A d \in Unsaved' :
         \/ d \in Kept(win[w])
         \/ d \in Unsaved /\ (d \in Kept(win[w]) => d \in Kept(win[w]))
  BY <1>2 DEF Edit, Unsaved
<1>. QED  BY <1>1, <1>3, <1>4, <1>5, <1>6, <1>7, OneWindow

\* Nothing but the set of modified documents, which shrinks.
LEMMA FewerModified ==
    ASSUME Inv, NEW w \in open, UNCHANGED <<win, windowVars>>, modified' \subseteq modified
    PROVE  Inv'
<1>1. w \in Window /\ win[w] \in WindowRecord /\ Sound(win[w])
  BY InvOfWindow DEF Inv, Types
<1>2. Set(w, win[w]) /\ UNCHANGED windowVars
  BY <1>1, SameWindow DEF Set
<1>3. win[w].dialog.kind \in {"large quit", "large window"} => win[w].dialog.tab.doc \in Large
  BY <1>1 DEF Sound
<1>. QED  BY <1>1, <1>2, <1>3, SameTabs

LEMMA SaveFileStep == ASSUME Inv, NEW w \in Window, SaveFile(w) PROVE Inv'
<1>1. w \in open /\ win[w] \in WindowRecord /\ Sound(win[w])
  BY InvOfWindow DEF SaveFile, Ready, Rendered
<1>2. /\ UNCHANGED screenVars /\ used' = used \cup {} /\ modified' \subseteq Doc
      /\ TextTypes' /\ Unsaved' \subseteq Unsaved
  BY DEF SaveFile, TextTypes, Unsaved, Inv, Types
<1>3. Set(w, win[w])
  BY SameWindow DEF Set, SaveFile
<1>4. {} \in SUBSET Doc /\ {} \cap used = {}
  OBVIOUS
<1>5. \A d \in Doc : Editor(d) \in TabsOf(win[w]) => d \in {} \/ Editor(d) \in TabsOf(win[w])
  OBVIOUS
<1>6. \A d \in Unsaved' :
         \/ d \in Kept(win[w])
         \/ d \in Unsaved /\ (d \in Kept(win[w]) => d \in Kept(win[w]))
  BY <1>2
<1>. QED  BY <1>1, <1>2, <1>3, <1>4, <1>5, <1>6, OneWindow

-----------------------------------------------------------------------------
(* Closing tabs. *)

LEMMA AskingFacts ==
    ASSUME NEW tab \in Tab, NEW keep \in Tab \cup {NoTab},
           NEW kind \in {"close", "all", "left", "right", "others", "large quit", "large window"},
           kind \in {"large quit", "large window"} => keep = NoTab
    PROVE  /\ Asking(kind, tab, keep) \in Dialog
           /\ Asking(kind, tab, keep).kind = kind /\ Asking(kind, tab, keep).tab = tab
BY DEF Asking, Dialog

\* A record with another dialog, other answers and another count of failures.
LEMMA WithDialog ==
    ASSUME NEW rec \in WindowRecord, NEW dialog \in Dialog, NEW answered \in SUBSET Large,
           NEW failed \in BOOLEAN
    PROVE  LET r == [rec EXCEPT !.dialog = dialog, !.answered = answered, !.failed = failed]
           IN  /\ r \in WindowRecord /\ r.tabs = rec.tabs /\ r.active = rec.active
               /\ r.transfer = rec.transfer /\ r.removal = rec.removal /\ r.dialog = dialog
               /\ r.answered = answered
BY DEF WindowRecord

\* What a bulk operation leaves of a window.
LEMMA SparedStep ==
    ASSUME Inv, NEW w \in open, NEW r, Spared(win[w], r), Set(w, r), UNCHANGED windowVars,
           modified' = modified
    PROVE  Inv'
<1>1. w \in Window /\ win[w] \in WindowRecord /\ Sound(win[w]) /\ modified \subseteq Doc
  BY InvOfWindow DEF Inv, Types
<1>2. /\ r \in WindowRecord /\ Sound(r)
      /\ r.transfer = win[w].transfer /\ r.removal = win[w].removal
  BY <1>1 DEF Spared, Sound, Alike
<1>3. \A d \in Doc : Editor(d) \in TabsOf(r) => Editor(d) \in TabsOf(win[w])
  BY DEF Spared
<1>4. \A d \in modified : IsModified(Editor(d))
  BY DEF IsModified, Editor
<1>5. \A d \in modified' \cap Small : Editor(d) \in TabsOf(win[w]) => Editor(d) \in TabsOf(r)
  BY <1>4 DEF Spared
<1>. QED  BY <1>1, <1>2, <1>3, <1>5, SameDocs

LEMMA CloseTabStep == ASSUME Inv, NEW w \in Window, CloseTab(w) PROVE Inv'
<1>1. /\ w \in open /\ win[w] \in WindowRecord /\ Tidy(win[w]) /\ Sound(win[w])
      /\ modified \subseteq Doc
  BY InvOfWindow DEF CloseTab, Ready, Rendered, Inv, Types
<1>2. UNCHANGED windowVars /\ modified' = modified
  BY DEF CloseTab
<1>3. PICK tab \in TabsOf(win[w]) :
         IF IsModified(tab)
         THEN Set(w, [win[w] EXCEPT !.dialog = Asking("close", tab, NoTab)])
         ELSE Set(w, RemoveTab(win[w], tab))
  BY <1>1, RecordFields DEF CloseTab
<1>4. tab \in Tab
  BY <1>1, RecordFields
<1>5. CASE IsModified(tab)
  <2>. DEFINE ask == Asking("close", tab, NoTab)
              r == [win[w] EXCEPT !.dialog = ask]
  <2>1. ask \in Dialog /\ ask.kind = "close"
    BY <1>4 DEF Asking, Dialog
  <2>2. Set(w, r)
    BY <1>3, <1>5
  <2>. HIDE DEF ask
  <2>3. /\ r \in WindowRecord /\ r.tabs = win[w].tabs /\ r.active = win[w].active
        /\ r.transfer = win[w].transfer /\ r.removal = win[w].removal /\ r.dialog = ask
    BY <1>1, <2>1 DEF WindowRecord
  <2>. HIDE DEF r
  <2>. QED  BY <1>1, <1>2, <2>1, <2>2, <2>3, SameTabs
<1>6. CASE ~IsModified(tab)
  <2>. DEFINE r == RemoveTab(win[w], tab)
  <2>1. Set(w, r) /\ Reduced(win[w], r, Taken(tab))
    BY <1>1, <1>3, <1>4, <1>6, RemoveTabReduces
  <2>. HIDE DEF r
  <2>2. Spared(win[w], r)
    <3>1. \A t \in TabsOf(win[w]) : IsModified(t) => t # tab /\ ~t.preview
      BY <1>6 DEF IsModified
    <3>2. Preview(tab.doc).preview
      BY <1>4, DocFacts
    <3>3. \A t \in TabsOf(win[w]) : IsModified(t) => t \notin Taken(tab)
      BY <3>1, <3>2 DEF Taken
    <3>. QED  BY <2>1, <3>3 DEF Reduced, Spared
  <2>. QED  BY <1>1, <1>2, <2>1, <2>2, SparedStep
<1>. QED  BY <1>5, <1>6

LEMMA CloseManyStep == ASSUME Inv, NEW w \in Window, CloseMany(w) PROVE Inv'
<1>1. /\ w \in open /\ win[w] \in WindowRecord /\ Tidy(win[w])
      /\ win[w].dialog = NoDialog
  BY InvOfWindow DEF CloseMany, Ready, Rendered
<1>2. UNCHANGED windowVars /\ modified' = modified
  BY DEF CloseMany
<1>3. CASE Set(w, ClosedAll(win[w]))
  BY <1>1, <1>2, <1>3, SparesAll, SparedStep
<1>4. CASE Set(w, ClosedOthers(win[w]))
  BY <1>1, <1>2, <1>4, SparesOthers, SparedStep
<1>5. CASE \E tab \in ToSet(win[w].tabs) : \/ Set(w, ClosedLeft(win[w], tab))
                                           \/ Set(w, ClosedRight(win[w], tab))
  <2>1. PICK tab \in Tab : Set(w, ClosedLeft(win[w], tab)) \/ Set(w, ClosedRight(win[w], tab))
    BY <1>1, <1>5, RecordFields
  <2>. QED  BY <1>1, <1>2, <2>1, SparesLeft, SparesRight, SparedStep
<1>. QED  BY <1>3, <1>4, <1>5 DEF CloseMany

LEMMA ConfirmCloseStep == ASSUME Inv, NEW w \in Window, ConfirmClose(w) PROVE Inv'
<1>. DEFINE dialog == win[w].dialog
            rec == [win[w] EXCEPT !.dialog = NoDialog]
            less == RemoveTab(rec, dialog.tab)
            r == Continued(less, dialog)
<1>1. /\ w \in open /\ win[w] \in WindowRecord /\ Tidy(win[w]) /\ Sound(win[w])
      /\ modified \subseteq Doc
      /\ dialog.kind \in {"close", "all", "left", "right", "others"} /\ dialog \in Dialog
      /\ dialog.tab \in Tab
  BY InvOfWindow, RecordFields, DialogFields DEF ConfirmClose, Inv, Types
<1>2. /\ UNCHANGED windowVars /\ Set(w, r)
      /\ modified' = IF Contains(rec.tabs, dialog.tab)
                     THEN modified \ {dialog.tab.doc} ELSE modified
  BY DEF ConfirmClose
<1>. HIDE DEF dialog
<1>3. /\ rec \in WindowRecord /\ rec.tabs = win[w].tabs /\ rec.active = win[w].active
      /\ rec.transfer = win[w].transfer /\ rec.removal = win[w].removal /\ rec.dialog = NoDialog
  BY <1>1, DialogFields DEF WindowRecord
<1>. HIDE DEF rec
<1>4. Tidy(rec) /\ TabsOf(rec) = TabsOf(win[w])
  BY <1>1, <1>3 DEF Tidy, TabsOf
<1>5. Reduced(rec, less, Taken(dialog.tab))
  BY <1>1, <1>3, <1>4, RemoveTabReduces
<1>. HIDE DEF less
<1>6. less \in WindowRecord /\ Tidy(less) /\ less.dialog = NoDialog
  BY <1>3, <1>5 DEF Reduced
<1>7. Spared(less, r)
  BY <1>1, <1>6, SparesContinued
<1>. HIDE DEF r
<1>8. /\ r \in WindowRecord /\ Sound(r)
      /\ r.transfer = win[w].transfer /\ r.removal = win[w].removal
  <2>1. ~r.removal.preview /\ r.transfer = win[w].transfer /\ r.removal = win[w].removal
    BY <1>1, <1>3, <1>5, <1>7 DEF Reduced, Spared, Alike, Sound
  <2>2. r.dialog.kind \notin {"large quit", "large window"}
    BY <1>6, <1>7, DialogFields DEF Spared
  <2>. QED  BY <1>7, <2>1, <2>2 DEF Spared, Sound
<1>9. \A d \in Doc : Editor(d) \in TabsOf(r) => Editor(d) \in TabsOf(win[w])
  BY <1>4, <1>5, <1>7 DEF Spared, Reduced
<1>10. ASSUME NEW d \in modified' \cap Small, Editor(d) \in TabsOf(win[w])
       PROVE  Editor(d) \in TabsOf(r)
  <2>1. d \in modified /\ d \in Doc /\ Editor(d).doc = d
    BY <1>1, <1>2, DocFacts
  <2>2. Editor(d) # dialog.tab
    BY <1>2, <1>3, <1>4, <1>10, <2>1, RecordFields
  <2>3. Editor(d) \in TabsOf(less)
    BY <1>1, <1>3, <1>4, <1>5, <1>10, <2>1, <2>2, ReducedDocs
  <2>4. IsModified(Editor(d))
    BY <2>1, DocFacts DEF IsModified
  <2>. QED  BY <1>7, <2>3, <2>4 DEF Spared
<1>11. modified' \subseteq modified
  BY <1>2
<1>. QED  BY <1>1, <1>2, <1>8, <1>9, <1>10, <1>11, SameDocs

LEMMA CancelDialogStep == ASSUME Inv, NEW w \in Window, CancelDialog(w) PROVE Inv'
<1>1. w \in open /\ win[w] \in WindowRecord
  BY InvOfWindow DEF CancelDialog
<1>. DEFINE r == [win[w] EXCEPT !.dialog = NoDialog, !.answered = {}]
<1>2. UNCHANGED windowVars /\ modified' \subseteq modified /\ Set(w, r)
  BY DEF CancelDialog
<1>3. /\ r \in WindowRecord /\ r.tabs = win[w].tabs /\ r.active = win[w].active
      /\ r.transfer = win[w].transfer /\ r.removal = win[w].removal /\ r.dialog = NoDialog
  BY <1>1, DialogFields DEF WindowRecord
<1>. HIDE DEF r
<1>. QED  BY <1>1, <1>2, <1>3, SameTabs, DialogFields

-----------------------------------------------------------------------------
(* Sending a tab to another window. *)

\* Documents whose homes are among those they had, or that have just one.
LEMMA Rehoused ==
    ASSUME NEW op, NEW ws, NEW og, NEW us, NEW op2, NEW ws2, NEW og2, NEW us2,
           Tracked(op, ws, og, us), us \subseteq us2,
           \A d \in Doc :
              \/ /\ InTab(op2, ws2, d) \subseteq InTab(op, ws, d)
                 /\ InSlot(op2, ws2, d) \subseteq InSlot(op, ws, d)
                 /\ og2 = d => og = d
              \/ OneHome(op2, ws2, og2, d) /\ d \in us2
    PROVE  Tracked(op2, ws2, og2, us2)
<1>. SUFFICES ASSUME NEW d \in Doc
              PROVE  OneHome(op2, ws2, og2, d) /\ (HasHome(op2, ws2, og2, d) => d \in us2)
  BY DEF Tracked
<1>1. OneHome(op, ws, og, d) /\ (HasHome(op, ws, og, d) => d \in us)
  BY DEF Tracked
<1>2. CASE OneHome(op2, ws2, og2, d) /\ d \in us2
  BY <1>2
<1>3. CASE /\ InTab(op2, ws2, d) \subseteq InTab(op, ws, d)
           /\ InSlot(op2, ws2, d) \subseteq InSlot(op, ws, d)
           /\ og2 = d => og = d
  <2>1. OneHome(op2, ws2, og2, d)
    BY <1>1, <1>3 DEF OneHome
  <2>2. HasHome(op2, ws2, og2, d) => HasHome(op, ws, og, d)
    BY <1>3 DEF HasHome
  <2>. QED  BY <1>1, <2>1, <2>2
<1>. QED  BY <1>2, <1>3

\* A tab that its window is to let go of.
LEMMA Sent ==
    ASSUME Inv, NEW w \in Window, Rendered(w), NEW d \in DocsOf(w)
    PROVE  LET r == [win[w] EXCEPT !.removal = Editor(d)]
           IN  /\ r \in WindowRecord /\ Sound(r) /\ r.transfer = None
               /\ TabsOf(r) = TabsOf(win[w])
               /\ Kept(r) = Kept(win[w]) \ {d} /\ d \in Kept(win[w]) /\ d \in Doc /\ d \in used
               /\ InTab(open, win, d) = {w} /\ InSlot(open, win, d) = {} /\ opening # d
<1>. DEFINE r == [win[w] EXCEPT !.removal = Editor(d)]
<1>1. /\ win[w] \in WindowRecord /\ Sound(win[w]) /\ Tidy(win[w]) /\ w \in open
      /\ win[w].removal = NoTab /\ win[w].transfer = None
  BY InvOfWindow DEF Rendered
<1>2. d \in Doc /\ Editor(d) \in TabsOf(win[w]) /\ Editor(d) \in Tab
  BY <1>1, DocsAreEditors, DocFacts DEF DocsOf
<1>3. /\ r \in WindowRecord /\ r.tabs = win[w].tabs /\ r.active = win[w].active
      /\ r.transfer = None /\ r.removal = Editor(d) /\ r.dialog = win[w].dialog
  BY <1>1, <1>2 DEF WindowRecord
<1>. HIDE DEF r
<1>4. TabsOf(r) = TabsOf(win[w]) /\ Sound(r)
  <2>1. TabsOf(r) = TabsOf(win[w])
    BY <1>3 DEF TabsOf
  <2>2. Tidy(r)
    BY <1>1, <1>3, <2>1 DEF Tidy
  <2>3. ~Editor(d).preview
    BY <1>2, DocFacts
  <2>. QED  BY <1>1, <1>3, <2>1, <2>2, <2>3 DEF Sound
<1>5. Kept(r) = Kept(win[w]) \ {d} /\ d \in Kept(win[w])
  <2>1. \A e \in Doc : Editor(e) # NoTab /\ (Editor(e) = Editor(d) <=> e = d)
    BY <1>2, DocFacts
  <2>. QED  BY <1>1, <1>2, <1>3, <1>4, <2>1 DEF Kept
<1>6. w \in InTab(open, win, d)
  BY <1>1, <1>5 DEF InTab
<1>7. OneHome(open, win, opening, d) /\ HasHome(open, win, opening, d) /\ d \in used
  BY <1>2, <1>6 DEF Inv, Tracked, HasHome
<1>8. InTab(open, win, d) = {w} /\ InSlot(open, win, d) = {} /\ opening # d
  BY <1>6, <1>7 DEF OneHome
<1>. QED  BY <1>2, <1>3, <1>4, <1>5, <1>7, <1>8 DEF r

LEMMA SendToStep == ASSUME Inv, NEW w \in Window, SendTo(w) PROVE Inv'
<1>1. PICK d \in DocsOf(w), v \in (registered \cap open) \ {w} :
         /\ win' = [win EXCEPT ![v].transfer = d, ![w].removal = Editor(d)]
         /\ Lose({win[v].transfer})
  BY DEF SendTo
<1>. DEFINE rw == [win[w] EXCEPT !.removal = Editor(d)]
            rv == [win[v] EXCEPT !.transfer = d]
<1>2. /\ win \in [Window -> WindowRecord] /\ Types /\ lost \in BOOLEAN
      /\ Rendered(w) /\ w \in open /\ v \in open /\ v \in Window /\ v # w /\ open \subseteq Window
      /\ open' = open /\ registered' = registered /\ opening' = opening /\ saved' = saved
      /\ used' = used /\ blank' = blank /\ untitled' = untitled
  BY <1>1 DEF Inv, Types, SendTo, Ready, Rendered, textVars
<1>3. win' = [u \in Window |-> IF u = w THEN rw ELSE IF u = v THEN rv ELSE win[u]]
  BY <1>1, <1>2
<1>4. /\ rw \in WindowRecord /\ Sound(rw) /\ rw.transfer = None
      /\ TabsOf(rw) = TabsOf(win[w])
      /\ Kept(rw) = Kept(win[w]) \ {d} /\ d \in Kept(win[w]) /\ d \in Doc /\ d \in used
      /\ InTab(open, win, d) = {w} /\ InSlot(open, win, d) = {} /\ opening # d
  BY <1>2, Sent
<1>5. win[w].transfer = None /\ win[v] \in WindowRecord /\ Sound(win[v])
  BY <1>2, InvOfWindow DEF Rendered
<1>6. /\ rv \in WindowRecord /\ rv.tabs = win[v].tabs /\ rv.active = win[v].active
      /\ rv.transfer = d /\ rv.removal = win[v].removal /\ rv.dialog = win[v].dialog
  BY <1>4, <1>5 DEF WindowRecord
<1>. HIDE DEF rw, rv
<1>7. TabsOf(rv) = TabsOf(win[v]) /\ Sound(rv) /\ Kept(rv) = Kept(win[v])
  BY <1>5, <1>6 DEF TabsOf, Sound, Tidy, Kept
<1>8. /\ win' \in [Window -> WindowRecord] /\ win'[w] = rw /\ win'[v] = rv
      /\ \A u \in Window \ {w, v} : win'[u] = win[u]
  BY <1>2, <1>3, <1>4, <1>6
<1>9. \A u \in Window : Sound(win'[u]) /\ TabsOf(win'[u]) = TabsOf(win[u])
  BY <1>4, <1>7, <1>8 DEF Inv
<1>10. \A u \in open : TabsUsed(win'[u], used')
  BY <1>2, <1>9 DEF Inv, TabsUsed
<1>11. d # None /\ None \notin Doc
  BY <1>4, DocFacts
<1>12. /\ InTab(open, win', d) = {} /\ InSlot(open, win', d) = {v}
       /\ \A e \in Doc \ {d} : /\ InTab(open, win', e) = InTab(open, win, e)
                               /\ InSlot(open, win', e) = InSlot(open, win, e) \ {v}
  <2>1. InTab(open, win', d) = {}
    <3>1. \A u \in open : u # w => d \notin Kept(win[u])
      BY <1>4 DEF InTab
    <3>2. \A u \in open : d \notin Kept(win'[u])
      BY <1>2, <1>4, <1>7, <1>8, <3>1
    <3>. QED  BY <3>2 DEF InTab
  <2>2. InSlot(open, win', d) = {v}
    <3>1. \A u \in open : win[u].transfer # d
      BY <1>4 DEF InSlot
    <3>2. \A u \in open : win'[u].transfer = d <=> u = v
      BY <1>2, <1>4, <1>6, <1>8, <1>11, <3>1
    <3>. QED  BY <1>2, <3>2 DEF InSlot
  <2>3. ASSUME NEW e \in Doc \ {d}
        PROVE  /\ InTab(open, win', e) = InTab(open, win, e)
               /\ InSlot(open, win', e) = InSlot(open, win, e) \ {v}
    <3>1. \A u \in open : e \in Kept(win'[u]) <=> e \in Kept(win[u])
      BY <1>2, <1>4, <1>7, <1>8
    <3>2. \A u \in open : win'[u].transfer = e <=> u # v /\ win[u].transfer = e
      BY <1>2, <1>4, <1>5, <1>6, <1>8, <1>11
    <3>. QED  BY <3>1, <3>2 DEF InTab, InSlot
  <2>. QED  BY <2>1, <2>2, <2>3
<1>13. Tracked(open', win', opening', used')
  <2>1. OneHome(open, win', opening, d) /\ d \in used
    BY <1>4, <1>12 DEF OneHome
  <2>2. \A e \in Doc \ {d} :
           /\ InTab(open, win', e) \subseteq InTab(open, win, e)
           /\ InSlot(open, win', e) \subseteq InSlot(open, win, e)
    BY <1>12
  <2>3. Tracked(open, win, opening, used)
    BY DEF Inv
  <2>. QED  BY <1>2, <2>1, <2>2, <2>3, Rehoused
<1>14. modified' = modified \ {win[v].transfer}
  BY <1>1 DEF Lose, LoseOrGive
<1>15. Safe(open', win', opening', Unsaved', saved')
  <2>. SUFFICES ASSUME NEW e \in Unsaved' PROVE HasHome(open, win', opening, e)
    BY <1>2 DEF Safe
  <2>1. e \in Unsaved /\ e \in Doc /\ e # win[v].transfer
    BY <1>2, <1>14 DEF Types, Unsaved
  <2>2. HasHome(open, win, opening, e)
    BY <1>2, <2>1 DEF Inv, Safe
  <2>3. CASE e = d
    BY <1>12, <2>3 DEF HasHome
  <2>4. CASE e # d
    <3>1. v \notin InSlot(open, win, e)
      BY <2>1 DEF InSlot
    <3>. QED  BY <1>12, <2>1, <2>2, <2>4, <3>1 DEF HasHome
  <2>. QED  BY <2>3, <2>4
<1>16. Types'
  BY <1>2, <1>14 DEF Types, TextTypes
<1>17. lost' \in BOOLEAN
  BY <1>1, Zenon DEF Lose, LoseOrGive
<1>. QED  BY <1>2, <1>8, <1>9, <1>10, <1>13, <1>15, <1>16, <1>17 DEF Inv

LEMMA SendToNewWindowStep == ASSUME Inv, NEW w \in Window, SendToNewWindow(w) PROVE Inv'
<1>1. PICK d \in DocsOf(w) : Set(w, [win[w] EXCEPT !.removal = Editor(d)]) /\ opening' = d
  BY DEF SendToNewWindow
<1>. DEFINE rw == [win[w] EXCEPT !.removal = Editor(d)]
<1>2. /\ win \in [Window -> WindowRecord] /\ Types
      /\ Rendered(w) /\ w \in open /\ open \subseteq Window /\ opening = None
      /\ open' = open /\ registered' = registered /\ modified' = modified /\ saved' = saved
      /\ lost' = lost /\ used' = used /\ blank' = blank /\ untitled' = untitled
  BY DEF Inv, Types, SendToNewWindow, Ready, Rendered, historyVars, textVars
<1>3. /\ rw \in WindowRecord /\ Sound(rw) /\ rw.transfer = None
      /\ TabsOf(rw) = TabsOf(win[w])
      /\ Kept(rw) = Kept(win[w]) \ {d} /\ d \in Kept(win[w]) /\ d \in Doc /\ d \in used
      /\ InTab(open, win, d) = {w} /\ InSlot(open, win, d) = {} /\ opening # d
  BY <1>2, Sent
<1>4. win[w].transfer = None
  BY <1>2 DEF Rendered
<1>5. Set(w, rw)
  BY <1>1
<1>. HIDE DEF rw
<1>6. /\ win' \in [Window -> WindowRecord] /\ win'[w] = rw
      /\ \A u \in Window \ {w} : win'[u] = win[u]
  BY <1>2, <1>3, <1>5 DEF Set
<1>7. \A u \in Window : Sound(win'[u]) /\ TabsOf(win'[u]) = TabsOf(win[u])
  BY <1>3, <1>6 DEF Inv
<1>8. \A u \in open : TabsUsed(win'[u], used')
  BY <1>2, <1>7 DEF Inv, TabsUsed
<1>9. /\ InTab(open, win', d) = {} /\ InSlot(open, win', d) = {}
      /\ \A e \in Doc \ {d} : /\ InTab(open, win', e) = InTab(open, win, e)
                              /\ InSlot(open, win', e) = InSlot(open, win, e)
  <2>1. \A u \in open : d \notin Kept(win'[u]) /\ win'[u].transfer # d
    <3>1. \A u \in open : (u # w => d \notin Kept(win[u])) /\ win[u].transfer # d
      BY <1>3 DEF InTab, InSlot
    <3>. QED  BY <1>2, <1>3, <1>4, <1>6, <3>1
  <2>2. \A e \in Doc \ {d}, u \in open :
           (e \in Kept(win'[u]) <=> e \in Kept(win[u])) /\ win'[u].transfer = win[u].transfer
    BY <1>2, <1>3, <1>4, <1>6
  <2>. QED  BY <2>1, <2>2 DEF InTab, InSlot
<1>10. Tracked(open', win', opening', used')
  <2>1. OneHome(open, win', d, d) /\ d \in used
    BY <1>3, <1>9 DEF OneHome
  <2>2. \A e \in Doc \ {d} :
           /\ InTab(open, win', e) \subseteq InTab(open, win, e)
           /\ InSlot(open, win', e) \subseteq InSlot(open, win, e)
           /\ d = e => opening = e
    BY <1>9
  <2>3. Tracked(open, win, opening, used)
    BY DEF Inv
  <2>4. \A e \in Doc :
           \/ /\ InTab(open, win', e) \subseteq InTab(open, win, e)
              /\ InSlot(open, win', e) \subseteq InSlot(open, win, e)
              /\ d = e => opening = e
           \/ OneHome(open, win', d, e) /\ e \in used
    BY <2>1, <2>2
  <2>5. Tracked(open, win', d, used)
    BY <2>3, <2>4, Rehoused
  <2>. QED  BY <1>1, <1>2, <2>5
<1>11. Safe(open', win', opening', Unsaved', saved')
  <2>. SUFFICES ASSUME NEW e \in Unsaved PROVE HasHome(open, win', d, e)
    BY <1>1, <1>2, FewerUnsaved DEF Safe
  <2>1. HasHome(open, win, opening, e) /\ e \in Doc /\ None \notin Doc
    BY <1>2, DocFacts, FewerUnsaved DEF Inv, Types, Safe
  <2>. QED  BY <1>2, <1>9, <2>1 DEF HasHome
<1>12. Types'
  BY <1>1, <1>2, <1>3 DEF Types, TextTypes
<1>13. lost' \in BOOLEAN
  BY <1>2, Zenon DEF Inv
<1>. QED  BY <1>2, <1>6, <1>7, <1>8, <1>10, <1>11, <1>12, <1>13 DEF Inv

\* A window that comes with one document, which was on its way or is fresh.
LEMMA Newcomer ==
    ASSUME Inv, NEW v \in Free, NEW r \in WindowRecord, Sound(r), NEW d \in Doc,
           Register(v, r), TabsUsed(r, used'),
           modified' = modified, saved' = saved, lost' = lost, open # {},
           TextTypes', blank \subseteq blank',
           \/ Kept(r) = {d} /\ r.transfer = None
           \/ Kept(r) = {} /\ r.transfer = d,
           \/ opening = d /\ opening' = None /\ used' = used
           \/ d \notin used /\ opening' = opening /\ used' = used \cup {d}
    PROVE  Inv'
<1>1. /\ win \in [Window -> WindowRecord] /\ Types /\ v \in Window /\ v \notin open
      /\ open \subseteq Window /\ open' = open \cup {v} /\ registered' = registered \cup {v}
      /\ Set(v, r)
  BY DEF Inv, Types, Free, Register
<1>2. /\ win' \in [Window -> WindowRecord] /\ win'[v] = r
      /\ \A u \in Window \ {v} : win'[u] = win[u]
  BY <1>1 DEF Set
<1>3. \A u \in Window : Sound(win'[u])
  BY <1>2 DEF Inv
<1>4. used \subseteq used' /\ used' \subseteq Doc
  BY <1>1 DEF Types
<1>5. \A u \in open' : TabsUsed(win'[u], used')
  BY <1>1, <1>2, <1>4 DEF Inv, TabsUsed
<1>6. OneHome(open, win, opening, d) /\ (HasHome(open, win, opening, d) => d \in used)
  BY DEF Inv, Tracked
<1>7. InTab(open, win, d) = {} /\ InSlot(open, win, d) = {} /\ opening' # d /\ d \in used'
      /\ None \notin Doc
  BY <1>6, DocFacts DEF OneHome, HasHome
<1>8. /\ InTab(open', win', d) \subseteq {v} /\ InSlot(open', win', d) \subseteq {v}
      /\ InTab(open', win', d) \cup InSlot(open', win', d) = {v}
      /\ InTab(open', win', d) = {} \/ InSlot(open', win', d) = {}
  <2>1. \A u \in open : d \notin Kept(win'[u]) /\ win'[u].transfer # d
    BY <1>1, <1>2, <1>7 DEF InTab, InSlot
  <2>2. v \in InTab(open', win', d) <=> d \in Kept(r)
    BY <1>1, <1>2 DEF InTab
  <2>3. v \in InSlot(open', win', d) <=> r.transfer = d
    BY <1>1, <1>2 DEF InSlot
  <2>4. InTab(open', win', d) \subseteq {v} /\ InSlot(open', win', d) \subseteq {v}
    BY <1>1, <2>1 DEF InTab, InSlot
  <2>. QED  BY <1>7, <2>2, <2>3, <2>4
<1>9. ASSUME NEW e \in Doc, e # d
      PROVE  /\ InTab(open', win', e) = InTab(open, win, e)
             /\ InSlot(open', win', e) = InSlot(open, win, e)
             /\ opening' = e <=> opening = e
  <2>1. e \notin Kept(r) /\ r.transfer # e
    BY <1>7, <1>9
  <2>2. \A u \in open' : u \in open \/ u = v
    BY <1>1
  <2>3. InTab(open', win', e) = InTab(open, win, e)
    BY <1>1, <1>2, <2>1, <2>2 DEF InTab
  <2>4. InSlot(open', win', e) = InSlot(open, win, e)
    BY <1>1, <1>2, <2>1, <2>2 DEF InSlot
  <2>. QED  BY <1>7, <1>9, <2>3, <2>4
<1>10. Tracked(open', win', opening', used')
  <2>1. OneHome(open', win', opening', d) /\ d \in used'
    BY <1>7, <1>8 DEF OneHome
  <2>2. \A e \in Doc :
           \/ /\ InTab(open', win', e) \subseteq InTab(open, win, e)
              /\ InSlot(open', win', e) \subseteq InSlot(open, win, e)
              /\ opening' = e => opening = e
           \/ OneHome(open', win', opening', e) /\ e \in used'
    BY <1>9, <2>1
  <2>3. Tracked(open, win, opening, used)
    BY DEF Inv
  <2>. QED  BY <1>4, <2>2, <2>3, Rehoused
<1>11. Safe(open', win', opening', Unsaved', saved')
  <2>. SUFFICES ASSUME NEW e \in Unsaved' PROVE HasHome(open', win', opening', e)
    BY DEF Safe
  <2>1. HasHome(open, win, opening, e) /\ e \in Doc
    <3>1. e \in Unsaved /\ e \in modified
      BY DEF Unsaved
    <3>. QED  BY <1>1, <3>1 DEF Inv, Types, Safe
  <2>2. CASE e = d
    BY <1>8, <2>2 DEF HasHome
  <2>3. CASE e # d
    BY <1>9, <2>1, <2>3 DEF HasHome
  <2>. QED  BY <2>2, <2>3
<1>12. Types'
  BY <1>1, <1>4 DEF Types
<1>13. lost' \in BOOLEAN
  BY Zenon DEF Inv
<1>. QED  BY <1>2, <1>3, <1>5, <1>10, <1>11, <1>12, <1>13 DEF Inv

LEMMA WindowOpensStep == ASSUME Inv, WindowOpens PROVE Inv'
<1>1. PICK v \in Free : Register(v, [NoWindow EXCEPT !.transfer = opening])
  BY DEF WindowOpens
<1>. DEFINE r == [NoWindow EXCEPT !.transfer = opening]
<1>2. /\ open # {} /\ opening \in Doc /\ opening' = None
      /\ modified' = modified /\ saved' = saved /\ lost' = lost /\ used' = used
      /\ TextTypes' /\ blank \subseteq blank'
  BY DEF WindowOpens, historyVars, Inv, Types, TextTypes, textVars
<1>3. /\ r \in WindowRecord /\ r.tabs = <<>> /\ r.transfer = opening /\ r.removal = NoTab
      /\ r.dialog = NoDialog /\ r.tabs = NoWindow.tabs
  BY <1>2, EmptyWindow DEF WindowRecord
<1>4. Register(v, r)
  BY <1>1
<1>. HIDE DEF r
<1>5. TabsOf(r) = {} /\ Tidy(r)
  BY <1>3, EmptyWindow DEF TabsOf, Tidy
<1>6. Sound(r)
  BY <1>3, <1>5, DialogFields, DocFacts DEF Sound
<1>7. Kept(r) = {} /\ TabsUsed(r, used')
  BY <1>5 DEF Kept, TabsUsed
<1>. QED  BY <1>2, <1>3, <1>4, <1>6, <1>7, Newcomer

\* Fulgur::new with one untitled tab.
LEMMA FirstTabFacts ==
    ASSUME NEW d \in Doc
    PROVE  /\ FirstTab(d) \in WindowRecord /\ Sound(FirstTab(d))
           /\ TabsOf(FirstTab(d)) = {Editor(d)} /\ Kept(FirstTab(d)) = {d}
           /\ FirstTab(d).transfer = None /\ FirstTab(d).removal = NoTab
<1>. DEFINE r == FirstTab(d)
<1>1. /\ Editor(d) \in Tab /\ ~Editor(d).preview /\ Editor(d).doc = d
      /\ 1 \in 1 .. (Len(NoWindow.tabs) + 1)
      /\ NoWindow \in WindowRecord /\ Tidy(NoWindow) /\ Editor(d) \notin TabsOf(NoWindow)
  BY DocFacts, EmptyWindow
<1>2. /\ r \in WindowRecord /\ Tidy(r) /\ Alike(NoWindow, r) /\ r.dialog = NoWindow.dialog
      /\ TabsOf(r) = TabsOf(NoWindow) \cup {Editor(d)}
  BY <1>1, ShownFacts DEF FirstTab
<1>. HIDE DEF r
<1>3. r.transfer = None /\ r.removal = NoTab /\ r.dialog = NoDialog /\ TabsOf(r) = {Editor(d)}
  BY <1>2, EmptyWindow DEF Alike
<1>4. Sound(r)
  BY <1>2, <1>3, DialogFields, DocFacts DEF Sound
<1>5. Kept(r) = {d}
  <2>1. \A e \in Doc : Editor(e).doc = e /\ Editor(e) # NoTab
    BY DocFacts
  <2>. QED  BY <1>1, <1>3, <2>1 DEF Kept
<1>. QED  BY <1>2, <1>3, <1>4, <1>5 DEF r

LEMMA NewWindowStep == ASSUME Inv, NEW w \in Window, NewWindow(w) PROVE Inv'
<1>1. PICK v \in Free, d \in Fresh(Small) : Register(v, FirstTab(d)) /\ OpensBlank(d)
  BY DEF NewWindow
<1>2. /\ open # {} /\ opening' = opening /\ modified' = modified
      /\ saved' = saved /\ lost' = lost /\ used' = used \cup {d}
      /\ TextTypes' /\ blank \subseteq blank'
  <2>1. d \in Small /\ TextTypes
    BY DEF Fresh, Inv, Types
  <2>2. TextTypes' /\ blank \subseteq blank'
    BY <1>1, <2>1 DEF OpensBlank, TextTypes
  <2>. QED  BY <1>1, <2>2 DEF NewWindow, Ready, Rendered, Opens, OpensBlank
<1>3. d \in Doc /\ d \notin used /\ Editor(d).doc = d
  BY FreshFacts DEF Doc
<1>4. /\ FirstTab(d) \in WindowRecord /\ Sound(FirstTab(d))
      /\ TabsOf(FirstTab(d)) = {Editor(d)} /\ Kept(FirstTab(d)) = {d}
      /\ FirstTab(d).transfer = None
  BY <1>3, FirstTabFacts
<1>5. TabsUsed(FirstTab(d), used')
  BY <1>2, <1>3, <1>4 DEF TabsUsed
<1>. QED  BY <1>1, <1>2, <1>3, <1>4, <1>5, Newcomer

-----------------------------------------------------------------------------
(* Rendering. *)

LEMMA SettledFacts ==
    ASSUME NEW rec \in WindowRecord, Tidy(rec)
    PROVE  LET r == Settled(rec)
           IN  /\ r \in WindowRecord /\ Tidy(r) /\ Alike(rec, r) /\ r.dialog = rec.dialog
               /\ TabsOf(r) = TabsOf(rec)
<1>. DEFINE a == IF rec.tabs = <<>> THEN NoTab ELSE rec.active
            r == [rec EXCEPT !.active = a]
<1>1. Settled(rec) = r
  BY DEF Settled
<1>2. a \in Tab \cup {NoTab}
  BY RecordFields
<1>3. rec.tabs # <<>> => a = rec.active
  OBVIOUS
<1>. HIDE DEF a
<1>4. /\ r \in WindowRecord /\ r.tabs = rec.tabs /\ r.active = a /\ Alike(rec, r)
      /\ r.dialog = rec.dialog
  BY <1>2 DEF WindowRecord, Alike
<1>. HIDE DEF r
<1>5. TabsOf(r) = TabsOf(rec) /\ Tidy(r)
  BY <1>3, <1>4 DEF TabsOf, Tidy
<1>. QED  BY <1>1, <1>4, <1>5

\* The tabs that stay are those of the documents that have their home here.
LEMMA ReleasedFacts ==
    ASSUME NEW rec \in WindowRecord, Sound(rec)
    PROVE  LET r == Released(rec)
           IN  /\ r \in WindowRecord /\ Tidy(r) /\ r.removal = NoTab
               /\ r.transfer = rec.transfer /\ r.dialog = rec.dialog
               /\ TabsOf(r) \subseteq TabsOf(rec)
               /\ \A d \in Doc : Editor(d) \in TabsOf(r) <=> d \in Kept(rec)
<1>1. Tidy(rec) /\ ~rec.removal.preview /\ rec.removal \in Tab \cup {NoTab}
  BY RecordFields DEF Sound
<1>2. CASE rec.removal = NoTab
  <2>1. Released(rec) = rec
    BY <1>2 DEF Released
  <2>2. \A d \in Doc : Editor(d) # NoTab
    BY DocFacts
  <2>. QED  BY <1>1, <1>2, <2>1, <2>2 DEF Kept
<1>3. CASE rec.removal # NoTab
  <2>. DEFINE less == RemoveTab(rec, rec.removal)
              r == [less EXCEPT !.removal = NoTab]
  <2>1. Released(rec) = r
    BY <1>3 DEF Released
  <2>2. Reduced(rec, less, Taken(rec.removal))
    BY <1>1, RemoveTabReduces
  <2>. HIDE DEF less
  <2>3. less \in WindowRecord /\ Tidy(less)
    BY <2>2 DEF Reduced
  <2>4. /\ r \in WindowRecord /\ r.tabs = less.tabs /\ r.active = less.active
        /\ r.removal = NoTab /\ r.transfer = less.transfer /\ r.dialog = less.dialog
    BY <2>3 DEF WindowRecord
  <2>. HIDE DEF r
  <2>5. Tidy(r) /\ TabsOf(r) = TabsOf(rec) \ Taken(rec.removal)
        /\ r.transfer = rec.transfer /\ r.dialog = rec.dialog
    BY <2>2, <2>3, <2>4 DEF Tidy, TabsOf, Reduced, Alike
  <2>6. \A d \in Doc : Editor(d) \in Taken(rec.removal) <=> Editor(d) = rec.removal
    <3>1. rec.removal \in Tab /\ Preview(rec.removal.doc).preview
      BY <1>1, <1>3, DocFacts
    <3>2. \A d \in Doc : ~Editor(d).preview
      BY DocFacts
    <3>. QED  BY <1>1, <3>1, <3>2 DEF Taken
  <2>. QED  BY <2>1, <2>4, <2>5, <2>6 DEF Kept
<1>. QED  BY <1>2, <1>3

LEMMA ReceivedFacts ==
    ASSUME NEW rec \in WindowRecord, Tidy(rec),
           rec.transfer # None => Editor(rec.transfer) \notin TabsOf(rec)
    PROVE  LET r == Received(rec)
           IN  /\ r \in WindowRecord /\ Tidy(r) /\ r.removal = rec.removal
               /\ r.transfer = None /\ r.dialog = rec.dialog
               /\ TabsOf(r) = TabsOf(rec) \cup
                    (IF rec.transfer = None THEN {} ELSE {Editor(rec.transfer)})
<1>1. CASE rec.transfer = None
  BY <1>1 DEF Received
<1>2. CASE rec.transfer # None
  <2>. DEFINE tab == Editor(rec.transfer)
              more == Shown(rec, Len(rec.tabs) + 1, tab)
              r == [more EXCEPT !.transfer = None]
  <2>1. Received(rec) = r
    BY <1>2 DEF Received
  <2>2. rec.transfer \in Doc /\ tab \in Tab /\ ~tab.preview /\ tab \notin TabsOf(rec)
    BY <1>2, RecordFields, DocFacts
  <2>3. Len(rec.tabs) + 1 \in 1 .. (Len(rec.tabs) + 1)
    BY RecordFields
  <2>. HIDE DEF tab
  <2>4. /\ more \in WindowRecord /\ Tidy(more) /\ Alike(rec, more)
        /\ more.dialog = rec.dialog /\ TabsOf(more) = TabsOf(rec) \cup {tab}
    BY <2>2, <2>3, ShownFacts
  <2>. HIDE DEF more
  <2>5. /\ r \in WindowRecord /\ r.tabs = more.tabs /\ r.active = more.active
        /\ r.removal = more.removal /\ r.transfer = None /\ r.dialog = more.dialog
    BY <2>4 DEF WindowRecord
  <2>. HIDE DEF r
  <2>6. Tidy(r) /\ TabsOf(r) = TabsOf(rec) \cup {tab}
    BY <2>4, <2>5 DEF Tidy, TabsOf
  <2>. QED  BY <1>2, <2>1, <2>4, <2>5, <2>6 DEF Alike, tab
<1>. QED  BY <1>1, <1>2

LEMMA RenderedFacts ==
    ASSUME NEW rec \in WindowRecord, Sound(rec), rec.transfer \notin Kept(rec)
    PROVE  LET r == Received(Released(Settled(rec)))
           IN  /\ r \in WindowRecord /\ Sound(r) /\ r.removal = NoTab /\ r.transfer = None
               /\ \A d \in Doc : d \in Kept(r) <=> d \in Kept(rec) \/ d = rec.transfer
               /\ \A t \in TabsOf(r) :
                     t \in TabsOf(rec) \/ (rec.transfer # None /\ t = Editor(rec.transfer))
<1>. DEFINE s == Settled(rec)
            e == Released(s)
            r == Received(e)
<1>1. /\ s \in WindowRecord /\ Tidy(s) /\ Alike(rec, s) /\ s.dialog = rec.dialog
      /\ TabsOf(s) = TabsOf(rec)
  BY SettledFacts DEF Sound
<1>. HIDE DEF s
<1>2. Sound(s) /\ Kept(s) = Kept(rec)
  BY <1>1 DEF Sound, Alike, Kept
<1>3. /\ e \in WindowRecord /\ Tidy(e) /\ e.removal = NoTab
      /\ e.transfer = s.transfer /\ e.dialog = s.dialog
      /\ TabsOf(e) \subseteq TabsOf(s)
      /\ \A d \in Doc : Editor(d) \in TabsOf(e) <=> d \in Kept(s)
  BY <1>1, <1>2, ReleasedFacts
<1>. HIDE DEF e
<1>4. e.transfer = rec.transfer
  BY <1>1, <1>3 DEF Alike
<1>5. e.transfer # None => e.transfer \in Doc /\ Editor(e.transfer) \notin TabsOf(e)
  BY <1>2, <1>3, <1>4, RecordFields
<1>6. /\ r \in WindowRecord /\ Tidy(r) /\ r.removal = e.removal
      /\ r.transfer = None /\ r.dialog = e.dialog
      /\ TabsOf(r) = TabsOf(e) \cup (IF e.transfer = None THEN {} ELSE {Editor(e.transfer)})
  BY <1>3, <1>5, ReceivedFacts
<1>. HIDE DEF r
<1>7. r.removal = NoTab /\ Sound(r)
  BY <1>1, <1>3, <1>6, DocFacts DEF Sound
<1>8. ASSUME NEW d \in Doc PROVE d \in Kept(r) <=> d \in Kept(rec) \/ d = rec.transfer
  <2>1. Editor(d) # NoTab /\ d # None
    BY DocFacts
  <2>2. d \in Kept(r) <=> Editor(d) \in TabsOf(r)
    BY <1>7, <2>1 DEF Kept
  <2>3. e.transfer # None => (Editor(d) = Editor(e.transfer) <=> d = e.transfer)
    BY <1>5, DocFacts
  <2>. QED  BY <1>2, <1>3, <1>4, <1>6, <2>1, <2>2, <2>3
<1>9. ASSUME NEW t \in TabsOf(r)
      PROVE  t \in TabsOf(rec) \/ (rec.transfer # None /\ t = Editor(rec.transfer))
  BY <1>1, <1>3, <1>4, <1>6
<1>. QED  BY <1>6, <1>7, <1>8, <1>9 DEF r, e, s

LEMMA RenderStep == ASSUME Inv, NEW w \in Window, Render(w) PROVE Inv'
<1>. DEFINE rec == Received(Released(Settled(win[w])))
            gone == win[w].removal # NoTab /\ rec.tabs = <<>>
            c == win[w].transfer
<1>1. /\ win \in [Window -> WindowRecord] /\ Types /\ w \in open /\ open \subseteq Window
      /\ Set(w, IF gone THEN NoWindow ELSE rec)
      /\ open' = (IF gone THEN open \ {w} ELSE open)
      /\ registered' = registered /\ opening' = opening /\ modified' = modified
      /\ saved' = saved /\ lost' = lost /\ used' = used
      /\ blank' = blank /\ untitled' = untitled
  BY DEF Inv, Types, Render, historyVars, textVars
<1>2. win[w] \in WindowRecord /\ Sound(win[w]) /\ TabsUsed(win[w], used)
      /\ c \in Doc \cup {None} /\ None \notin Doc
  BY <1>1, InvOfWindow, RecordFields, DocFacts
<1>3. ASSUME c # None
      PROVE  /\ c \in Doc /\ c \in used /\ InTab(open, win, c) = {}
             /\ InSlot(open, win, c) = {w} /\ opening # c
  <2>1. c \in Doc /\ w \in InSlot(open, win, c)
    BY <1>1, <1>2, <1>3 DEF InSlot
  <2>2. OneHome(open, win, opening, c) /\ c \in used
    BY <2>1 DEF Inv, Tracked, HasHome
  <2>. QED  BY <2>1, <2>2 DEF OneHome
<1>4. c \notin Kept(win[w])
  <2>1. CASE c = None
    BY <1>2, <2>1 DEF Kept
  <2>2. CASE c # None
    BY <1>1, <1>3, <2>2 DEF InTab
  <2>. QED  BY <2>1, <2>2
<1>5. /\ rec \in WindowRecord /\ Sound(rec) /\ rec.removal = NoTab /\ rec.transfer = None
      /\ \A d \in Doc : d \in Kept(rec) <=> d \in Kept(win[w]) \/ d = c
      /\ \A t \in TabsOf(rec) : t \in TabsOf(win[w]) \/ (c # None /\ t = Editor(c))
  BY <1>2, <1>4, RenderedFacts
<1>. HIDE DEF rec
<1>6. gone => Kept(rec) = {}
  BY <1>5, RecordFields DEF Kept
<1>. DEFINE r == IF gone THEN NoWindow ELSE rec
<1>. HIDE DEF gone, c
<1>7. /\ win' \in [Window -> WindowRecord] /\ win'[w] = r
      /\ \A u \in Window \ {w} : win'[u] = win[u]
  BY <1>1, <1>5, EmptyWindow DEF Set
<1>8. \A u \in Window : Sound(win'[u])
  <2>1. Sound(NoWindow)
    BY EmptyWindow, DialogFields, DocFacts DEF Sound
  <2>. QED  BY <1>5, <1>7, <2>1 DEF Inv
<1>9. ASSUME NEW u \in open' PROVE TabsUsed(win'[u], used')
  <2>1. u \in open /\ u \in Window /\ TabsUsed(win[u], used)
    BY <1>1 DEF Inv
  <2>2. CASE u # w
    BY <1>1, <1>7, <2>1, <2>2 DEF TabsUsed
  <2>3. CASE u = w
    <3>1. win'[u] = rec
      BY <1>1, <1>7, <1>9, <2>3
    <3>2. c # None => Editor(c).doc \in used
      BY <1>3, DocFacts
    <3>. QED  BY <1>1, <1>2, <1>5, <3>1, <3>2 DEF TabsUsed
  <2>. QED  BY <2>2, <2>3
<1>10. ASSUME NEW d \in Doc, d # c
       PROVE  InTab(open', win', d) = InTab(open, win, d)
              /\ InSlot(open', win', d) = InSlot(open, win, d)
  <2>1. \A u \in open \ {w} : u \in Window /\ u \in open' /\ win'[u] = win[u]
    BY <1>1, <1>7
  <2>2. (w \in open' /\ d \in Kept(win'[w])) <=> d \in Kept(win[w])
    BY <1>1, <1>5, <1>6, <1>7, <1>10
  <2>3. win[w].transfer # d /\ (w \in open' => win'[w].transfer # d)
    BY <1>1, <1>2, <1>5, <1>7, <1>10 DEF c
  <2>4. open' \subseteq open
    BY <1>1
  <2>5. InTab(open', win', d) = InTab(open, win, d)
    BY <1>1, <2>1, <2>2, <2>4 DEF InTab
  <2>6. InSlot(open', win', d) = InSlot(open, win, d)
    BY <1>1, <2>1, <2>3, <2>4 DEF InSlot
  <2>. QED  BY <2>5, <2>6
<1>11. ASSUME c # None
       PROVE  InTab(open', win', c) = {w} /\ InSlot(open', win', c) = {}
  <2>1. c \in Kept(rec) /\ ~gone /\ open' = open /\ win'[w] = rec
    BY <1>1, <1>3, <1>5, <1>6, <1>7, <1>11
  <2>2. \A u \in open \ {w} :
           u \in Window /\ win'[u] = win[u] /\ c \notin Kept(win[u]) /\ win[u].transfer # c
    BY <1>1, <1>3, <1>7, <1>11 DEF InTab, InSlot
  <2>. QED  BY <1>1, <1>5, <1>11, <2>1, <2>2 DEF InTab, InSlot
<1>12. Tracked(open', win', opening', used')
  <2>1. c # None => OneHome(open', win', opening', c) /\ c \in used'
    BY <1>1, <1>3, <1>11 DEF OneHome
  <2>2. \A d \in Doc :
           \/ /\ InTab(open', win', d) \subseteq InTab(open, win, d)
              /\ InSlot(open', win', d) \subseteq InSlot(open, win, d)
              /\ opening' = d => opening = d
           \/ OneHome(open', win', opening', d) /\ d \in used'
    BY <1>1, <1>2, <1>10, <2>1
  <2>3. Tracked(open, win, opening, used) /\ used \subseteq used'
    BY <1>1 DEF Inv
  <2>. QED  BY <2>2, <2>3, Rehoused
<1>13. Safe(open', win', opening', Unsaved', saved')
  <2>. SUFFICES ASSUME NEW d \in Unsaved PROVE HasHome(open', win', opening', d)
    BY <1>1, FewerUnsaved DEF Safe
  <2>1. HasHome(open, win, opening, d) /\ d \in Doc
    BY <1>1, FewerUnsaved DEF Inv, Types, Safe
  <2>2. CASE d = c
    BY <1>2, <1>11, <2>1, <2>2 DEF HasHome
  <2>3. CASE d # c
    BY <1>1, <1>10, <2>1, <2>3 DEF HasHome
  <2>. QED  BY <2>2, <2>3
<1>14. Types'
  BY <1>1 DEF Types, TextTypes
<1>15. lost' \in BOOLEAN
  BY <1>1, Zenon DEF Inv
<1>. QED  BY <1>7, <1>8, <1>9, <1>12, <1>13, <1>14, <1>15 DEF Inv

-----------------------------------------------------------------------------
(* Closing windows and quitting. *)

LEMMA EndedStep ==
    ASSUME Inv, NEW kept \in SUBSET Small, NEW given, open # {}, Ended(kept, given),
           \A v \in open : Kept(win[v]) \cap Small \subseteq kept \cup given
    PROVE  Inv'
<1>1. /\ open' = {} /\ registered' = {} /\ opening' = None
      /\ win' = [w \in Window |-> NoWindow] /\ saved' = kept /\ used' = used
      /\ modified' = modified \ (((InSlots \cup {opening}) \ kept) \cup given)
      /\ blank' = blank /\ untitled' = untitled
  BY DEF Ended, LoseOrGive, textVars
<1>2. lost' \in BOOLEAN
  BY Zenon DEF Ended, LoseOrGive
<1>3. win' \in [Window -> WindowRecord] /\ \A w \in Window : Sound(win'[w])
  <2>1. Sound(NoWindow)
    BY EmptyWindow, DialogFields, DocFacts DEF Sound
  <2>. QED  BY <1>1, <2>1, EmptyWindow
<1>4. Types'
  BY <1>1 DEF Inv, Types, TextTypes
<1>5. Tracked(open', win', opening', used')
  BY <1>1, DocFacts DEF Tracked, OneHome, HasHome, InTab, InSlot
<1>6. Safe(open', win', opening', Unsaved', saved')
  <2>. SUFFICES ASSUME NEW d \in Unsaved' PROVE d \in kept
    BY <1>1 DEF Safe
  <2>1. /\ d \in Unsaved /\ d \in modified' /\ d \in Small
        /\ d \notin given /\ d \in Doc /\ None \notin Doc
    BY <1>1, DocFacts DEF Inv, Types, Unsaved
  <2>2. HasHome(open, win, opening, d)
    BY <2>1 DEF Inv, Safe
  <2>3. CASE InTab(open, win, d) # {}
    BY <2>1, <2>3 DEF InTab
  <2>4. CASE opening = d \/ InSlot(open, win, d) # {}
    <3>1. d \in InSlots \cup {opening}
      BY <2>1, <2>4 DEF InSlot, InSlots
    <3>. QED  BY <1>1, <2>1, <3>1
  <2>. QED  BY <2>2, <2>3, <2>4 DEF HasHome
<1>. QED  BY <1>1, <1>2, <1>3, <1>4, <1>5, <1>6 DEF Inv

\* The tabs that a window keeps are among its documents, and the save before the
\* end has those of every window that can be persisted.
LEMMA SavedTabs ==
    ASSUME Inv, NEW v \in open
    PROVE  /\ Kept(win[v]) \subseteq DocsOf(v)
           /\ Persisted \in SUBSET Small /\ Kept(win[v]) \cap Small \subseteq Persisted
<1>1. v \in Window /\ v \in registered \cap open /\ win[v] \in WindowRecord
  BY InvOfWindow DEF Inv, Types
<1>2. Kept(win[v]) \subseteq DocsOf(v)
  BY <1>1, DocsAreEditors DEF Kept, DocsOf
<1>. DEFINE U == UNION {DocsOf(u) : u \in registered \cap open}
<1>3. Persisted = U \cap Small
  BY DEF Persisted
<1>4. DocsOf(v) \subseteq U
  <2>1. DocsOf(v) \in {DocsOf(u) : u \in registered \cap open}
    BY <1>1
  <2>. QED  BY <2>1, Zenon
<1>. HIDE DEF U
<1>. QED  BY <1>2, <1>3, <1>4

LEMMA LeaveStep ==
    ASSUME Inv, NEW w \in open, NEW kept \in SUBSET Small, NEW given, Leave(w, kept, given),
           Kept(win[w]) \cap Small \subseteq kept \cup given
    PROVE  Inv'
<1>1. CASE open = {w}
  <2>1. Ended(kept, given)
    BY <1>1 DEF Leave
  <2>2. \A v \in open : Kept(win[v]) \cap Small \subseteq kept \cup given
    BY <1>1
  <2>. QED  BY <1>1, <2>1, <2>2, EndedStep
<1>2. CASE open # {w}
  <2>. DEFINE c == win[w].transfer
  <2>1. /\ open' = open \ {w} /\ registered' = registered \ {w}
        /\ win' = [win EXCEPT ![w] = NoWindow]
        /\ modified' = modified \ ({c} \cup DocsOf(w))
        /\ opening' = opening /\ saved' = saved /\ used' = used
        /\ blank' = blank /\ untitled' = untitled
    BY <1>2 DEF Leave, LoseOrGive, textVars
  <2>2. lost' \in BOOLEAN
    BY <1>2, Zenon DEF Leave, LoseOrGive
  <2>3. win \in [Window -> WindowRecord] /\ Types /\ w \in Window /\ open \subseteq Window
    BY DEF Inv, Types
  <2>4. /\ win' \in [Window -> WindowRecord] /\ win'[w] = NoWindow
        /\ \A u \in Window \ {w} : win'[u] = win[u]
    BY <2>1, <2>3, EmptyWindow
  <2>5. \A u \in Window : Sound(win'[u])
    <3>1. Sound(NoWindow)
      BY EmptyWindow, DialogFields, DocFacts DEF Sound
    <3>. QED  BY <2>4, <3>1 DEF Inv
  <2>6. \A u \in open' : TabsUsed(win'[u], used')
    BY <2>1, <2>3, <2>4 DEF Inv
  <2>7. ASSUME NEW d \in Doc
        PROVE  /\ InTab(open', win', d) = InTab(open, win, d) \ {w}
               /\ InSlot(open', win', d) = InSlot(open, win, d) \ {w}
    <3>1. \A u \in open : u \in open' <=> u # w
      BY <2>1
    <3>2. \A u \in open' : u \in open /\ win'[u] = win[u]
      BY <2>1, <2>3, <2>4
    <3>. QED  BY <3>1, <3>2 DEF InTab, InSlot
  <2>8. Tracked(open', win', opening', used')
    <3>1. \A d \in Doc :
             /\ InTab(open', win', d) \subseteq InTab(open, win, d)
             /\ InSlot(open', win', d) \subseteq InSlot(open, win, d)
             /\ opening' = d => opening = d
      BY <2>1, <2>7
    <3>2. Tracked(open, win, opening, used) /\ used \subseteq used'
      BY <2>1 DEF Inv
    <3>. QED  BY <3>1, <3>2, Rehoused
  <2>9. Safe(open', win', opening', Unsaved', saved')
    <3>. SUFFICES ASSUME NEW d \in Unsaved' PROVE HasHome(open', win', opening', d)
      BY DEF Safe
    <3>1. d \in Unsaved /\ d \in Doc /\ d # c /\ d \notin DocsOf(w)
      BY <2>1, <2>3 DEF Types, Unsaved
    <3>2. HasHome(open, win, opening, d)
      BY <3>1 DEF Inv, Safe
    <3>3. w \notin InTab(open, win, d) /\ w \notin InSlot(open, win, d)
      BY <3>1, SavedTabs DEF InTab, InSlot
    <3>. QED  BY <2>1, <2>7, <3>1, <3>2, <3>3 DEF HasHome
  <2>10. Types'
    BY <2>1, <2>3 DEF Types, TextTypes
  <2>. QED  BY <2>2, <2>4, <2>5, <2>6, <2>8, <2>9, <2>10 DEF Inv
<1>. QED  BY <1>1, <1>2

\* A record as the window has it but for its questions and their answers.
Answering(w, rec) ==
    /\ rec \in WindowRecord /\ rec.dialog = NoDialog
    /\ rec.tabs = win[w].tabs /\ rec.active = win[w].active
    /\ rec.transfer = win[w].transfer /\ rec.removal = win[w].removal

\* A window that stays, with another dialog or other answers.
LEMMA StayStep ==
    ASSUME Inv, NEW w \in open, NEW r, r \in WindowRecord,
           r.tabs = win[w].tabs, r.active = win[w].active \/ r.active \in TabsOf(win[w]),
           r.dialog.kind \in {"large quit", "large window"} => r.dialog.tab.doc \in Large,
           r.transfer = win[w].transfer, r.removal = win[w].removal,
           Stay(w, r), modified' = modified
    PROVE  Inv'
BY SameTabs DEF Stay

LEMMA ForgetStep ==
    ASSUME Inv, NEW w \in open, NEW rec, Answering(w, rec),
           Stay(w, [rec EXCEPT !.answered = {}]), modified' = modified
    PROVE  Inv'
<1>. DEFINE r == [rec EXCEPT !.answered = {}]
<1>1. /\ r \in WindowRecord /\ r.tabs = win[w].tabs /\ r.active = win[w].active
      /\ r.transfer = win[w].transfer /\ r.removal = win[w].removal /\ r.dialog = NoDialog
  BY DEF Answering, WindowRecord
<1>2. Stay(w, r)
  OBVIOUS
<1>. HIDE DEF r
<1>. QED  BY <1>1, <1>2, StayStep, DialogFields

LEMMA QuitNowStep ==
    ASSUME Inv, NEW w \in open, NEW rec, Answering(w, rec), QuitNow(w, rec)
    PROVE  Inv'
<1>1. CASE /\ Stay(w, [rec EXCEPT !.dialog = [NoDialog EXCEPT !.kind = "quit"]])
           /\ UNCHANGED modified
  <2>. DEFINE ask == [NoDialog EXCEPT !.kind = "quit"]
              r == [rec EXCEPT !.dialog = ask]
  <2>1. ask \in Dialog /\ ask.kind = "quit"
    BY DEF Dialog, NoDialog
  <2>2. Stay(w, r)
    BY <1>1
  <2>. HIDE DEF ask
  <2>3. /\ r \in WindowRecord /\ r.tabs = win[w].tabs /\ r.active = win[w].active
        /\ r.transfer = win[w].transfer /\ r.removal = win[w].removal /\ r.dialog = ask
    BY <2>1 DEF Answering, WindowRecord
  <2>. HIDE DEF r
  <2>. QED  BY <1>1, <2>1, <2>2, <2>3, StayStep
<1>2. CASE Ended(Persisted, rec.answered)
  BY <1>2, SavedTabs, EndedStep
<1>3. CASE Stay(w, [rec EXCEPT !.answered = {}]) /\ UNCHANGED modified
  BY <1>3, ForgetStep
<1>. QED  BY <1>1, <1>2, <1>3 DEF QuitNow

LEMMA LargePositions ==
    ASSUME NEW rec \in WindowRecord
    PROVE  LargeModified(rec) \in SUBSET Nat
<1>1. DOMAIN rec.tabs = 1 .. Len(rec.tabs) /\ Len(rec.tabs) \in Nat
  BY RecordFields
<1>2. \A i \in LargeModified(rec) : i \in 1 .. Len(rec.tabs)
  BY <1>1 DEF LargeModified
<1>3. \A i \in LargeModified(rec) : i \in Nat
  BY <1>1, <1>2
<1>. QED  BY <1>3

LEMMA WarnStep ==
    ASSUME Inv, NEW w \in open, NEW rec, Answering(w, rec), LargeModified(rec) # {},
           NEW kind \in {"large quit", "large window"}, Warn(w, rec, kind)
    PROVE  Inv'
<1>. DEFINE i == First(LargeModified(rec))
            tab == rec.tabs[i]
            ask == Asking(kind, tab, NoTab)
            r == [rec EXCEPT !.active = tab, !.dialog = ask]
<1>1. rec \in WindowRecord
  BY DEF Answering
<1>2. DOMAIN rec.tabs = 1 .. Len(rec.tabs) /\ Len(rec.tabs) \in Nat
  BY <1>1, RecordFields
<1>3. LargeModified(rec) \in SUBSET Nat
  BY <1>1, LargePositions
<1>4. i \in LargeModified(rec)
  BY <1>3, FirstIsLeast
<1>5. i \in 1 .. Len(rec.tabs) /\ tab.doc \in Large
  BY <1>2, <1>4 DEF LargeModified
<1>6. tab \in TabsOf(rec) /\ tab \in Tab
  BY <1>1, <1>5, RecordFields DEF TabsOf, Elems
<1>7. Stay(w, r) /\ modified' = modified
  BY DEF Warn, Warned
<1>. HIDE DEF i, tab
<1>8. ask \in Dialog /\ ask.kind = kind /\ ask.tab = tab
  BY <1>6 DEF Asking, Dialog
<1>. HIDE DEF ask
<1>9. /\ r \in WindowRecord /\ r.tabs = win[w].tabs /\ r.active = tab
      /\ r.transfer = win[w].transfer /\ r.removal = win[w].removal /\ r.dialog = ask
  BY <1>6, <1>8 DEF Answering, WindowRecord
<1>. HIDE DEF r
<1>10. tab \in TabsOf(win[w])
  BY <1>6 DEF Answering, TabsOf
<1>. QED  BY <1>5, <1>7, <1>8, <1>9, <1>10, StayStep

\* A window that is ready has no question to answer.
LEMMA ReadyAnswering ==
    ASSUME Inv, NEW w \in Window, Ready(w)
    PROVE  w \in open /\ Answering(w, win[w])
BY InvOfWindow DEF Ready, Rendered, Answering

LEMMA QuitStep == ASSUME Inv, NEW w \in Window, Quit(w) PROVE Inv'
<1>1. w \in open /\ Answering(w, win[w])
  BY ReadyAnswering DEF Quit
<1>2. CASE LargeModified(win[w]) # {}
  BY <1>1, <1>2, WarnStep DEF Quit
<1>3. CASE LargeModified(win[w]) = {}
  BY <1>1, <1>3, QuitNowStep DEF Quit
<1>. QED  BY <1>2, <1>3

LEMMA ConfirmQuitStep == ASSUME Inv, NEW w \in Window, ConfirmQuit(w) PROVE Inv'
<1>1. w \in open /\ win[w] \in WindowRecord
  BY InvOfWindow DEF ConfirmQuit
<1>2. CASE Ended(Persisted, win[w].answered)
  BY <1>1, <1>2, SavedTabs, EndedStep
<1>3. CASE /\ Stay(w, [win[w] EXCEPT !.dialog = NoDialog, !.answered = {}])
           /\ UNCHANGED modified
  <2>. DEFINE r == [win[w] EXCEPT !.dialog = NoDialog, !.answered = {}]
  <2>1. /\ r \in WindowRecord /\ r.tabs = win[w].tabs /\ r.active = win[w].active
        /\ r.transfer = win[w].transfer /\ r.removal = win[w].removal /\ r.dialog = NoDialog
    BY <1>1, DialogFields DEF WindowRecord
  <2>2. Stay(w, r)
    BY <1>3
  <2>. HIDE DEF r
  <2>. QED  BY <1>1, <1>3, <2>1, <2>2, StayStep, DialogFields
<1>. QED  BY <1>2, <1>3 DEF ConfirmQuit

LEMMA SaveAndLeaveStep ==
    ASSUME Inv, NEW w \in open, Answering(w, win[w]), SaveAndLeave(w)
    PROVE  Inv'
<1>1. CASE Leave(w, Persisted, {})
  BY <1>1, SavedTabs, LeaveStep
<1>2. CASE Leave(w, {}, DocsOf(w))
  BY <1>2, SavedTabs, LeaveStep
<1>3. CASE Stay(w, [win[w] EXCEPT !.failed = TRUE]) /\ UNCHANGED modified
  <2>. DEFINE r == [win[w] EXCEPT !.failed = TRUE]
  <2>1. /\ r \in WindowRecord /\ r.tabs = win[w].tabs /\ r.active = win[w].active
        /\ r.transfer = win[w].transfer /\ r.removal = win[w].removal /\ r.dialog = NoDialog
    BY DEF Answering, WindowRecord
  <2>2. Stay(w, r)
    BY <1>3
  <2>. HIDE DEF r
  <2>. QED  BY <1>3, <2>1, <2>2, StayStep, DialogFields
<1>. QED  BY <1>1, <1>2, <1>3 DEF SaveAndLeave

LEMMA RequestCloseStep == ASSUME Inv, NEW w \in Window, RequestClose(w) PROVE Inv'
<1>. DEFINE kind == IF Cardinality(registered) = 1 THEN "large quit" ELSE "large window"
<1>1. w \in open /\ Answering(w, win[w]) /\ kind \in {"large quit", "large window"}
  BY ReadyAnswering DEF RequestClose
<1>2. \/ LargeModified(win[w]) # {} /\ Warn(w, win[w], kind)
      \/ SaveAndLeave(w)
      \/ QuitNow(w, win[w])
  BY DEF RequestClose
<1>. HIDE DEF kind
<1>. QED  BY <1>1, <1>2, WarnStep, SaveAndLeaveStep, QuitNowStep

LEMMA DiscardStep == ASSUME Inv, NEW w \in Window, Discard(w) PROVE Inv'
<1>. DEFINE dialog == win[w].dialog
            answers == win[w].answered \cup {dialog.tab.doc}
            rec == [win[w] EXCEPT !.dialog = NoDialog, !.answered = answers]
<1>1. /\ w \in open /\ win[w] \in WindowRecord
      /\ dialog.kind \in {"large quit", "large window"} /\ dialog.tab.doc \in Large
  BY InvOfWindow DEF Discard, Sound
<1>2. IF LargeModified(rec) # {} THEN Warn(w, rec, dialog.kind)
      ELSE WarningsAnswered(w, dialog.kind, rec)
  BY DEF Discard
<1>3. answers \in SUBSET Large
  BY <1>1, RecordFields
<1>. HIDE DEF answers
<1>4. Answering(w, rec)
  BY <1>1, <1>3, DialogFields DEF Answering, WindowRecord
<1>. HIDE DEF rec, dialog
<1>5. CASE LargeModified(rec) # {}
  BY <1>1, <1>2, <1>4, <1>5, WarnStep
<1>6. CASE WarningsAnswered(w, dialog.kind, rec)
  <2>1. CASE QuitNow(w, rec)
    BY <1>1, <1>4, <2>1, QuitNowStep
  <2>2. CASE Leave(w, Persisted, rec.answered)
    BY <1>1, <2>2, SavedTabs, LeaveStep
  <2>3. CASE Stay(w, [rec EXCEPT !.answered = {}]) /\ UNCHANGED modified
    BY <1>1, <1>4, <2>3, ForgetStep
  <2>. QED  BY <1>6, <2>1, <2>2, <2>3 DEF WarningsAnswered
<1>. QED  BY <1>2, <1>5, <1>6

LEMMA SaveLargeStep == ASSUME Inv, NEW w \in Window, SaveLarge(w) PROVE Inv'
<1>1. w \in open /\ win[w] \in WindowRecord
  BY InvOfWindow DEF SaveLarge
<1>2. CASE /\ modified' = modified \ {win[w].dialog.tab.doc}
           /\ UNCHANGED <<win, windowVars>>
  BY <1>1, <1>2, FewerModified
<1>3. CASE /\ Stay(w, [win[w] EXCEPT !.dialog = NoDialog, !.answered = {}])
           /\ UNCHANGED modified
  <2>. DEFINE r == [win[w] EXCEPT !.dialog = NoDialog, !.answered = {}]
  <2>1. /\ r \in WindowRecord /\ r.tabs = win[w].tabs /\ r.active = win[w].active
        /\ r.transfer = win[w].transfer /\ r.removal = win[w].removal /\ r.dialog = NoDialog
    BY <1>1, DialogFields DEF WindowRecord
  <2>2. Stay(w, r)
    BY <1>3
  <2>. HIDE DEF r
  <2>. QED  BY <1>1, <1>3, <2>1, <2>2, StayStep, DialogFields
<1>. QED  BY <1>2, <1>3 DEF SaveLarge

-----------------------------------------------------------------------------
(* The theorems. *)

LEMMA InitInv == Init => Inv
<1>. SUFFICES ASSUME Init PROVE Inv
  OBVIOUS
<1>1. PICK d \in Small :
         /\ win = [w \in Window |-> IF w = 1 THEN FirstTab(d) ELSE NoWindow]
         /\ used = {d} /\ untitled = {d} /\ blank = {d}
  BY DEF Init
<1>2. /\ open = {1} /\ registered = {1} /\ opening = None /\ modified = {} /\ saved = {}
      /\ lost = FALSE /\ 1 \in Window
  BY BoundsAssumption DEF Init
<1>3. d \in Doc /\ None \notin Doc /\ Editor(d).doc = d
  BY DocFacts DEF Doc
<1>4. /\ FirstTab(d) \in WindowRecord /\ Sound(FirstTab(d))
      /\ TabsOf(FirstTab(d)) = {Editor(d)} /\ Kept(FirstTab(d)) = {d}
      /\ FirstTab(d).transfer = None
  BY <1>3, FirstTabFacts
<1>5. NoWindow \in WindowRecord /\ Sound(NoWindow)
  BY EmptyWindow, DialogFields, DocFacts DEF Sound
<1>6. win \in [Window -> WindowRecord] /\ (\A w \in Window : Sound(win[w]))
      /\ win[1] = FirstTab(d)
  BY <1>1, <1>2, <1>4, <1>5
<1>7. Types
  BY <1>1, <1>2, <1>3 DEF Types, TextTypes
<1>8. \A w \in open : TabsUsed(win[w], used)
  BY <1>1, <1>2, <1>3, <1>4, <1>6 DEF TabsUsed
<1>9. Tracked(open, win, opening, used)
  <2>. SUFFICES ASSUME NEW e \in Doc
                PROVE  /\ OneHome(open, win, opening, e)
                       /\ HasHome(open, win, opening, e) => e \in used
    BY DEF Tracked
  <2>1. /\ InTab(open, win, e) = IF e = d THEN {1} ELSE {}
        /\ InSlot(open, win, e) = {} /\ opening # e
    BY <1>2, <1>3, <1>4, <1>6 DEF InTab, InSlot
  <2>. QED  BY <1>1, <2>1 DEF OneHome, HasHome
<1>10. Safe(open, win, opening, Unsaved, saved)
  BY <1>2 DEF Safe, Unsaved
<1>. QED  BY <1>2, <1>6, <1>7, <1>8, <1>9, <1>10 DEF Inv

LEMMA StutterInv == ASSUME Inv, UNCHANGED vars PROVE Inv'
<1>1. /\ open' = open /\ registered' = registered /\ win' = win /\ opening' = opening
      /\ modified' = modified /\ saved' = saved /\ lost' = lost /\ used' = used
      /\ blank' = blank /\ untitled' = untitled
  BY DEF vars, textVars
<1>. QED  BY <1>1, Zenon DEF Inv, Types, TextTypes, Unsaved

LEMMA StepInv == Inv /\ [Next]_vars => Inv'
<1>. SUFFICES ASSUME Inv, [Next]_vars PROVE Inv'
  OBVIOUS
<1>1. ASSUME NEW w \in Window,
             \/ NewTab(w) \/ DuplicateTab(w) \/ FileOpened(w) \/ TogglePreview(w)
             \/ SetActiveTab(w) \/ ReorderTab(w) \/ Edit(w) \/ SaveFile(w)
      PROVE  Inv'
  BY <1>1, NewTabStep, DuplicateTabStep, FileOpenedStep, TogglePreviewStep,
     SetActiveTabStep, ReorderTabStep, EditStep, SaveFileStep
<1>2. ASSUME NEW w \in Window,
             CloseTab(w) \/ CloseMany(w) \/ ConfirmClose(w) \/ CancelDialog(w)
      PROVE  Inv'
  BY <1>2, CloseTabStep, CloseManyStep, ConfirmCloseStep, CancelDialogStep
<1>3. ASSUME NEW w \in Window,
             SendTo(w) \/ SendToNewWindow(w) \/ NewWindow(w) \/ Render(w)
      PROVE  Inv'
  BY <1>3, SendToStep, SendToNewWindowStep, NewWindowStep, RenderStep
<1>4. ASSUME NEW w \in Window,
             RequestClose(w) \/ Quit(w) \/ ConfirmQuit(w) \/ Discard(w) \/ SaveLarge(w)
      PROVE  Inv'
  BY <1>4, RequestCloseStep, QuitStep, ConfirmQuitStep, DiscardStep, SaveLargeStep
<1>5. CASE WindowOpens
  BY <1>5, WindowOpensStep
<1>6. CASE UNCHANGED vars
  BY <1>6, StutterInv
<1>. QED  BY <1>1, <1>2, <1>3, <1>4, <1>5, <1>6 DEF Next

\* What the properties say follows from the invariant.
LEMMA TypeFromInv == Inv => TypeOK
<1>. SUFFICES ASSUME Inv PROVE TypeOK
  OBVIOUS
<1>1. ASSUME NEW w \in Window
      PROVE  /\ DOMAIN win[w] = DOMAIN NoWindow
             /\ \A i, j \in DOMAIN win[w].tabs :
                  /\ win[w].tabs[i] \in Tab
                  /\ win[w].tabs[i] = win[w].tabs[j] => i = j
             /\ {win[w].active, win[w].removal} \subseteq Tab \cup {NoTab}
             /\ win[w].dialog \in Dialog /\ win[w].transfer \in Doc \cup {None}
             /\ win[w].answered \subseteq Large /\ win[w].failed \in BOOLEAN
  <2>1. win[w] \in WindowRecord /\ Distinct(win[w].tabs)
    BY InvOfWindow DEF Tidy
  <2>2. DOMAIN win[w] = DOMAIN NoWindow
    BY <2>1, EmptyWindow DEF WindowRecord
  <2>. QED  BY <2>1, <2>2, RecordFields DEF Distinct
<1>2. /\ open \subseteq Window /\ registered \subseteq Window
      /\ opening \in Doc \cup {None} /\ modified \subseteq Doc
      /\ saved \subseteq Small /\ used \subseteq Doc
      /\ blank \subseteq untitled /\ untitled \subseteq Small
  BY DEF Inv, Types, TextTypes
<1>3. lost \in BOOLEAN
  BY Zenon DEF Inv
<1>. QED  BY <1>1, <1>2, <1>3 DEF TypeOK

LEMMA ActiveFromInv == Inv => ActiveIsATab
<1>. SUFFICES ASSUME Inv, NEW w \in open, win[w].tabs # <<>>
              PROVE  Contains(win[w].tabs, win[w].active)
  BY DEF ActiveIsATab
<1>1. win[w] \in WindowRecord /\ Tidy(win[w])
  BY InvOfWindow DEF Inv, Types
<1>. QED  BY <1>1, RecordFields DEF Tidy

LEMMA PreviewFromInv == Inv => PreviewHasSource
<1>. SUFFICES ASSUME Inv, NEW w \in open, NEW tab \in ToSet(win[w].tabs), tab.preview
              PROVE  Contains(win[w].tabs, Editor(tab.doc))
  BY DEF PreviewHasSource
<1>1. win[w] \in WindowRecord /\ Tidy(win[w])
  BY InvOfWindow DEF Inv, Types
<1>. QED  BY <1>1, RecordFields DEF Tidy

LEMMA EditsFromInv == Inv => EditsAskedFirst
<1>. SUFFICES ASSUME Inv, NEW d \in Unsaved
              PROVE  InATab(d) \/ OnItsWay(d) \/ (open = {} /\ d \in saved)
  BY DEF EditsAskedFirst
<1>1. HasHome(open, win, opening, d) \/ (open = {} /\ d \in saved)
  BY DEF Inv, Safe
<1>2. CASE InTab(open, win, d) # {}
  BY <1>2, SavedTabs DEF InTab, InATab
<1>3. CASE opening = d \/ InSlot(open, win, d) # {}
  BY <1>3 DEF InSlot, OnItsWay
<1>. QED  BY <1>1, <1>2, <1>3 DEF HasHome

\* Every reachable state keeps the invariant: the bookkeeping of tabs, slots and
\* windows in ui/tabs/tab_manager and window_manager is consistent.
THEOREM Invariance == Spec => []Inv
<1>. QED  BY InitInv, StepInv, PTL DEF Spec

\* No window shows a document or its preview twice, whatever is sent back and
\* forth between windows, and every list and slot holds what it should.
THEOREM TypeCorrect == Spec => []TypeOK
<1>. QED  BY Invariance, TypeFromInv, PTL

\* A window with tabs shows one of them, after close_tab_manage_focus, a bulk
\* operation, a transfer or a warning.
THEOREM ActiveTabExists == Spec => []ActiveIsATab
<1>. QED  BY Invariance, ActiveFromInv, PTL

\* remove_tab_by_id takes the preview along: none outlives its editor.
THEOREM PreviewsHaveSources == Spec => []PreviewHasSource
<1>. QED  BY Invariance, PreviewFromInv, PTL

\* Changes that can be persisted and are more than white space in an untitled tab
\* are in a tab, on their way to one or in the last save, unless the user gave
\* them up when asked.
THEOREM EditsAreAskedFirst == Spec => []EditsAskedFirst
<1>. QED  BY Invariance, EditsFromInv, PTL

=============================================================================
