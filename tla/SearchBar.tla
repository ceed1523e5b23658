----------------------------- MODULE SearchBar -----------------------------
(***************************************************************************)
(* The search and replace bar of one window and the texts it is used on    *)
(* (src/src/fulgur/ui/bars/search_bar).                                    *)
(*                                                                         *)
(* The bar remembers the matches of its last search as offsets into the    *)
(* text that was shown then.  The text changes under it: the user types,   *)
(* another tab becomes active (set_active_tab searches again, closing the  *)
(* active tab does not), a replacement rewrites it.  Replacing therefore   *)
(* searches again first, going to the next match does not.                 *)
(*                                                                         *)
(* A text is a sequence of characters, an offset a number of characters.   *)
(* "a" and "A" are the two cases of a letter, "E" stands for the letters   *)
(* whose lower case is two characters, and every other character is        *)
(* neither alphanumeric nor an underscore.  Lines and columns are left     *)
(* out: the cursor is the offset.                                          *)
(***************************************************************************)
EXTENDS Integers, Sequences, FiniteSets
Seqs == INSTANCE SequencesExt

CONSTANTS
    Tab,          \* tabs of the window
    Editors,      \* the tabs that hold a text (Settings is not one)
    Texts,        \* texts a tab may start with and the user may type
    Queries,      \* what the user may type into the search input
    Replacements, \* and into the replace input
    MaxLength,    \* bound: characters of a text
    MaxEdits,     \* bound: changes typed into the texts
    MaxReplaced   \* bound: replacements made

ASSUME SearchBarAssumption ==
    /\ Editors \subseteq Tab /\ Editors # {}
    /\ <<>> \in Queries
    /\ {MaxLength, MaxEdits, MaxReplaced} \subseteq Nat

VARIABLES
    open,         \* tabs that are open
    shownTab,     \* the active tab
    text,         \* the text of each editor tab
    cursor,       \* its cursor
    highlighted,  \* it has search highlights (diagnostics)
    bar,          \* [show, query, matchCase, wholeWord, last, matches, current]
    edits,        \* texts typed so far
    replaced      \* replacements made so far

searchVars == <<open, shownTab, text, cursor, highlighted, bar, edits, replaced>>

NoMatch == 0
Lower(c) == CASE c = "A" -> <<"a">> [] c = "E" -> <<"a", "'">> [] OTHER -> <<c>>
WordChar(c) == c \in {"a", "A", "E"}

\* rebuild_lowercase_text: the lower case text, and for each of its characters
\* the offset of the character it came from.
LowerText(t) == Seqs!FlattenSeq([i \in DOMAIN t |-> Lower(t[i])])
LowerOffsets(t) ==
    Seqs!FlattenSeq([i \in DOMAIN t |-> [k \in DOMAIN Lower(t[i]) |-> i - 1]]) \o <<Len(t)>>
SameOffsets(t) == [i \in 1 .. Len(t) + 1 |-> i - 1]

\* The matches of find_matches_with_scratch: after each match the scan goes on
\* one character further, so matches may overlap.
IsWord(t, start, end) ==
    /\ start = 0 \/ ~WordChar(t[start])
    /\ end >= Len(t) \/ ~WordChar(t[end + 1])

Occurrences(t, q) ==
    {k \in 0 .. Len(t) - Len(q) : SubSeq(t, k + 1, k + Len(q)) = q}

Matches(t, q, matchCase, wholeWord) ==
    LET searched == IF matchCase THEN t ELSE LowerText(t)
        sought   == IF matchCase THEN q ELSE LowerText(q)
        offsets  == IF matchCase THEN SameOffsets(t) ELSE LowerOffsets(t)
        At(k)    == [start |-> offsets[k + 1], end |-> offsets[k + 1 + Len(sought)]]
        found    == {k \in Occurrences(searched, sought) :
                        wholeWord => IsWord(t, At(k).start, At(k).end)}
    IN IF q = <<>> THEN <<>>
       ELSE LET order == Seqs!SetToSortSeq(found, <)
            IN [i \in DOMAIN order |-> At(order[i])]

\* apply_replacements: a match that overlaps the one before is skipped.
Splice(t, m, r) == SubSeq(t, 1, m.start) \o r \o SubSeq(t, m.end + 1, Len(t))
Replaced(t, matches, r) ==
    LET step(acc, m) ==
            IF m.start < acc.pos THEN acc
            ELSE [pos |-> m.end, out |-> acc.out \o SubSeq(t, acc.pos + 1, m.start) \o r]
        done == Seqs!FoldLeft(step, [pos |-> 0, out |-> <<>>], matches)
    IN done.out \o SubSeq(t, done.pos + 1, Len(t))

MinOf(a, b) == IF a < b THEN a ELSE b
Options(b) == [query |-> b.query, matchCase |-> b.matchCase, wholeWord |-> b.wholeWord]
MatchesOf(b, t) == Matches(t, b.query, b.matchCase, b.wholeWord)
Cleared(b) == [b EXCEPT !.matches = <<>>, !.current = NoMatch]
FirstFrom(matches, c) ==
    LET later == {i \in DOMAIN matches : matches[i].start >= c}
    IN IF matches = <<>> THEN NoMatch
       ELSE IF later = {} THEN 1
       ELSE CHOOSE i \in later : \A j \in later : i <= j

SearchInit ==
    /\ open = Tab
    /\ shownTab \in Editors
    /\ text \in [Editors -> Texts]
    /\ cursor = [t \in Editors |-> 0]
    /\ highlighted = [t \in Editors |-> FALSE]
    /\ bar = [show |-> FALSE, query |-> <<>>, matchCase |-> FALSE, wholeWord |-> FALSE,
              last |-> [query |-> <<>>, matchCase |-> FALSE, wholeWord |-> FALSE],
              matches |-> <<>>, current |-> NoMatch]
    /\ edits = 0 /\ replaced = 0
-----------------------------------------------------------------------------
(* perform_search, on the text of tab t when t is an editor. *)

\* The cached matches stand while the query and the options are the same.
UpToDate(b) == b.last = Options(b) /\ b.matches # <<>>

Searched(b, t, txt, cur) ==
    LET found == IF t \in Editors THEN MatchesOf(b, txt[t]) ELSE <<>>
    IN IF UpToDate(b) THEN b
       ELSE [b EXCEPT !.last = Options(b), !.matches = found,
                      !.current = FirstFrom(found, IF t \in Editors THEN cur[t] ELSE 0)]

\* highlight_current_match moves the cursor to the current match.
AtMatch(b, t, txt, cur) ==
    IF t \in Editors /\ b.current \in DOMAIN b.matches
    THEN [cur EXCEPT ![t] = MinOf(b.matches[b.current].start, Len(txt[t]))]
    ELSE cur

Highlights(b, t) ==
    IF t \in Editors THEN [highlighted EXCEPT ![t] = b.matches # <<>>] ELSE highlighted

\* The bar b searches in tab t, the texts being txt.
Performs(b, t, txt) ==
    LET found == Searched(b, t, txt, cursor)
    IN /\ bar' = found
       /\ IF UpToDate(b)
          THEN UNCHANGED <<cursor, highlighted>>
          ELSE /\ cursor' = AtMatch(found, t, txt, cursor)
               /\ highlighted' = Highlights(found, t)

\* close
Closes(b) ==
    /\ bar' = [Cleared(b) EXCEPT !.show = FALSE]
    /\ highlighted' = IF shownTab \in Editors
                      THEN [highlighted EXCEPT ![shownTab] = FALSE] ELSE highlighted
    /\ UNCHANGED cursor

FindInFile ==
    /\ IF bar.show
       THEN Closes(bar)
       ELSE Performs([bar EXCEPT !.show = TRUE], shownTab, text)
    /\ UNCHANGED <<open, shownTab, text, edits, replaced>>

QueryTyped(q) ==
    /\ bar.show /\ q # bar.query
    /\ Performs([bar EXCEPT !.query = q], shownTab, text)
    /\ UNCHANGED <<open, shownTab, text, edits, replaced>>

ToggleMatchCase ==
    /\ bar.show
    /\ Performs([bar EXCEPT !.matchCase = ~@], shownTab, text)
    /\ UNCHANGED <<open, shownTab, text, edits, replaced>>

ToggleWholeWord ==
    /\ bar.show
    /\ Performs([bar EXCEPT !.wholeWord = ~@], shownTab, text)
    /\ UNCHANGED <<open, shownTab, text, edits, replaced>>

\* search_next and search_previous go round the matches they remember.
GoesTo(i) ==
    /\ bar.show /\ bar.matches # <<>>
    /\ bar' = [bar EXCEPT !.current = i]
    /\ cursor' = AtMatch(bar', shownTab, text, cursor)
    /\ UNCHANGED <<open, shownTab, text, highlighted, edits, replaced>>

SearchNext == GoesTo((bar.current % Len(bar.matches)) + 1)
SearchPrevious ==
    GoesTo(IF bar.current <= 1 THEN Len(bar.matches) ELSE bar.current - 1)
-----------------------------------------------------------------------------
(* replace.rs *)

\* force_perform_search
Forced(b) == Searched(Cleared(b), shownTab, text, cursor)

\* The bounds on replacing.
Counted(new) ==
    /\ Len(new) <= MaxLength
    /\ replaced < MaxReplaced
    /\ replaced' = replaced + 1

\* Where set_value, and the user's typing, leave the cursor.
Ends(t) == {0, Len(t)}

\* replace_current replaces the match the new search made current, searches
\* the new text and keeps its place among the matches.
ReplacedOne(found, r) ==
    LET t     == shownTab
        m     == found.matches[found.current]
        new   == [text EXCEPT ![t] = Splice(text[t], m, r)]
        at    == AtMatch(found, t, text, cursor)
    IN /\ found.current \in DOMAIN found.matches
       /\ m.end <= Len(text[t])
       /\ Counted(new[t])
       /\ text' = new
       /\ \E c \in Ends(new[t]) :
             LET again == Searched(Cleared(found), t, new, [at EXCEPT ![t] = c])
                 kept  == [again EXCEPT !.current =
                              IF again.matches = <<>> THEN NoMatch
                              ELSE IF found.current <= Len(again.matches)
                                   THEN found.current ELSE 1]
             IN /\ bar' = kept
                /\ cursor' = AtMatch(kept, t, new, [at EXCEPT ![t] = c])
                /\ highlighted' = Highlights(kept, t)

NothingToReplace(found) ==
    /\ found.current \notin DOMAIN found.matches
    /\ bar' = found
    /\ highlighted' = Highlights(found, shownTab)
    /\ UNCHANGED <<text, cursor, replaced>>

ReplaceCurrentRemembered(r) ==
    /\ bar.show
    /\ \/ shownTab \in Editors /\ ReplacedOne(bar, r)
       \/ NothingToReplace(bar)
    /\ UNCHANGED <<open, shownTab, edits>>

ReplaceCurrent(r) ==
    /\ bar.show
    /\ \/ shownTab \in Editors /\ ReplacedOne(Forced(bar), r)
       \/ NothingToReplace(Forced(bar))
    /\ UNCHANGED <<open, shownTab, edits>>

\* replace_all: a case sensitive search for parts of words uses str::replace,
\* every other one apply_replacements; neither replaces overlapping matches.
ReplacedAll(found, r) ==
    LET t   == shownTab
        new == Replaced(text[t], found.matches, r)
    IN /\ found.matches # <<>>
       /\ Counted(new)
       /\ text' = [text EXCEPT ![t] = new]
       /\ \E c \in Ends(new) : cursor' = [cursor EXCEPT ![t] = c]
       /\ bar' = Cleared(found)
       /\ highlighted' = Highlights(found, t)

ReplaceAll(r) ==
    /\ bar.show
    /\ \/ shownTab \in Editors /\ ReplacedAll(Forced(bar), r)
       \/ Forced(bar).matches = <<>> /\ NothingToReplace(Forced(bar))
    /\ UNCHANGED <<open, shownTab, edits>>
-----------------------------------------------------------------------------
(* The window around the bar. *)

\* The user types; the bar does not hear of it.
Typed(t) ==
    /\ edits < MaxEdits
    /\ shownTab \in Editors /\ t # text[shownTab]
    /\ text' = [text EXCEPT ![shownTab] = t]
    /\ \E c \in Ends(t) : cursor' = [cursor EXCEPT ![shownTab] = c]
    /\ edits' = edits + 1
    /\ UNCHANGED <<open, shownTab, highlighted, bar, replaced>>

\* set_active_tab: an open bar searches again (refresh_matches).
SwitchTab(t) ==
    /\ t \in open \ {shownTab}
    /\ shownTab' = t
    /\ IF bar.show
       THEN Performs([bar EXCEPT !.matches = <<>>], t, text)
       ELSE UNCHANGED <<cursor, highlighted, bar>>
    /\ UNCHANGED <<open, text, edits, replaced>>

\* close_tab_manage_focus: the neighbour is shown, and the bar not told.
CloseTab(t) ==
    /\ t \in open \ {shownTab}
    /\ open' = open \ {shownTab}
    /\ shownTab' = t
    /\ UNCHANGED <<text, cursor, highlighted, bar, edits, replaced>>
-----------------------------------------------------------------------------
SearchNextStep ==
    \/ FindInFile \/ ToggleMatchCase \/ ToggleWholeWord
    \/ SearchNext \/ SearchPrevious
    \/ \E q \in Queries : QueryTyped(q)
    \/ \E r \in Replacements : ReplaceCurrent(r) \/ ReplaceAll(r)
    \/ \E t \in Texts : Typed(t)
    \/ \E t \in Tab : SwitchTab(t) \/ CloseTab(t)

SearchSpec == SearchInit /\ [][SearchNextStep]_searchVars
-----------------------------------------------------------------------------
(* What must hold. *)

SearchTypeOK ==
    /\ open \subseteq Tab /\ shownTab \in open
    /\ \A t \in Editors : cursor[t] \in 0 .. Len(text[t]) /\ Len(text[t]) <= MaxLength
    /\ bar.last = Options(bar)

\* The occurrences a reader of the text would name: the stretches equal to the
\* query up to case, standing alone when whole words are asked for.
Equal(b, s) == IF b.matchCase THEN s = b.query ELSE LowerText(s) = LowerText(b.query)
Stretches(b, t) ==
    {m \in [start : 0 .. Len(t), end : 0 .. Len(t)] :
        /\ m.start < m.end
        /\ Equal(b, SubSeq(t, m.start + 1, m.end))
        /\ b.wholeWord => IsWord(t, m.start, m.end)}

\* Replacing them all from the left, none twice.
LeftMost(ms) == CHOOSE m \in ms : \A n \in ms : m.start <= n.start
RECURSIVE AllReplaced(_, _, _, _)
AllReplaced(t, ms, from, r) ==
    LET left == {m \in ms : m.start >= from}
    IN IF left = {} THEN SubSeq(t, from + 1, Len(t))
       ELSE SubSeq(t, from + 1, LeftMost(left).start) \o r
               \o AllReplaced(t, ms, LeftMost(left).end, r)

\* The query occurs in the lower case text where no stretch of the text is equal
\* to it: it begins or ends within the lower case of one letter.
SplitsALetter(b, t) ==
    LET offsets == LowerOffsets(t)
        Within(k) == k \in 1 .. Len(offsets) - 1 /\ offsets[k + 1] = offsets[k]
    IN /\ ~b.matchCase /\ b.query # <<>>
       /\ \E k \in Occurrences(LowerText(t), LowerText(b.query)) :
             Within(k) \/ Within(k + Len(LowerText(b.query)))

\* A step that changes a text the user did not type replaces one occurrence of
\* the query in the text as it is now, or every one of them: never a stretch of
\* an older text, nor of another tab's, nor one that is out of place behind a
\* letter with a longer lower case.  Texts with an occurrence that splits such a
\* letter are set apart: find_matches_with_scratch gives it the offset of the
\* letter at both ends, and replacing it inserts text or takes the whole letter.
ReplacesOccurrences ==
    [][\A t \in Editors :
         (text'[t] # text[t] /\ edits' = edits /\ ~SplitsALetter(bar, text[t])) =>
            /\ t = shownTab
            /\ \E r \in Replacements :
                 LET found == Stretches(bar, text[t])
                 IN \/ \E m \in found : text'[t] = Splice(text[t], m, r)
                    \/ text'[t] = AllReplaced(text[t], found, 0, r)]_searchVars

\* Highlights left in a tab the user switched away from outlive the bar.
HighlightsEnd == ~bar.show => \A t \in Editors : ~highlighted[t]
=============================================================================
