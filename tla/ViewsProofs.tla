------------------------------- MODULE ViewsProofs -------------------------------
(***************************************************************************)
(* Proofs about what the program shows: the search and the window of the   *)
(* terminal's report, the table of sensors, the hardware page and the main *)
(* window, and all of them as MCViews composes them, for every report,     *)
(* layout, inventory and text.                                             *)
(***************************************************************************)
EXTENDS MCViews, Integers, NaturalsInduction, WellFoundedInduction, FiniteSetTheorems,
        SequenceTheorems, TLAPS

-----------------------------------------------------------------------------
(* TuiView *)

(* A set of numbers has a least element, and a greatest one if it is       *)
(* bounded.                                                                *)
LEMMA LeastOf ==
  ASSUME NEW T \in SUBSET Nat, T # {}
  PROVE  \E x \in T : \A y \in T : x <= y
  <1>1. IsWellFoundedOn(OpToRel(<, Nat), Nat)
    BY NatLessThanWellFounded
  <1> DEFINE R == OpToRel(<, Nat)
  <1>2. PICK x \in T : \A y \in T : ~ (<<y, x>> \in R)
    <2> HIDE DEF R
    <2> QED
      BY <1>1, WFMin DEF R
  <1>3. \A y \in T : x \in Nat /\ y \in Nat /\ ~ (y < x)
    BY <1>2 DEF OpToRel
  <1> QED
    BY <1>3

LEMMA GreatestOf ==
  ASSUME NEW n \in Nat, NEW T \in SUBSET (1 .. n), T # {}
  PROVE  \E x \in T : \A y \in T : x >= y
  <1> DEFINE U == { u \in Nat : \A y \in T : y <= u }
  <1>1. n \in U
    OBVIOUS
  <1>2. U \in SUBSET Nat
    OBVIOUS
  <1>3. PICK u \in U : \A y \in U : u <= y
    <2> HIDE DEF U
    <2> QED
      BY <1>1, <1>2, LeastOf
  <1>4. u \in Nat /\ \A y \in T : y <= u
    BY <1>3
  <1>5. u \in T
    <2> SUFFICES ASSUME u \notin T PROVE FALSE
      OBVIOUS
    <2>1. \A y \in T : y \in Nat /\ y >= 1 /\ y <= u - 1
      BY <1>4
    <2>2. u - 1 \in Nat
      <3>1. PICK y \in T : TRUE
        OBVIOUS
      <3>2. y \in Nat /\ y >= 1 /\ y <= u - 1 /\ u \in Nat
        BY <1>4, <2>1
      <3> QED
        BY <3>2
    <2>3. u - 1 \in U
      BY <2>1, <2>2
    <2> QED
      BY <1>3, <1>4, <2>3
  <1> QED
    BY <1>4, <1>5

(* The next match is a match.                                              *)
LEMMA NextIsMatch ==
  ASSUME NEW n \in Nat, NEW matches \in SUBSET (1 .. n), matches # {},
         NEW current, NEW reverse \in BOOLEAN
  PROVE  NextMatch(matches, current, reverse) \in matches
  <1> DEFINE beyond == { i \in matches : \A c \in current : IF reverse THEN i < c ELSE i > c }
             among == IF beyond = {} THEN matches ELSE beyond
  <1>1. beyond \subseteq matches
    OBVIOUS
  <1>2. NextMatch(matches, current, reverse) = IF reverse THEN Max(among) ELSE Min(among)
    BY Zenon DEF NextMatch
  <1> HIDE DEF beyond
  <1>3. among \subseteq matches /\ among # {}
    BY <1>1
  <1> HIDE DEF among
  <1>4. among \in SUBSET (1 .. n) /\ among \in SUBSET Nat
    BY <1>3
  <1>5. Max(among) \in among
    BY <1>3, <1>4, GreatestOf DEF Max
  <1>6. Min(among) \in among
    BY <1>3, <1>4, LeastOf DEF Min
  <1> QED
    BY <1>2, <1>3, <1>5, <1>6

LEMMA MatchesAre ==
  ASSUME NEW lines \in Reports, NEW query
  PROVE  /\ Matches(lines, query) \in SUBSET (1 .. Len(lines)) /\ Len(lines) \in Nat
         /\ Matches(lines, query) \subseteq DOMAIN lines /\ DOMAIN lines = 1 .. Len(lines)
  <1>1. lines \in Seq(SUBSET Queries)
    BY ViewAssumption DEF ViewAssumption
  <1> QED
    BY <1>1 DEF Matches

SearchOf(lines) ==
    [mode : {"Normal", "Search"}, input : Queries \cup {Blank}, query : Queries \cup {Blank},
     current : SUBSET DOMAIN lines]

ReportRecord ==
    /\ report = [lines |-> report.lines, styled |-> report.styled, drawn |-> report.drawn]
    /\ report.drawn \in BOOLEAN

(* The limits of the window are those of the report that was drawn.        *)
Drawn ==
    report.drawn =>
        /\ scroll.max = IF Len(report.lines) > view.height
                        THEN Len(report.lines) - view.height ELSE 0
        /\ scroll.viewport = IF view.height = 0 THEN 1 ELSE view.height

(* A match that was found is at the top of the window, or as far down as   *)
(* the window goes.                                                        *)
FoundAtTop ==
    found => /\ report.drawn
             /\ \A c \in search.current : scroll.at = Clamped(c - 1, scroll.max)

ViewInv == TuiViewTypeOK /\ MatchIsReal /\ ReportRecord /\ Drawn /\ FoundAtTop

LEMMA ViewTypes ==
  ASSUME ViewInv
  PROVE  /\ turn \in {"tick", "draw", "keys"}
         /\ view \in [shown : TerminalViews, verbose : BOOLEAN, help : BOOLEAN,
                      dirty : BOOLEAN, height : Heights]
         /\ report.lines \in Reports /\ search \in SearchOf(report.lines)
         /\ scroll \in [at : Nat, max : Nat, viewport : Nat \ {0}] /\ found \in BOOLEAN
         /\ Heights \subseteq Nat /\ view.height \in Nat
         /\ report = [lines |-> report.lines, styled |-> report.styled, drawn |-> report.drawn]
  <1>1. Heights \subseteq Nat
    BY ViewAssumption DEF ViewAssumption
  <1> QED
    BY <1>1 DEF ViewInv, TuiViewTypeOK, ReportRecord, SearchOf

LEMMA ClampedIs ==
  ASSUME NEW at \in Nat, NEW max \in Nat
  PROVE  Clamped(at, max) \in Nat /\ Clamped(at, max) <= max /\ Clamped(at, max) <= at
  BY DEF Clamped

(* The marks are set on the lines that there are now.                      *)
LEMMA RebuildMarks ==
  ASSUME NEW from \in [mode : {"Normal", "Search"}, input : Queries \cup {Blank},
                       query : Queries \cup {Blank}, current : SUBSET DOMAIN report.lines],
         NEW previous, Rebuild(from, previous)
  PROVE  /\ report'.lines \in Reports /\ search' \in SearchOf(report'.lines)
         /\ MatchIsReal' /\ ReportRecord' /\ report'.drawn = FALSE
  <1>1. PICK lines \in Reports :
          LET current == MatchNear(lines, from.query, previous)
          IN /\ report' = [lines |-> lines, styled |-> Styled(lines, from.query, current),
                           drawn |-> FALSE]
             /\ search' = [from EXCEPT !.current = current]
    BY DEF Rebuild
  <1> DEFINE current == MatchNear(lines, from.query, previous)
             styled == Styled(lines, from.query, current)
  <1>2. current \subseteq Matches(lines, from.query)
    BY DEF MatchNear
  <1>3. /\ report' = [lines |-> lines, styled |-> styled, drawn |-> FALSE]
        /\ search' = [from EXCEPT !.current = current]
    BY <1>1
  <1>4. styled = Styled(lines, from.query, current)
    OBVIOUS
  <1> HIDE DEF current, styled
  <1>5. current \in SUBSET DOMAIN lines
    BY <1>2, MatchesAre
  <1>6. /\ report'.lines = lines /\ report'.styled = styled /\ report'.drawn = FALSE
        /\ report' = [lines |-> report'.lines, styled |-> report'.styled, drawn |-> report'.drawn]
    BY <1>3
  <1>7. search' \in SearchOf(lines) /\ search'.query = from.query /\ search'.current = current
    BY <1>3, <1>5 DEF SearchOf
  <1> QED
    BY <1>2, <1>4, <1>6, <1>7 DEF MatchIsReal, ReportRecord

(* What is found is marked and scrolled to.                                *)
LEMMA FindMarks ==
  ASSUME ViewInv, NEW reverse \in BOOLEAN,
         NEW from \in SearchOf(report.lines), Find(from, reverse)
  PROVE  /\ report'.lines = report.lines /\ search' \in SearchOf(report.lines)
         /\ MatchIsReal' /\ ReportRecord' /\ report'.drawn = report.drawn
         /\ scroll' \in [at : Nat, max : Nat, viewport : Nat \ {0}]
         /\ scroll'.max = scroll.max /\ scroll'.viewport = scroll.viewport
         /\ found' \in BOOLEAN /\ FoundAtTop'
  <1> DEFINE matches == Matches(report.lines, from.query)
             selected == NextMatch(matches, from.current, reverse)
             current == IF matches = {} THEN {} ELSE {selected}
             styled == Styled(report.lines, from.query, current)
  <1>0. /\ report.lines \in Reports /\ scroll \in [at : Nat, max : Nat, viewport : Nat \ {0}]
        /\ report = [lines |-> report.lines, styled |-> report.styled, drawn |-> report.drawn]
        /\ report.drawn \in BOOLEAN
    BY ViewTypes DEF ViewInv, ReportRecord
  <1>1. /\ search' = [from EXCEPT !.current = current]
        /\ report' = [report EXCEPT !.styled = styled]
        /\ scroll' = IF matches = {} THEN scroll
                     ELSE [scroll EXCEPT !.at = Clamped(selected - 1, scroll.max)]
        /\ found' = (matches # {} /\ report.drawn)
    BY DEF Find
  <1>2. /\ matches \in SUBSET (1 .. Len(report.lines)) /\ Len(report.lines) \in Nat
        /\ matches \subseteq DOMAIN report.lines
    BY <1>0, MatchesAre
  <1>3. matches # {} => selected \in matches
    <2> HIDE DEF matches
    <2> QED
      BY <1>2, NextIsMatch
  <1>4. styled = Styled(report.lines, from.query, current)
    OBVIOUS
  <1>5. matches = Matches(report.lines, from.query)
    OBVIOUS
  <1> HIDE DEF matches, selected, styled
  <1>6. current \subseteq matches /\ current \in SUBSET DOMAIN report.lines
    BY <1>2, <1>3
  <1>7. matches # {} => selected \in Nat /\ selected - 1 \in Nat /\ current = {selected}
    BY <1>2, <1>3
  <1>8. matches = {} => current = {}
    OBVIOUS
  <1> HIDE DEF current
  <1>9. search' \in SearchOf(report.lines) /\ search'.query = from.query /\ search'.current = current
    BY <1>1, <1>6 DEF SearchOf
  <1>10. /\ report'.lines = report.lines /\ report'.styled = styled /\ report'.drawn = report.drawn
         /\ report' = [lines |-> report'.lines, styled |-> report'.styled, drawn |-> report'.drawn]
    BY <1>0, <1>1
  <1>11. MatchIsReal' /\ ReportRecord'
    BY <1>0, <1>4, <1>5, <1>6, <1>9, <1>10 DEF MatchIsReal, ReportRecord
  <1>12. CASE matches = {}
    <2>1. scroll' = scroll /\ found' = FALSE
      BY <1>1, <1>12
    <2> QED
      BY <1>0, <1>9, <1>10, <1>11, <2>1 DEF FoundAtTop
  <1>13. CASE matches # {}
    <2> DEFINE at == Clamped(selected - 1, scroll.max)
    <2>1. at \in Nat
      BY <1>0, <1>7, <1>13, ClampedIs
    <2>2. scroll' = [scroll EXCEPT !.at = at] /\ found' = report.drawn
      BY <1>0, <1>1, <1>13
    <2>3. at = Clamped(selected - 1, scroll.max)
      OBVIOUS
    <2> HIDE DEF at
    <2>4. /\ scroll' \in [at : Nat, max : Nat, viewport : Nat \ {0}]
          /\ scroll'.max = scroll.max /\ scroll'.viewport = scroll.viewport /\ scroll'.at = at
      BY <1>0, <2>1, <2>2
    <2>5. \A c \in search'.current : scroll'.at = Clamped(c - 1, scroll'.max)
      BY <1>7, <1>9, <1>13, <2>3, <2>4
    <2> QED
      BY <1>0, <1>9, <1>10, <1>11, <2>2, <2>4, <2>5 DEF FoundAtTop
  <1> QED
    BY <1>12, <1>13

ViewRecords == [shown : TerminalViews, verbose : BOOLEAN, help : BOOLEAN,
                dirty : BOOLEAN, height : Heights]
ScrollRecords == [at : Nat, max : Nat, viewport : Nat \ {0}]

(* A step that rebuilds the report. *)
LEMMA RebuildKeeps ==
  ASSUME ViewInv, turn' \in {"tick", "draw", "keys"}, view' \in ViewRecords,
         NEW from \in SearchOf(report.lines), NEW previous, Rebuild(from, previous),
         NEW at \in Nat, scroll' = [scroll EXCEPT !.at = at], found' = FALSE
  PROVE  ViewInv'
  <1>1. /\ report'.lines \in Reports /\ search' \in SearchOf(report'.lines)
        /\ MatchIsReal' /\ ReportRecord' /\ report'.drawn = FALSE
    BY RebuildMarks DEF SearchOf
  <1>2. scroll' \in ScrollRecords
    BY ViewTypes DEF ScrollRecords
  <1>3. Drawn' /\ FoundAtTop'
    BY <1>1 DEF Drawn, FoundAtTop
  <1> QED
    BY <1>1, <1>2, <1>3 DEF ViewInv, TuiViewTypeOK, SearchOf, ScrollRecords, ViewRecords

(* A step that finds a match. *)
LEMMA FindKeeps ==
  ASSUME ViewInv, turn' = turn, view' = [view EXCEPT !.dirty = TRUE], NEW reverse \in BOOLEAN,
         NEW from \in SearchOf(report.lines), Find(from, reverse)
  PROVE  ViewInv'
  <1>1. /\ report'.lines = report.lines /\ search' \in SearchOf(report.lines)
        /\ MatchIsReal' /\ ReportRecord' /\ report'.drawn = report.drawn
        /\ scroll' \in ScrollRecords
        /\ scroll'.max = scroll.max /\ scroll'.viewport = scroll.viewport
        /\ found' \in BOOLEAN /\ FoundAtTop'
    BY FindMarks DEF ScrollRecords
  <1>2. view' \in ViewRecords /\ view'.height = view.height
    BY ViewTypes DEF ViewRecords
  <1>3. Drawn'
    BY <1>1, <1>2 DEF ViewInv, Drawn
  <1>4. report'.lines \in Reports /\ turn' \in {"tick", "draw", "keys"}
    BY <1>1, ViewTypes
  <1> QED
    BY <1>1, <1>2, <1>3, <1>4 DEF ViewInv, TuiViewTypeOK, SearchOf, ScrollRecords, ViewRecords

(* A step that leaves the report, the current match and the scrolling, or  *)
(* scrolls without having found anything.                                  *)
LEMMA OtherKeeps ==
  ASSUME ViewInv, turn' \in {"tick", "draw", "keys"}, view' \in ViewRecords,
         view'.height = view.height, report' = report,
         search' \in SearchOf(report.lines), search'.query = search.query,
         search'.current = search.current,
         \/ scroll' = scroll /\ found' = found
         \/ /\ found' = FALSE
            /\ \E at \in Nat : scroll' = [scroll EXCEPT !.at = at]
  PROVE  ViewInv'
  <1>1. /\ report.lines \in Reports /\ scroll \in ScrollRecords /\ found \in BOOLEAN
    BY ViewTypes DEF ScrollRecords
  <1>2. scroll' \in ScrollRecords /\ scroll'.max = scroll.max /\ scroll'.viewport = scroll.viewport
    BY <1>1 DEF ScrollRecords
  <1>3. MatchIsReal' /\ ReportRecord' /\ Drawn'
    BY <1>2 DEF ViewInv, MatchIsReal, ReportRecord, Drawn
  <1>4. FoundAtTop'
    BY DEF ViewInv, FoundAtTop
  <1> QED
    BY <1>1, <1>2, <1>3, <1>4 DEF ViewInv, TuiViewTypeOK, SearchOf, ScrollRecords, ViewRecords

LEMMA TickViewKeeps == ASSUME ViewInv, TickView PROVE ViewInv'
  <1>1. turn' = "draw" /\ search \in SearchOf(report.lines)
    BY ViewTypes DEF TickView
  <1>2. CASE /\ Rebuild(search, search.current)
             /\ scroll' = [scroll EXCEPT !.at = Clamped(@, scroll.max)]
             /\ view' = [view EXCEPT !.dirty = TRUE]
             /\ found' = FALSE
    <2> DEFINE at == Clamped(scroll.at, scroll.max)
    <2>1. at \in Nat
      BY ViewTypes, ClampedIs
    <2>2. scroll' = [scroll EXCEPT !.at = at]
      BY <1>2, ViewTypes
    <2>3. view' \in ViewRecords
      BY <1>2, ViewTypes DEF ViewRecords
    <2> HIDE DEF at
    <2> QED
      BY <1>1, <1>2, <2>1, <2>2, <2>3, RebuildKeeps
  <1>3. CASE UNCHANGED <<view, report, search, scroll, found>>
    BY <1>1, <1>3, OtherKeeps, ViewTypes DEF ViewRecords
  <1> QED
    BY <1>2, <1>3 DEF TickView

(* The drawing sets the limits: what was found is in the window.           *)
LEMMA LimitsAre ==
  ASSUME ViewInv
  PROVE  /\ Limits(view.height) \in ScrollRecords
         /\ Limits(view.height).max = (IF Len(report.lines) > view.height
                                       THEN Len(report.lines) - view.height ELSE 0)
         /\ Limits(view.height).viewport = (IF view.height = 0 THEN 1 ELSE view.height)
         /\ found => search.current \subseteq Window(Limits(view.height))
  <1> DEFINE n == Len(report.lines)
             h == view.height
             max == IF n > h THEN n - h ELSE 0
             at == Clamped(scroll.at, max)
             viewport == IF h = 0 THEN 1 ELSE h
  <1>1. /\ n \in Nat /\ h \in Nat /\ scroll.at \in Nat
        /\ search.current \in SUBSET (1 .. n)
    BY ViewTypes, MatchesAre DEF SearchOf
  <1>2. Limits(h) = [at |-> at, max |-> max, viewport |-> viewport]
    BY DEF Limits
  <1>3. found => /\ scroll.max = max
                 /\ \A c \in search.current : scroll.at = Clamped(c - 1, max)
    BY DEF ViewInv, Drawn, FoundAtTop
  <1>4. max \in Nat /\ viewport \in Nat /\ viewport # 0 /\ at = Clamped(scroll.at, max)
        /\ max = (IF n > h THEN n - h ELSE 0) /\ viewport = (IF h = 0 THEN 1 ELSE h)
    BY <1>1
  <1>5. n = Len(report.lines) /\ h = view.height
    OBVIOUS
  <1> HIDE DEF n, h, max, at, viewport
  <1>6. at \in Nat
    BY <1>1, <1>4, ClampedIs
  <1>7. /\ Limits(h) \in ScrollRecords /\ Limits(h).max = max
        /\ Limits(h).viewport = viewport /\ Limits(h).at = at
    BY <1>2, <1>4, <1>6 DEF ScrollRecords
  <1>8. ASSUME found, NEW c \in search.current PROVE c \in Window(Limits(h))
    <2>1. c \in 1 .. n /\ scroll.at = Clamped(c - 1, max)
      BY <1>1, <1>3, <1>8
    <2>2. at + 1 <= c /\ c <= at + viewport
      BY <1>1, <1>4, <2>1 DEF Clamped
    <2>3. c \in at + 1 .. Clamped(at + viewport, n)
      BY <1>1, <1>4, <1>6, <2>1, <2>2 DEF Clamped
    <2> QED
      BY <1>5, <1>7, <2>3 DEF Window
  <1> QED
    BY <1>4, <1>5, <1>7, <1>8

LEMMA DrawKeeps ==
  ASSUME ViewInv, DrawView
  PROVE  /\ ViewInv'
         /\ found /\ view.dirty => search.current \subseteq Window(scroll')
  <1>1. turn' = "keys" /\ search' = search
    BY DEF DrawView
  <1>2. CASE view.dirty
    <2>1. /\ scroll' = Limits(view.height) /\ view' = [view EXCEPT !.dirty = FALSE]
          /\ report' = [report EXCEPT !.drawn = TRUE] /\ found' = FALSE
      BY <1>2 DEF DrawView
    <2>2. view' \in ViewRecords /\ view'.height = view.height
      BY <2>1, ViewTypes DEF ViewRecords
    <2>3. /\ report'.lines = report.lines /\ report'.styled = report.styled
          /\ report'.drawn = TRUE
          /\ report' = [lines |-> report'.lines, styled |-> report'.styled, drawn |-> report'.drawn]
      BY <2>1, ViewTypes
    <2>4. scroll' \in ScrollRecords /\ Drawn' /\ FoundAtTop'
      BY <2>1, <2>2, <2>3, LimitsAre DEF Drawn, FoundAtTop
    <2>5. MatchIsReal' /\ ReportRecord'
      BY <1>1, <2>3 DEF ViewInv, MatchIsReal, ReportRecord
    <2>6. TuiViewTypeOK'
      BY <1>1, <2>1, <2>2, <2>3, <2>4, ViewTypes DEF TuiViewTypeOK, ScrollRecords, ViewRecords, SearchOf
    <2> QED
      BY <2>1, <2>4, <2>5, <2>6, LimitsAre DEF ViewInv
  <1>3. CASE ~ view.dirty
    <2>1. UNCHANGED <<view, report, scroll, found>>
      BY <1>3 DEF DrawView
    <2> QED
      BY <1>1, <1>3, <2>1, OtherKeeps, ViewTypes DEF ViewRecords
  <1> QED
    BY <1>2, <1>3

LEMMA ResizeKeeps == ASSUME ViewInv, Resize PROVE ViewInv'
  <1>1. PICK height \in Heights : view' = [view EXCEPT !.height = height, !.dirty = TRUE]
    BY DEF Resize
  <1>2. /\ report' = [report EXCEPT !.drawn = FALSE] /\ found' = FALSE
        /\ UNCHANGED <<turn, search, scroll>>
    BY DEF Resize
  <1>3. view' \in ViewRecords
    BY <1>1, ViewTypes DEF ViewRecords
  <1>4. /\ report'.lines = report.lines /\ report'.styled = report.styled /\ report'.drawn = FALSE
        /\ report' = [lines |-> report'.lines, styled |-> report'.styled, drawn |-> report'.drawn]
    BY <1>2, ViewTypes
  <1>5. MatchIsReal' /\ ReportRecord' /\ Drawn' /\ FoundAtTop'
    BY <1>2, <1>4 DEF ViewInv, MatchIsReal, ReportRecord, Drawn, FoundAtTop
  <1> QED
    BY <1>2, <1>3, <1>4, <1>5, ViewTypes DEF ViewInv, TuiViewTypeOK, ViewRecords, SearchOf

LEMMA ScrollKeeps == ASSUME ViewInv, Scroll PROVE ViewInv'
  <1>1. /\ UNCHANGED <<turn, report, search>> /\ found' = FALSE
        /\ view' = [view EXCEPT !.dirty = TRUE]
    BY DEF Scroll, Key, Redraw
  <1>2. PICK amount \in {1, Page, Page \div 2} :
          scroll' \in { [scroll EXCEPT !.at = IF @ > amount THEN @ - amount ELSE 0],
                        [scroll EXCEPT !.at = Clamped(@ + amount, scroll.max)],
                        [scroll EXCEPT !.at = 0],
                        [scroll EXCEPT !.at = scroll.max] }
    BY DEF Scroll
  <1>3. Page \in Nat /\ Page \div 2 \in Nat
    BY ViewTypes DEF Page
  <1>4. amount \in Nat
    BY <1>3
  <1>5. \E at \in Nat : scroll' = [scroll EXCEPT !.at = at]
    <2>1. scroll.at \in Nat /\ scroll.max \in Nat /\ scroll.at + amount \in Nat
          /\ Clamped(scroll.at + amount, scroll.max) \in Nat
          /\ (IF scroll.at > amount THEN scroll.at - amount ELSE 0) \in Nat
      BY <1>4, ViewTypes, ClampedIs
    <2>2. \/ scroll' = [scroll EXCEPT !.at = IF scroll.at > amount THEN scroll.at - amount ELSE 0]
          \/ scroll' = [scroll EXCEPT !.at = Clamped(scroll.at + amount, scroll.max)]
          \/ scroll' = [scroll EXCEPT !.at = 0]
          \/ scroll' = [scroll EXCEPT !.at = scroll.max]
      BY <1>2, ViewTypes
    <2> QED
      BY <2>1, <2>2
  <1>6. view' \in ViewRecords /\ view'.height = view.height
    BY <1>1, ViewTypes DEF ViewRecords
  <1> QED
    BY <1>1, <1>5, <1>6, OtherKeeps, ViewTypes

LEMMA TurnedKeeps ==
  ASSUME ViewInv, turn' = turn, NEW now \in TerminalViews, NEW verbose \in BOOLEAN,
         Turned(now, verbose)
  PROVE  ViewInv'
  <1>1. [search EXCEPT !.current = {}] \in SearchOf(report.lines)
    BY ViewTypes DEF SearchOf
  <1>2. view' = [view EXCEPT !.shown = now, !.verbose = verbose, !.dirty = TRUE]
    BY DEF Turned
  <1>3. view' \in ViewRecords
    BY <1>2, ViewTypes DEF ViewRecords
  <1>4. /\ Rebuild([search EXCEPT !.current = {}], {})
        /\ scroll' = [scroll EXCEPT !.at = 0] /\ found' = FALSE
    BY DEF Turned
  <1> QED
    BY <1>1, <1>3, <1>4, RebuildKeeps, ViewTypes

(* The other keys. *)
LEMMA KeysKeep ==
  ASSUME ViewInv,
         \/ ToggleHelp \/ OpenSearch \/ TypeSearch \/ CancelSearch \/ EnterSearch
         \/ \E reverse \in BOOLEAN : FindMatch(reverse)
         \/ \E shown \in TerminalViews : SwitchTerminalView(shown)
         \/ ToggleVerbose \/ ResetLiveStatistics
  PROVE  ViewInv'
  <1>0. /\ search \in SearchOf(report.lines) /\ view \in ViewRecords
        /\ turn \in {"tick", "draw", "keys"}
        /\ [view EXCEPT !.dirty = TRUE] \in ViewRecords
        /\ [view EXCEPT !.dirty = TRUE].height = view.height
    BY ViewTypes DEF ViewRecords
  <1>1. CASE ToggleHelp
    <2>1. /\ view' = [view EXCEPT !.help = ~@, !.dirty = TRUE]
          /\ UNCHANGED <<turn, report, search, scroll, found>>
      BY <1>1 DEF ToggleHelp
    <2>2. view' \in ViewRecords /\ view'.height = view.height
      BY <1>0, <2>1 DEF ViewRecords
    <2> QED
      BY <1>0, <2>1, <2>2, OtherKeeps
  <1>2. CASE OpenSearch \/ CancelSearch
    <2>1. /\ view' = [view EXCEPT !.dirty = TRUE]
          /\ UNCHANGED <<turn, report, scroll, found>>
          /\ \/ search' = [search EXCEPT !.mode = "Search", !.input = search.query]
             \/ search' = [search EXCEPT !.mode = "Normal", !.input = Blank]
      BY <1>2 DEF OpenSearch, CancelSearch, Key, Redraw
    <2>2. /\ search' \in SearchOf(report.lines) /\ search'.query = search.query
          /\ search'.current = search.current
      BY <1>0, <2>1 DEF SearchOf
    <2> QED
      BY <1>0, <2>1, <2>2, OtherKeeps
  <1>3. CASE TypeSearch
    <2>1. PICK input \in Queries \cup {Blank} : search' = [search EXCEPT !.input = input]
      BY <1>3 DEF TypeSearch
    <2>2. /\ view' = [view EXCEPT !.dirty = TRUE]
          /\ UNCHANGED <<turn, report, scroll, found>>
      BY <1>3 DEF TypeSearch, Key, Redraw
    <2>3. /\ search' \in SearchOf(report.lines) /\ search'.query = search.query
          /\ search'.current = search.current
      BY <1>0, <2>1 DEF SearchOf
    <2> QED
      BY <1>0, <2>2, <2>3, OtherKeeps
  <1>4. CASE EnterSearch
    <2> DEFINE from == [search EXCEPT !.mode = "Normal", !.query = search.input, !.current = {}]
    <2>1. from \in SearchOf(report.lines)
      BY <1>0 DEF SearchOf
    <2>2. turn' = turn /\ view' = [view EXCEPT !.dirty = TRUE] /\ Find(from, FALSE)
      BY <1>4 DEF EnterSearch, Key, Redraw
    <2> HIDE DEF from
    <2> QED
      BY <2>1, <2>2, FindKeeps
  <1>5. ASSUME NEW reverse \in BOOLEAN, FindMatch(reverse) PROVE ViewInv'
    <2>1. turn' = turn /\ view' = [view EXCEPT !.dirty = TRUE] /\ Find(search, reverse)
      BY <1>5 DEF FindMatch, Key, Redraw
    <2> QED
      BY <1>0, <2>1, FindKeeps
  <1>6. ASSUME NEW now \in TerminalViews, SwitchTerminalView(now) PROVE ViewInv'
    <2>1. CASE now = view.shown /\ ~view.verbose
      <3>1. /\ view' = [view EXCEPT !.dirty = TRUE]
            /\ UNCHANGED <<turn, report, search, scroll, found>>
        BY <1>6, <2>1 DEF SwitchTerminalView, Key, Redraw
      <3> QED
        BY <1>0, <3>1, OtherKeeps
    <2>2. CASE ~ (now = view.shown /\ ~view.verbose)
      <3>1. turn' = turn /\ Turned(now, FALSE)
        BY <1>6, <2>2 DEF SwitchTerminalView, Key
      <3> QED
        BY <3>1, TurnedKeeps
    <2> QED
      BY <2>1, <2>2
  <1>7. CASE ToggleVerbose
    <2>1. turn' = turn /\ Turned(view.shown, ~view.verbose)
      BY <1>7 DEF ToggleVerbose, Key
    <2>2. view.shown \in TerminalViews /\ (~view.verbose) \in BOOLEAN
      BY <1>0 DEF ViewRecords
    <2> QED
      BY <2>1, <2>2, TurnedKeeps
  <1>8. CASE ResetLiveStatistics
    <2> DEFINE at == Clamped(scroll.at, scroll.max)
    <2>1. at \in Nat
      BY ViewTypes, ClampedIs
    <2>2. /\ turn' = turn /\ Rebuild(search, search.current) /\ found' = FALSE
          /\ scroll' = [scroll EXCEPT !.at = at] /\ view' = [view EXCEPT !.dirty = TRUE]
      BY <1>8, ViewTypes DEF ResetLiveStatistics, Key, Redraw
    <2> HIDE DEF at
    <2> QED
      BY <1>0, <2>1, <2>2, RebuildKeeps
  <1> QED
    BY <1>1, <1>2, <1>3, <1>4, <1>5, <1>6, <1>7, <1>8

LEMMA ViewInductive == ASSUME ViewInv, [TuiViewNext]_tuiViewVars PROVE ViewInv'
  <1>1. CASE UNCHANGED tuiViewVars
    BY <1>1, OtherKeeps, ViewTypes DEF tuiViewVars, ViewRecords
  <1>2. CASE KeysEnd
    BY <1>2, OtherKeeps, ViewTypes DEF KeysEnd, ViewRecords
  <1> QED
    BY <1>1, <1>2, TickViewKeeps, DrawKeeps, ResizeKeeps, ScrollKeeps, KeysKeep DEF TuiViewNext

LEMMA ViewStarts == TuiViewInit => ViewInv
  <1> SUFFICES ASSUME TuiViewInit PROVE ViewInv
    OBVIOUS
  <1>1. PICK lines \in Reports :
          report = [lines |-> lines, styled |-> Styled(lines, Blank, {}), drawn |-> FALSE]
    BY DEF TuiViewInit
  <1> DEFINE styled == Styled(lines, Blank, {})
  <1>2. styled = Styled(lines, Blank, {})
    OBVIOUS
  <1> HIDE DEF styled
  <1>3. /\ report.lines = lines /\ report.styled = styled /\ report.drawn = FALSE
        /\ report = [lines |-> report.lines, styled |-> report.styled, drawn |-> report.drawn]
    BY <1>1 DEF styled
  <1>4. search = [mode |-> "Normal", input |-> Blank, query |-> Blank, current |-> {}]
    BY DEF TuiViewInit
  <1>5. search \in SearchOf(lines) /\ search.query = Blank /\ search.current = {}
    BY <1>4 DEF SearchOf
  <1>6. scroll \in ScrollRecords /\ view \in ViewRecords /\ turn = "tick" /\ found = FALSE
    <2>1. scroll \in ScrollRecords /\ turn = "tick" /\ found = FALSE
      BY DEF TuiViewInit, ScrollRecords
    <2>2. view \in [shown : TerminalViews, verbose : BOOLEAN, help : {FALSE},
                   dirty : {TRUE}, height : Heights]
      BY DEF TuiViewInit
    <2>3. view \in ViewRecords
      BY <2>2 DEF ViewRecords
    <2> QED
      BY <2>1, <2>3
  <1>7. MatchIsReal
    BY <1>2, <1>3, <1>5 DEF MatchIsReal
  <1> QED
    BY <1>3, <1>5, <1>6, <1>7
       DEF ViewInv, TuiViewTypeOK, ReportRecord, Drawn, FoundAtTop, SearchOf, ScrollRecords,
           ViewRecords

(* A match that was found is in the next drawing, however the report is    *)
(* scrolled and the window resized in between.                             *)
LEMMA ViewVisible ==
  ASSUME ViewInv, TuiViewNext
  PROVE  MatchVisible
  <1> SUFFICES ASSUME turn = "draw", found, view.dirty
               PROVE  search.current \subseteq Window(scroll')
    BY DEF MatchVisible
  <1>1. DrawView
    BY DEF TuiViewNext, TickView, KeysEnd, Resize, ToggleHelp, Scroll, OpenSearch, TypeSearch,
           CancelSearch, EnterSearch, FindMatch, SwitchTerminalView, ToggleVerbose,
           ResetLiveStatistics, Key
  <1> QED
    BY <1>1, DrawKeeps

-----------------------------------------------------------------------------
(* SensorTable *)

(* A label is bound to a row state exactly while its item is there, and    *)
(* then says what that row does; only one kind of rows is selected.        *)
OneKind(selected) ==
    Cardinality(selected) > 1 => selected \cap Sections = {} \/ selected \cap SensorIds = {}

TableInv ==
    /\ ToSet(store) \subseteq Sections \cup SensorIds /\ IsFiniteSet(ToSet(store))
    /\ DOMAIN row = ToSet(store) /\ DOMAIN bound = ToSet(store)
    /\ item \in [Labels -> ToSet(store) \cup {Free}]
    /\ DOMAIN label = Labels
    /\ \A id \in ToSet(store) : \A l \in Labels : l \in bound[id] <=> item[l] = id
    /\ \A l, k \in Labels : item[l] = item[k] => l = k \/ item[l] = Free
    /\ \A l \in Labels : item[l] # Free => label[l] = <<item[l], row[item[l]]>>
    /\ selection \subseteq ToSet(store)
    /\ OneKind(selection)

LEMMA LayoutsAre ==
  ASSUME NEW layout \in Layouts
  PROVE  /\ ToSet(layout) \subseteq Sections \cup SensorIds
         /\ IsFiniteSet(ToSet(layout))
         /\ layout # <<>> => layout[1] \in ToSet(layout)
  <1>1. layout \in Seq(Sections \cup SensorIds)
    BY TableAssumption DEF TableAssumption
  <1>2. DOMAIN layout = 1 .. Len(layout) /\ Len(layout) \in Nat
    BY <1>1
  <1>3. IsFiniteSet({ layout[i] : i \in DOMAIN layout })
    <2> DEFINE n == Len(layout)
               ids == { layout[i] : i \in 1 .. n }
    <2>1. IsFiniteSet(1 .. n)
      BY <1>2, FS_Interval
    <2>2. layout \in Surjection(1 .. n, ids)
      BY <1>1 DEF Surjection
    <2>3. IsFiniteSet(ids)
      <3> HIDE DEF n, ids
      <3> QED
        BY <2>1, <2>2, FS_Surjection
    <2> QED
      BY <1>2, <2>3
  <1>4. ToSet(layout) = { layout[i] : i \in DOMAIN layout }
    BY DEF ToSet
  <1>5. ToSet(layout) \subseteq Sections \cup SensorIds
    BY <1>1, <1>4
  <1>6. layout # <<>> => layout[1] \in ToSet(layout)
    BY <1>1, <1>4
  <1> QED
    BY <1>3, <1>4, <1>5, <1>6

(* Where a section and a sensor were selected together only sensors stay.  *)
LEMMA SanitizedIs ==
  ASSUME NEW selected
  PROVE  Sanitized(selected) \subseteq selected /\ OneKind(Sanitized(selected))
  BY TableAssumption DEF Sanitized, OneKind, TableAssumption

LEMMA OneRow ==
  ASSUME NEW id
  PROVE  OneKind({id})
  <1>1. Cardinality({id}) = 1
    BY FS_Singleton
  <1> QED
    BY <1>1 DEF OneKind

(* A part of a selection of one kind is of that kind. *)
LEMMA PartOfKind ==
  ASSUME NEW selected, IsFiniteSet(selected), OneKind(selected), NEW part1 \in SUBSET selected
  PROVE  OneKind(part1)
  <1>1. IsFiniteSet(part1) /\ Cardinality(part1) <= Cardinality(selected)
    BY FS_Subset
  <1>2. Cardinality(part1) \in Nat /\ Cardinality(selected) \in Nat
    BY <1>1, FS_CardinalityType
  <1> QED
    BY <1>1, <1>2 DEF OneKind

LEMMA TableInductive == ASSUME TableInv, [TableNext]_tableVars PROVE TableInv'
  <1>0. /\ ToSet(store) \subseteq Sections \cup SensorIds /\ IsFiniteSet(ToSet(store))
        /\ DOMAIN row = ToSet(store) /\ DOMAIN bound = ToSet(store)
        /\ item \in [Labels -> ToSet(store) \cup {Free}]
        /\ DOMAIN label = Labels
        /\ \A id \in ToSet(store) : \A l \in Labels : l \in bound[id] <=> item[l] = id
        /\ \A l, k \in Labels : item[l] = item[k] => l = k \/ item[l] = Free
        /\ \A l \in Labels : item[l] # Free => label[l] = <<item[l], row[item[l]]>>
        /\ selection \subseteq ToSet(store)
        /\ OneKind(selection)
        /\ Free \notin ToSet(store)
    BY TableAssumption DEF TableInv, TableAssumption
  <1>1. ASSUME UNCHANGED <<store, row, bound, label, item>>,
               selection' \subseteq ToSet(store), OneKind(selection')
        PROVE  TableInv'
    BY <1>0, <1>1 DEF TableInv, OneKind
  <1>2. CASE Select \/ ClearSelection
    <2>1. CASE Select
      BY <1>1, <2>1, SanitizedIs DEF Select
    <2>2. CASE ClearSelection
      <3>1. OneKind({})
        BY DEF OneKind
      <3> QED
        BY <1>1, <2>2, <3>1 DEF ClearSelection
    <2> QED
      BY <1>2, <2>1, <2>2
  <1>3. CASE ContextClick
    <2>1. PICK id \in ToSet(store) : selection' = selection \/ selection' = {id}
      BY <1>3 DEF ContextClick
    <2>2. UNCHANGED <<store, row, bound, label, item>>
      BY <1>3 DEF ContextClick
    <2>3. selection' \subseteq ToSet(store) /\ OneKind(selection')
      <3>1. CASE selection' = selection
        BY <1>0, <3>1 DEF OneKind
      <3>2. CASE selection' = {id}
        BY <3>2, OneRow
      <3> QED
        BY <2>1, <3>1, <3>2
    <2> QED
      BY <1>1, <2>2, <2>3
  <1>4. ASSUME NEW l \in Labels, Unbind(l) PROVE TableInv'
    <2> DEFINE id == item[l]
    <2>1. /\ id \in ToSet(store) /\ bound' = [bound EXCEPT ![id] = {}]
          /\ item' = [item EXCEPT ![l] = Free]
          /\ UNCHANGED <<store, row, label, selection>>
      BY <1>0, <1>4 DEF Unbind
    <2>2. item' \in [Labels -> ToSet(store) \cup {Free}] /\ DOMAIN bound' = ToSet(store)
      BY <1>0, <2>1
    <2>3. \A k \in ToSet(store) : \A m \in Labels : m \in bound'[k] <=> item'[m] = k
      <3> SUFFICES ASSUME NEW k \in ToSet(store), NEW m \in Labels
                   PROVE  m \in bound'[k] <=> item'[m] = k
        OBVIOUS
      <3>1. CASE k = id
        BY <1>0, <2>1, <3>1
      <3>2. CASE k # id
        BY <1>0, <2>1, <3>2
      <3> QED
        BY <3>1, <3>2
    <2>4. \A m \in Labels : item'[m] # Free => label'[m] = <<item'[m], row'[item'[m]]>>
      BY <1>0, <2>1
    <2> QED
      BY <1>0, <2>1, <2>2, <2>3, <2>4 DEF TableInv
  <1>5. ASSUME NEW l \in Labels, NEW id \in ToSet(store), Bind(l, id) PROVE TableInv'
    BY <1>0, <1>5 DEF Bind, TableInv
  <1>6. ASSUME NEW layout \in Layouts, NEW says \in [ToSet(layout) -> Values],
               layout = store, UpdateRows(says)
        PROVE  TableInv'
    BY <1>0, <1>6 DEF UpdateRows, TableInv
  <1>7. ASSUME NEW layout \in Layouts, NEW says \in [ToSet(layout) -> Values],
               ReplaceTopology(layout, says)
        PROVE  TableInv'
    <2>1. /\ store' = layout /\ row' = says /\ bound' = [id \in DOMAIN says |-> {}]
          /\ item' = [l \in Labels |-> Free] /\ selection' = Kept(layout, selection)
          /\ label' = label
      BY <1>7 DEF ReplaceTopology
    <2>2. selection' \subseteq ToSet(store') /\ OneKind(selection')
      <3>1. CASE selection = {} /\ layout # <<>>
        <4>1. selection' = {layout[1]}
          BY <2>1, <3>1 DEF Kept
        <4> QED
          BY <2>1, <3>1, <4>1, LayoutsAre, OneRow
      <3>2. CASE ~ (selection = {} /\ layout # <<>>)
        <4>1. selection' = selection \cap ToSet(layout)
          BY <2>1, <3>2 DEF Kept
        <4>2. IsFiniteSet(selection) /\ selection \cap ToSet(layout) \in SUBSET selection
          BY <1>0, FS_Subset
        <4>3. OneKind(selection \cap ToSet(layout))
          BY <1>0, <4>2, PartOfKind
        <4> QED
          BY <2>1, <4>1, <4>3
      <3> QED
        BY <3>1, <3>2
    <2>3. /\ DOMAIN row' = ToSet(store') /\ DOMAIN bound' = ToSet(store')
          /\ \A l \in Labels : item'[l] = Free
          /\ item' \in [Labels -> ToSet(store') \cup {Free}]
          /\ \A id \in ToSet(store') : bound'[id] = {}
      BY <2>1
    <2>4. /\ ToSet(store') \subseteq Sections \cup SensorIds /\ IsFiniteSet(ToSet(store'))
          /\ Free \notin ToSet(store') /\ DOMAIN label' = Labels
      BY <1>0, <2>1, LayoutsAre, TableAssumption DEF TableAssumption
    <2>5. \A id \in ToSet(store') : \A l \in Labels : l \in bound'[id] <=> item'[l] = id
      BY <2>3, <2>4
    <2> QED
      BY <2>2, <2>3, <2>4, <2>5 DEF TableInv
  <1>8. CASE UNCHANGED tableVars
    BY <1>0, <1>8 DEF TableInv, tableVars
  <1> QED
    BY <1>2, <1>3, <1>4, <1>5, <1>6, <1>7, <1>8 DEF TableNext, SyncRows

LEMMA TableStarts == TableInit => TableInv
  <1> SUFFICES ASSUME TableInit PROVE TableInv
    OBVIOUS
  <1>1. /\ store = <<>> /\ row = <<>> /\ bound = <<>> /\ label \in [Labels -> {<<>>}]
        /\ item = [l \in Labels |-> Free] /\ selection = {}
    BY DEF TableInit
  <1>2. ToSet(store) = {} /\ DOMAIN row = {} /\ DOMAIN bound = {}
    BY <1>1 DEF ToSet
  <1>3. IsFiniteSet(ToSet(store)) /\ OneKind(selection)
    BY <1>1, <1>2, FS_EmptySet DEF OneKind
  <1> QED
    BY <1>1, <1>2, <1>3 DEF TableInv

LEMMA TableIsTrue == TableInv => TableTrue
  BY DEF TableInv, TableTrue, OneKind

LEMMA SelectionStays ==
  ASSUME TableNext
  PROVE  SelectionKept
  BY DEF TableNext, Select, ContextClick, ClearSelection, SyncRows, UpdateRows, ReplaceTopology,
         Kept, Unbind, Bind, SelectionKept

-----------------------------------------------------------------------------
(* HardwarePage *)

(* The details are those of the device that is selected, whose widgets     *)
(* they are in.                                                            *)
PageInv ==
    /\ inventory = {} \/ \E devices \in Inventories : inventory = {devices}
    /\ inventory = {} => listed = <<>> /\ chosen = {}
    /\ \A devices \in inventory : listed = Navigation(devices, find)
    /\ \/ /\ chosen = {} /\ listed = <<>> /\ rendered = {} /\ details \in {Start, Nothing}
       \/ /\ \E i \in DOMAIN listed : chosen = {listed[i].id}
          /\ rendered = {details} /\ details \in PageDevice
    /\ \A devices \in inventory : \A i \in DOMAIN devices :
          devices[i].id \in chosen => details = devices[i]

(* The list of the page is a sequence: with any device it has a first one. *)
LEMMA NavigationIs ==
  ASSUME NEW devices \in Inventories, NEW q
  PROVE  Navigation(devices, q) # <<>> => 1 \in DOMAIN Navigation(devices, q)
  <1> DEFINE kept == { i \in DOMAIN devices : q \in {AnyText, devices[i].title, devices[i].value} }
             n == Cardinality(kept)
             matching == MatchingDevices(devices, q)
             rows == Navigation(devices, q)
  <1>1. devices \in Seq(PageDevice)
    BY InventoryAssumption DEF InventoryAssumption
  <1>2. IsFiniteSet(kept)
    <2>1. IsFiniteSet(DOMAIN devices)
      BY <1>1, FS_Interval
    <2> QED
      BY <2>1, FS_Subset
  <1>3. n \in Nat
    BY <1>2, FS_CardinalityType
  <1>4. DOMAIN matching = 1 .. n
    BY DEF MatchingDevices
  <1>5. DOMAIN rows = 1 .. n
    <2>1. DOMAIN rows = DOMAIN matching
      BY DEF Navigation
    <2> QED
      BY <1>4, <2>1
  <1>6. n = 0 => rows = <<>>
    <2>1. rows = [i \in DOMAIN matching |-> [id |-> matching[i].id, title |-> matching[i].title]]
      BY DEF Navigation
    <2> HIDE DEF rows, matching, n
    <2> QED
      BY <1>4, <2>1
  <1> HIDE DEF rows, n
  <1>7. rows # <<>> => 1 \in DOMAIN rows
    BY <1>3, <1>5, <1>6
  <1> QED
    BY <1>7 DEF rows

LEMMA WithIs ==
  ASSUME NEW devices \in Inventories, NEW id, NEW device \in With(devices, id)
  PROVE  /\ device \in PageDevice /\ device.id = id
         /\ \A i \in DOMAIN devices : devices[i].id = id => devices[i] = device
  BY InventoryAssumption DEF InventoryAssumption, With

(* A device is selected and its details are shown. *)
LEMMA ChosenKeeps ==
  ASSUME NEW devices \in Inventories, inventory' = {devices}, listed' = Navigation(devices, find'),
         NEW i \in DOMAIN listed', chosen' = {listed'[i].id},
         NEW device \in With(devices, listed'[i].id),
         details' = device, rendered' = {device}
  PROVE  PageInv'
  <1>1. /\ device \in PageDevice /\ \A j \in DOMAIN devices :
              devices[j].id = listed'[i].id => devices[j] = device
    BY WithIs
  <1> QED
    BY <1>1 DEF PageInv

LEMMA RebuildsPage ==
  ASSUME PageInv, NEW devices \in Inventories, inventory' = {devices}, NEW q, find' = q,
         RebuildNavigation(devices, q)
  PROVE  PageInv'
  <1> DEFINE rows == Navigation(devices, q)
             ids == { rows[i].id : i \in DOMAIN rows }
             target == IF chosen \cap ids # {} THEN CHOOSE id \in chosen : TRUE ELSE rows[1].id
  <1>1. CASE rows = <<>>
    <2>1. listed' = rows /\ chosen' = {} /\ rendered' = {} /\ details' = Nothing
      BY <1>1 DEF RebuildNavigation
    <2> QED
      BY <1>1, <2>1 DEF PageInv
  <1>2. CASE rows # <<>>
    <2>1. listed' = rows /\ chosen' = {target} /\ \E device \in With(devices, target) : RenderDevice(device)
      BY <1>2 DEF RebuildNavigation
    <2>2. 1 \in DOMAIN rows
      BY <1>2, NavigationIs
    <2>3. PICK i \in DOMAIN rows : target = rows[i].id
      <3>1. CASE chosen \cap ids # {}
        <4>1. target \in chosen /\ \A x, y \in chosen : x = y
          BY <3>1 DEF PageInv
        <4>2. target \in ids
          BY <3>1, <4>1
        <4> QED
          BY <4>2
      <3>2. CASE chosen \cap ids = {}
        BY <2>2, <3>2
      <3> QED
        BY <3>1, <3>2
    <2>4. PICK device \in With(devices, target) : RenderDevice(device)
      BY <2>1
    <2> HIDE DEF target, rows
    <2> QED
      BY <2>1, <2>3, <2>4, ChosenKeeps DEF RenderDevice, rows
  <1> QED
    BY <1>1, <1>2

LEMMA PageInductive == ASSUME PageInv, [PageNext]_pageVars PROVE PageInv'
  <1>1. CASE SyncInventory
    <2>1. PICK devices \in Inventories :
            /\ inventory' = {devices}
            /\ IF listed # Navigation(devices, find)
               THEN RebuildNavigation(devices, find)
               ELSE /\ \A id \in chosen : \E device \in With(devices, id) : UpdateOrRender(device)
                    /\ chosen = {} => UNCHANGED <<rendered, details>>
                    /\ UNCHANGED <<listed, chosen>>
      BY <1>1 DEF SyncInventory
    <2>2. find' = find
      BY <1>1 DEF SyncInventory
    <2>3. CASE listed # Navigation(devices, find)
      BY <2>1, <2>2, <2>3, RebuildsPage
    <2>4. CASE listed = Navigation(devices, find)
      <3>1. listed' = listed /\ chosen' = chosen /\ listed' = Navigation(devices, find')
        BY <2>1, <2>2, <2>4
      <3>2. CASE chosen = {}
        <4>1. UNCHANGED <<rendered, details>>
          BY <2>1, <2>4, <3>2
        <4> QED
          BY <2>1, <3>1, <3>2, <4>1 DEF PageInv
      <3>3. CASE chosen # {}
        <4>1. PICK i \in DOMAIN listed : chosen = {listed[i].id}
          BY <3>3 DEF PageInv
        <4>2. rendered = {details} /\ details \in PageDevice
          BY <3>3 DEF PageInv
        <4>3. PICK device \in With(devices, listed[i].id) : UpdateOrRender(device)
          BY <2>1, <2>4, <4>1
        <4>4. device \in PageDevice
          BY WithIs
        <4>5. details' = device /\ rendered' = {device}
          <5>1. CASE SameStatic(details, device)
            <6>1. details' = [details EXCEPT !.value = device.value] /\ rendered' = {device}
              BY <4>2, <4>3, <5>1 DEF UpdateOrRender, UpdateDetailLabels
            <6>2. [details EXCEPT !.value = device.value] = device
              BY <4>2, <4>4, <5>1 DEF SameStatic, PageDevice
            <6> QED
              BY <6>1, <6>2
          <5>2. CASE ~ SameStatic(details, device)
            BY <4>2, <4>3, <5>2 DEF UpdateOrRender, RenderDevice
          <5> QED
            BY <5>1, <5>2
        <4> QED
          BY <2>1, <3>1, <4>1, <4>3, <4>5, ChosenKeeps
      <3> QED
        BY <3>2, <3>3
    <2> QED
      BY <2>3, <2>4
  <1>2. CASE SetPageQuery
    <2>1. PICK q : /\ find' = q /\ inventory' = inventory
                   /\ IF inventory = {} THEN UNCHANGED <<listed, chosen, rendered, details>>
                      ELSE \E devices \in inventory : RebuildNavigation(devices, q)
      BY <1>2 DEF SetPageQuery
    <2>2. CASE inventory = {}
      BY <2>1, <2>2 DEF PageInv
    <2>3. CASE inventory # {}
      <3>1. PICK devices \in Inventories : inventory = {devices}
        BY <2>3 DEF PageInv
      <3>2. RebuildNavigation(devices, q)
        BY <2>1, <2>3, <3>1
      <3> QED
        BY <2>1, <3>1, <3>2, RebuildsPage
    <2> QED
      BY <2>2, <2>3
  <1>3. CASE SelectDevice
    <2>1. PICK i \in DOMAIN listed :
            /\ chosen' = {listed[i].id}
            /\ \E devices \in inventory :
                  \E device \in With(devices, listed[i].id) : RenderDevice(device)
      BY <1>3 DEF SelectDevice
    <2>2. UNCHANGED <<inventory, find, listed>>
      BY <1>3 DEF SelectDevice
    <2>3. PICK devices \in inventory :
            \E device \in With(devices, listed[i].id) : RenderDevice(device)
      BY <2>1
    <2>4. devices \in Inventories /\ inventory = {devices} /\ listed = Navigation(devices, find)
      BY <2>3 DEF PageInv
    <2>5. PICK device \in With(devices, listed[i].id) : RenderDevice(device)
      BY <2>3
    <2> QED
      BY <2>1, <2>2, <2>4, <2>5, ChosenKeeps DEF RenderDevice
  <1>4. CASE UNCHANGED pageVars
    BY <1>4 DEF PageInv, pageVars
  <1> QED
    BY <1>1, <1>2, <1>3, <1>4 DEF PageNext

LEMMA PageStarts == PageInit => PageInv
  BY DEF PageInit, PageInv

LEMMA PageIsTrue == PageInv => PageTrue
  <1> SUFFICES ASSUME PageInv, NEW devices \in inventory
               PROVE  /\ listed = Navigation(devices, find)
                      /\ \A i \in DOMAIN devices : devices[i].id \in chosen => details = devices[i]
                      /\ chosen \subseteq { listed[i].id : i \in DOMAIN listed }
                      /\ IF chosen = {} THEN listed = <<>> /\ details \in {Start, Nothing}
                         ELSE listed # <<>>
    BY DEF PageTrue
  <1>1. DOMAIN <<>> = {}
    OBVIOUS
  <1> QED
    BY <1>1 DEF PageInv

-----------------------------------------------------------------------------
(* MainWindow.  Each function of the handlers is described by what it      *)
(* makes of any state of the window.                                       *)

Gui == [mapped : BOOLEAN, gone : BOOLEAN, view : Views, entry : Texts,
        settling : BOOLEAN, query : [Views -> Texts], shown : [Views -> Texts],
        behind : SUBSET (Views \cup {"status"}), timed : {"none", "on", "over"},
        details : SUBSET (DetailSensors \cup Drives), asked : SUBSET Drives]

(* The text of the view is the entry's, once it has settled, and that of   *)
(* the page also what it was made with; the page in view is never behind.  *)
TextTrue(g) ==
    /\ ~g.settling => g.entry = g.query[g.view]
    /\ g.view = "hardware" => g.shown["hardware"] = g.query["hardware"]

ViewTrue(g) ==
    g.mapped => /\ ~g.settling => g.view \notin g.behind /\ g.shown[g.view] = g.query[g.view]
                /\ g.view = "hardware" => "hardware" \notin g.behind

StatusTrue(g) == g.mapped /\ g.timed # "over" => "status" \notin g.behind

Seen(g) == g.asked \subseteq g.details \/ (g.mapped /\ g.view = "hardware")

WindowInv == gui \in Gui /\ TextTrue(gui) /\ ViewTrue(gui) /\ StatusTrue(gui) /\ Seen(gui)

(* What stays of the state when views are brought up to date.              *)
SameText(g, h) ==
    /\ h.mapped = g.mapped /\ h.view = g.view /\ h.entry = g.entry /\ h.settling = g.settling
    /\ h.query = g.query /\ h.timed = g.timed /\ h.details = g.details /\ h.asked = g.asked

LEMMA UpdateStatusIs ==
  ASSUME NEW g \in Gui
  PROVE  LET h == UpdateStatus(g)
         IN /\ h \in Gui /\ SameText(g, h) /\ h.shown = g.shown
            /\ h.behind = IF g.mapped THEN g.behind \ {"status"} ELSE g.behind
  BY DEF Gui, UpdateStatus, SameText

LEMMA BehindIs ==
  ASSUME NEW g \in Gui, NEW parts \in SUBSET Everything
  PROVE  LET h == Behind(g, parts)
         IN /\ h \in Gui /\ SameText(g, h) /\ h.shown = g.shown
            /\ h.behind = g.behind \cup parts
  BY DEF Gui, Behind, SameText, Everything

LEMMA RebuildRowsIs ==
  ASSUME NEW g \in Gui
  PROVE  LET h == RebuildRows(g)
         IN /\ h \in Gui /\ SameText(g, h)
            /\ g.mapped => /\ h.shown["sensors"] = g.query["sensors"]
                           /\ h.behind = g.behind \ {"sensors", "status"}
            /\ ~g.mapped => h = g
            /\ h.shown["hardware"] = g.shown["hardware"]
  <1> DEFINE rows == [g EXCEPT !.behind = @ \ {"sensors"}, !.shown.sensors = g.query.sensors]
  <1>1. "sensors" \in Views /\ "hardware" \in Views
    BY DEF Views
  <1>2. /\ g.query \in [Views -> Texts] /\ g.shown \in [Views -> Texts]
        /\ g.query.sensors \in Texts
    BY <1>1 DEF Gui
  <1> DEFINE shown == [g.shown EXCEPT !["sensors"] = g.query["sensors"]]
  <1>3. rows = [g EXCEPT !.behind = g.behind \ {"sensors"}, !.shown = shown]
    BY DEF Gui
  <1>4. /\ shown \in [Views -> Texts] /\ shown["sensors"] = g.query["sensors"]
        /\ shown["hardware"] = g.shown["hardware"]
    BY <1>1, <1>2
  <1> HIDE DEF shown, rows
  <1>5. /\ rows \in Gui /\ SameText(g, rows) /\ rows.shown = shown
        /\ rows.behind = g.behind \ {"sensors"}
    BY <1>3, <1>4 DEF Gui, SameText
  <1>6. CASE g.mapped
    <2>1. RebuildRows(g) = UpdateStatus(rows)
      BY <1>6 DEF RebuildRows, rows
    <2>2. /\ UpdateStatus(rows) \in Gui /\ SameText(rows, UpdateStatus(rows))
          /\ UpdateStatus(rows).shown = rows.shown
          /\ UpdateStatus(rows).behind = rows.behind \ {"status"}
      BY <1>5, <1>6, UpdateStatusIs DEF SameText
    <2>3. rows.behind \ {"status"} = g.behind \ {"sensors", "status"}
      BY <1>5
    <2> QED
      BY <1>4, <1>5, <1>6, <2>1, <2>2, <2>3 DEF SameText
  <1>7. CASE ~ g.mapped
    <2>1. RebuildRows(g) = g
      BY <1>7 DEF RebuildRows
    <2> QED
      BY <1>7, <2>1 DEF SameText
  <1> QED
    BY <1>6, <1>7

LEMMA SyncHardwareIs ==
  ASSUME NEW g \in Gui
  PROVE  LET h == SyncHardware(g)
         IN /\ h \in Gui /\ SameText(g, h) /\ h.shown = g.shown
            /\ h.behind = IF g.mapped THEN g.behind \ {"hardware"} ELSE g.behind
  BY DEF Gui, SyncHardware, SameText

(* The view that is active is brought up to date with the status.          *)
LEMMA SyncActiveIs ==
  ASSUME NEW g \in Gui, TextTrue(g)
  PROVE  LET h == SyncActiveView(g)
         IN /\ h \in Gui /\ SameText(g, h) /\ TextTrue(h) /\ ViewTrue(h) /\ StatusTrue(h)
  <1> DEFINE h == SyncActiveView(g)
  <1>1. CASE ~ g.mapped
    BY <1>1 DEF SyncActiveView, SameText, ViewTrue, StatusTrue
  <1>2. CASE g.mapped /\ g.view = "hardware"
    <2> DEFINE k == SyncHardware(g)
    <2>1. h = UpdateStatus(k)
      BY <1>2 DEF SyncActiveView
    <2>2. k \in Gui /\ SameText(g, k) /\ k.shown = g.shown /\ k.behind = g.behind \ {"hardware"}
      BY <1>2, SyncHardwareIs
    <2> HIDE DEF k
    <2>3. /\ h \in Gui /\ SameText(k, h) /\ h.shown = k.shown
          /\ h.behind = IF k.mapped THEN k.behind \ {"status"} ELSE k.behind
      BY <2>1, <2>2, UpdateStatusIs
    <2> HIDE DEF h
    <2> QED
      BY <1>2, <2>2, <2>3 DEF SameText, TextTrue, ViewTrue, StatusTrue, h
  <1>3. CASE g.mapped /\ g.view # "hardware"
    <2>1. h = RebuildRows(g) /\ g.view = "sensors"
      BY <1>3 DEF SyncActiveView, Gui, Views
    <2>2. /\ h \in Gui /\ SameText(g, h)
          /\ h.shown["sensors"] = g.query["sensors"] /\ h.behind = g.behind \ {"sensors", "status"}
      BY <1>3, <2>1, RebuildRowsIs
    <2> HIDE DEF h
    <2> QED
      BY <1>3, <2>1, <2>2 DEF SameText, TextTrue, ViewTrue, StatusTrue, h
  <1> QED
    BY <1>1, <1>2, <1>3

(* The text of the view in view has settled. *)
LEMMA SearchChangedIs ==
  ASSUME NEW g \in Gui
  PROVE  LET h == SearchChanged(g)
         IN /\ h \in Gui /\ TextTrue(h)
            /\ (g.view = "hardware" /\ g.mapped => "hardware" \notin g.behind) => ViewTrue(h)
            /\ h.mapped = g.mapped /\ h.view = g.view /\ h.entry = g.entry
            /\ h.timed = g.timed /\ h.details = g.details /\ h.asked = g.asked
            /\ StatusTrue(h)
            /\ h.query[g.view] = g.entry /\ ~h.settling
            /\ h.behind \subseteq g.behind
  <1> DEFINE h == SearchChanged(g)
             query == [g.query EXCEPT ![g.view] = g.entry]
             typed == [g EXCEPT !.settling = FALSE, !.query[g.view] = g.entry]
  <1>1. /\ g.view \in Views /\ g.entry \in Texts /\ g.query \in [Views -> Texts]
        /\ g.shown \in [Views -> Texts] /\ "hardware" \in Views /\ "sensors" \in Views
        /\ g.mapped \in BOOLEAN
    BY DEF Gui, Views
  <1>2. typed = [g EXCEPT !.settling = FALSE, !.query = query]
    BY DEF Gui
  <1>3. query \in [Views -> Texts] /\ query[g.view] = g.entry
    BY <1>1
  <1> HIDE DEF query, typed
  <1>4. /\ typed \in Gui /\ typed.settling = FALSE /\ typed.query = query
        /\ typed.mapped = g.mapped /\ typed.view = g.view /\ typed.entry = g.entry
        /\ typed.timed = g.timed /\ typed.details = g.details /\ typed.asked = g.asked
        /\ typed.shown = g.shown /\ typed.behind = g.behind
    BY <1>2, <1>3 DEF Gui
  <1>5. CASE g.view = "hardware"
    <2> DEFINE k == [typed EXCEPT !.shown.hardware = g.entry]
               shown == [g.shown EXCEPT !["hardware"] = g.entry]
    <2>1. k = [typed EXCEPT !.shown = shown]
      BY <1>4 DEF Gui
    <2>2. shown \in [Views -> Texts] /\ shown["hardware"] = g.entry
      BY <1>1
    <2>3. h = UpdateStatus(k)
      BY <1>5 DEF SearchChanged, typed
    <2> HIDE DEF k, shown
    <2>4. k \in Gui /\ SameText(typed, k) /\ k.shown = shown /\ k.behind = g.behind
      BY <1>4, <2>1, <2>2 DEF Gui, SameText
    <2>5. /\ h \in Gui /\ SameText(k, h) /\ h.shown = k.shown
          /\ h.behind = IF k.mapped THEN k.behind \ {"status"} ELSE k.behind
      BY <2>3, <2>4, UpdateStatusIs
    <2> HIDE DEF h
    <2> QED
      BY <1>3, <1>4, <1>5, <2>2, <2>4, <2>5 DEF SameText, TextTrue, ViewTrue, StatusTrue, h
  <1>6. CASE g.view # "hardware"
    <2>1. g.view = "sensors" /\ h = RebuildRows(typed)
      BY <1>1, <1>6 DEF SearchChanged, typed, Views
    <2>2. /\ h \in Gui /\ SameText(typed, h)
          /\ typed.mapped => /\ h.shown["sensors"] = typed.query["sensors"]
                             /\ h.behind = typed.behind \ {"sensors", "status"}
          /\ ~typed.mapped => h = typed
      BY <1>4, <2>1, RebuildRowsIs
    <2> HIDE DEF h
    <2> QED
      BY <1>3, <1>4, <1>6, <2>1, <2>2 DEF SameText, TextTrue, ViewTrue, StatusTrue, h
  <1> QED
    BY <1>5, <1>6

LEMMA SetTextIs ==
  ASSUME NEW g \in Gui, NEW text \in Texts, g.mapped
  PROVE  LET h == SetText(g, text)
         IN /\ h \in Gui
            /\ h.mapped = g.mapped /\ h.view = g.view /\ h.entry = text
            /\ h.timed = g.timed /\ h.details = g.details /\ h.asked = g.asked
            /\ h.behind \subseteq g.behind
            /\ \/ /\ TextTrue(h) /\ ~h.settling /\ h.query[g.view] = text
                  /\ (g.view = "hardware" => "hardware" \notin g.behind) => ViewTrue(h)
               \/ h.settling /\ h.query = g.query /\ h.shown = g.shown
  <1> DEFINE there == [g EXCEPT !.entry = text]
             delayed == [g EXCEPT !.entry = text, !.settling = TRUE]
  <1>1. /\ there \in Gui /\ there.mapped = g.mapped /\ there.view = g.view /\ there.entry = text
        /\ there.timed = g.timed /\ there.details = g.details /\ there.asked = g.asked
        /\ there.behind = g.behind
    BY DEF Gui
  <1>2. /\ delayed \in Gui /\ delayed.mapped = g.mapped /\ delayed.view = g.view
        /\ delayed.entry = text /\ delayed.timed = g.timed /\ delayed.details = g.details
        /\ delayed.asked = g.asked /\ delayed.behind = g.behind /\ delayed.settling = TRUE
        /\ delayed.query = g.query /\ delayed.shown = g.shown
    BY DEF Gui
  <1> HIDE DEF there, delayed
  <1>3. CASE text = NoText
    <2>1. SetText(g, text) = SearchChanged(there)
      BY <1>3 DEF SetText, there
    <2> DEFINE h == SearchChanged(there)
    <2>2. /\ h \in Gui /\ TextTrue(h)
          /\ (there.view = "hardware" /\ there.mapped => "hardware" \notin there.behind) => ViewTrue(h)
          /\ h.mapped = there.mapped /\ h.view = there.view /\ h.entry = there.entry
          /\ h.timed = there.timed /\ h.details = there.details /\ h.asked = there.asked
          /\ h.query[there.view] = there.entry /\ ~h.settling
          /\ h.behind \subseteq there.behind
      BY <1>1, SearchChangedIs
    <2> HIDE DEF h
    <2> QED
      BY <1>1, <2>1, <2>2 DEF h
  <1>4. CASE text # NoText
    <2>1. SetText(g, text) = delayed
      BY <1>4 DEF SetText, delayed
    <2> QED
      BY <1>2, <2>1
  <1> QED
    BY <1>3, <1>4

LEMMA AskStaleIs ==
  ASSUME NEW g \in Gui, NEW drives, NEW due \in SUBSET Drives
  PROVE  LET h == AskStale(g, drives, due)
         IN /\ h \in Gui /\ h.asked = drives \cap due
            /\ h.mapped = g.mapped /\ h.view = g.view /\ h.details = g.details
            /\ TextTrue(g) => TextTrue(h)
            /\ ViewTrue(g) => ViewTrue(h)
            /\ StatusTrue(g) => StatusTrue(h)
  BY DEF Gui, AskStale, TextTrue, ViewTrue, StatusTrue

LEMMA AskVisibleIs ==
  ASSUME NEW g \in Gui, NEW due \in SUBSET Drives
  PROVE  LET h == AskVisible(g, due)
         IN /\ h \in Gui /\ Seen(h)
            /\ h.mapped = g.mapped /\ h.view = g.view /\ h.details = g.details
            /\ TextTrue(g) => TextTrue(h)
            /\ ViewTrue(g) => ViewTrue(h)
            /\ StatusTrue(g) => StatusTrue(h)
  <1> DEFINE drives == (IF g.mapped /\ g.view = "hardware" THEN Drives ELSE {})
                         \cup (g.details \cap Drives)
             h == AskStale(g, drives, due)
  <1>1. AskVisible(g, due) = h
    BY DEF AskVisible
  <1>2. ~ (g.mapped /\ g.view = "hardware") => drives \subseteq g.details
    OBVIOUS
  <1> HIDE DEF drives
  <1>3. /\ h \in Gui /\ h.asked = drives \cap due
        /\ h.mapped = g.mapped /\ h.view = g.view /\ h.details = g.details
        /\ TextTrue(g) => TextTrue(h)
        /\ ViewTrue(g) => ViewTrue(h)
        /\ StatusTrue(g) => StatusTrue(h)
    BY AskStaleIs
  <1> HIDE DEF h
  <1>4. Seen(h)
    BY <1>2, <1>3 DEF Seen
  <1> QED
    BY <1>1, <1>3, <1>4

(* A tick of the session, for a window that is there or not.               *)
LEMMA TickIs ==
  ASSUME NEW g \in Gui, NEW present \in BOOLEAN, NEW news \in News, TextTrue(g)
  PROVE  LET h == ProcessTick(g, present, news)
         IN /\ h \in Gui /\ TextTrue(h)
            /\ h.mapped = g.mapped /\ h.view = g.view /\ h.details = g.details /\ h.asked = g.asked
            /\ (present \/ ~g.mapped) /\ ViewTrue(g) => ViewTrue(h)
            /\ (present \/ ~g.mapped) /\ StatusTrue(g) => StatusTrue(h)
  <1> DEFINE changes == CASE news = "snapshot" -> Everything
                          [] news = "activity" -> {"status"}
                          [] OTHER -> {}
             over == g.timed = "over"
             expired == [g EXCEPT !.timed = IF over THEN "none" ELSE @]
             told == Behind(expired, changes)
             h == ProcessTick(g, present, news)
  <1>1. /\ changes \in SUBSET Everything /\ over \in BOOLEAN
        /\ news # "snapshot" => changes \subseteq {"status"}
        /\ news \notin {"snapshot", "activity"} => changes = {}
    BY DEF News, Everything
  <1>2. h = IF ~present THEN told
            ELSE IF news = "snapshot" THEN SyncActiveView(told)
            ELSE IF news = "activity" \/ over THEN UpdateStatus(told) ELSE told
    BY DEF ProcessTick
  <1> HIDE DEF changes
  <1>3. /\ expired \in Gui /\ expired.mapped = g.mapped /\ expired.view = g.view
        /\ expired.entry = g.entry /\ expired.settling = g.settling /\ expired.query = g.query
        /\ expired.details = g.details /\ expired.asked = g.asked /\ expired.shown = g.shown
        /\ expired.behind = g.behind /\ expired.timed = (IF over THEN "none" ELSE g.timed)
    BY <1>1 DEF Gui
  <1> HIDE DEF expired
  <1>4. /\ told \in Gui /\ SameText(expired, told) /\ told.shown = g.shown
        /\ told.behind = g.behind \cup changes
    BY <1>1, <1>3, BehindIs
  <1> HIDE DEF told
  <1>5. TextTrue(told)
    BY <1>3, <1>4 DEF TextTrue, SameText
  <1>6. CASE ~ present
    BY <1>2, <1>3, <1>4, <1>5, <1>6 DEF SameText, ViewTrue, StatusTrue
  <1>7. CASE present /\ news = "snapshot"
    <2>1. h = SyncActiveView(told)
      BY <1>2, <1>7
    <2>2. h \in Gui /\ SameText(told, h) /\ TextTrue(h) /\ ViewTrue(h) /\ StatusTrue(h)
      BY <1>4, <1>5, <2>1, SyncActiveIs
    <2> HIDE DEF h
    <2> QED
      BY <1>3, <1>4, <2>2 DEF SameText, h
  <1>8. CASE present /\ news # "snapshot" /\ (news = "activity" \/ over)
    <2>1. h = UpdateStatus(told)
      BY <1>2, <1>8
    <2>2. /\ h \in Gui /\ SameText(told, h) /\ h.shown = told.shown
          /\ h.behind = IF told.mapped THEN told.behind \ {"status"} ELSE told.behind
      BY <1>4, <2>1, UpdateStatusIs
    <2> HIDE DEF h
    <2>3. TextTrue(h) /\ (ViewTrue(g) => ViewTrue(h)) /\ StatusTrue(h)
      <3>1. TextTrue(h)
        BY <1>5, <2>2 DEF SameText, TextTrue
      <3>2. ViewTrue(g) => ViewTrue(h)
        <4>1. g.mapped /\ h.mapped => h.behind \subseteq g.behind
          BY <1>1, <1>3, <1>4, <1>8, <2>2 DEF SameText
        <4> QED
          BY <1>3, <1>4, <2>2, <4>1 DEF SameText, ViewTrue
      <3>3. StatusTrue(h)
        BY <2>2 DEF SameText, StatusTrue
      <3> QED
        BY <3>1, <3>2, <3>3
    <2> QED
      BY <1>3, <1>4, <2>2, <2>3 DEF SameText, h
  <1>9. CASE present /\ ~ (news = "snapshot" \/ news = "activity" \/ over)
    <2>1. h = told /\ changes = {} /\ expired.timed = g.timed
      BY <1>1, <1>2, <1>3, <1>9
    <2> HIDE DEF h
    <2> QED
      BY <1>3, <1>4, <1>5, <2>1 DEF SameText, ViewTrue, StatusTrue, h
  <1> QED
    BY <1>6, <1>7, <1>8, <1>9

(* The status line says something else and is brought up to date.          *)
LEMMA StatusTold ==
  ASSUME NEW g \in Gui, TextTrue(g), ViewTrue(g)
  PROVE  LET h == UpdateStatus(Behind(g, {"status"}))
         IN /\ h \in Gui /\ SameText(g, h) /\ TextTrue(h) /\ ViewTrue(h) /\ StatusTrue(h)
  <1> DEFINE told == Behind(g, {"status"})
             h == UpdateStatus(told)
  <1>1. told \in Gui /\ SameText(g, told) /\ told.shown = g.shown /\ told.behind = g.behind \cup {"status"}
    <2>1. {"status"} \in SUBSET Everything
      BY DEF Everything
    <2> QED
      BY <2>1, BehindIs
  <1> HIDE DEF told
  <1>2. /\ h \in Gui /\ SameText(told, h) /\ h.shown = told.shown
        /\ h.behind = IF told.mapped THEN told.behind \ {"status"} ELSE told.behind
    BY <1>1, UpdateStatusIs
  <1> HIDE DEF h
  <1>3. SameText(g, h) /\ h.shown = g.shown
    BY <1>1, <1>2 DEF SameText
  <1>4. g.mapped => h.behind \subseteq g.behind /\ "status" \notin h.behind
    BY <1>1, <1>2 DEF SameText
  <1>5. TextTrue(h) /\ ViewTrue(h) /\ StatusTrue(h)
    <2>1. TextTrue(h)
      BY <1>3 DEF SameText, TextTrue
    <2>2. ViewTrue(h)
      BY <1>3, <1>4 DEF SameText, ViewTrue
    <2>3. StatusTrue(h)
      BY <1>3, <1>4 DEF SameText, StatusTrue
    <2> QED
      BY <2>1, <2>2, <2>3
  <1> QED
    BY <1>2, <1>3, <1>5 DEF h, told

LEMMA BecomesTrue ==
  ASSUME NEW g \in Gui, TextTrue(g), ViewTrue(g), StatusTrue(g), Becomes(g)
  PROVE  WindowInv'
  <1>1. /\ gui' \in Gui /\ SameText([g EXCEPT !.asked = {}], gui') /\ gui'.asked = {}
        /\ gui'.mapped = g.mapped /\ gui'.view = g.view /\ gui'.entry = g.entry
        /\ gui'.settling = g.settling /\ gui'.query = g.query /\ gui'.shown = g.shown
        /\ gui'.behind = g.behind /\ gui'.timed = g.timed
    BY DEF Becomes, Gui, SameText
  <1>2. TextTrue(gui') /\ ViewTrue(gui') /\ StatusTrue(gui') /\ Seen(gui')
    BY <1>1 DEF TextTrue, ViewTrue, StatusTrue, Seen
  <1> QED
    BY <1>1, <1>2 DEF WindowInv, TextTrue, ViewTrue, StatusTrue, Seen, Gui

(* A change of the details windows or of the notice alone.                 *)
LEMMA DetailsIs ==
  ASSUME NEW g \in Gui, NEW keys \in SUBSET (DetailSensors \cup Drives)
  PROVE  LET h == [g EXCEPT !.details = keys]
         IN /\ h \in Gui /\ h.details = keys
            /\ TextTrue(g) => TextTrue(h)
            /\ ViewTrue(g) => ViewTrue(h)
            /\ StatusTrue(g) => StatusTrue(h)
  BY DEF Gui, TextTrue, ViewTrue, StatusTrue

LEMMA TimedIs ==
  ASSUME NEW g \in Gui, NEW timed \in {"none", "on", "over"}
  PROVE  LET h == [g EXCEPT !.timed = timed]
         IN /\ h \in Gui /\ h.timed = timed
            /\ TextTrue(g) => TextTrue(h)
            /\ ViewTrue(g) => ViewTrue(h)
  BY DEF Gui, TextTrue, ViewTrue

LEMMA TimerTickKeeps == ASSUME WindowInv, TimerTick PROVE WindowInv'
  <1>1. PICK news \in News, due \in SUBSET Drives, look \in BOOLEAN :
          LET ticked == [ProcessTick(gui, gui.mapped, news) EXCEPT !.asked = {}]
          IN gui' = IF look THEN AskVisible(ticked, due) ELSE ticked
    BY DEF TimerTick
  <1> DEFINE h == ProcessTick(gui, gui.mapped, news)
             ticked == [h EXCEPT !.asked = {}]
  <1>2. /\ h \in Gui /\ TextTrue(h) /\ ViewTrue(h) /\ StatusTrue(h)
    <2>1. gui \in Gui /\ gui.mapped \in BOOLEAN /\ TextTrue(gui) /\ ViewTrue(gui) /\ StatusTrue(gui)
      BY DEF WindowInv, Gui
    <2> QED
      BY <2>1, TickIs
  <1> HIDE DEF h
  <1>3. /\ ticked \in Gui /\ TextTrue(ticked) /\ ViewTrue(ticked) /\ StatusTrue(ticked)
        /\ ticked.asked = {}
    BY <1>2 DEF Gui, TextTrue, ViewTrue, StatusTrue
  <1>4. gui' = IF look THEN AskVisible(ticked, due) ELSE ticked
    BY <1>1 DEF h
  <1> HIDE DEF ticked
  <1>5. gui' \in Gui /\ TextTrue(gui') /\ ViewTrue(gui') /\ StatusTrue(gui') /\ Seen(gui')
    <2>1. CASE look
      BY <1>3, <1>4, <2>1, AskVisibleIs
    <2>2. CASE ~ look
      BY <1>3, <1>4, <2>2 DEF Seen
    <2> QED
      BY <2>1, <2>2
  <1> QED
    BY <1>5 DEF WindowInv, TextTrue, ViewTrue, StatusTrue, Seen, Gui

(* Whatever happened while the window was hidden, it comes up to date.     *)
LEMMA ShowKeeps == ASSUME WindowInv, Show PROVE WindowInv'
  <1>1. PICK before \in News, after \in News, due \in SUBSET Drives, noted \in BOOLEAN :
          gui' = PlasmaMapHandler(MapHandler([gui EXCEPT !.mapped = TRUE], before, after, due), noted)
    BY DEF Show
  <1> DEFINE g == [gui EXCEPT !.mapped = TRUE]
             first == ProcessTick(g, FALSE, before)
             synced == SyncActiveView(first)
             second == ProcessTick(synced, TRUE, after)
             h == AskVisible(second, due)
  <1>2. gui \in Gui /\ TextTrue(gui)
    BY DEF WindowInv
  <1>3. g \in Gui /\ TextTrue(g)
    BY <1>2 DEF Gui, TextTrue
  <1>4. MapHandler(g, before, after, due) = h
    BY DEF MapHandler
  <1> HIDE DEF g
  <1>5. first \in Gui /\ TextTrue(first)
    BY <1>3, TickIs
  <1> HIDE DEF first
  <1>6. synced \in Gui /\ TextTrue(synced) /\ ViewTrue(synced) /\ StatusTrue(synced)
    BY <1>5, SyncActiveIs
  <1> HIDE DEF synced
  <1>7. second \in Gui /\ TextTrue(second) /\ ViewTrue(second) /\ StatusTrue(second)
    BY <1>6, TickIs
  <1> HIDE DEF second
  <1>8. h \in Gui /\ TextTrue(h) /\ ViewTrue(h) /\ StatusTrue(h) /\ Seen(h)
    BY <1>7, AskVisibleIs
  <1>9. gui' = IF noted THEN UpdateStatus(Behind(h, {"status"})) ELSE h
    BY <1>1, <1>4 DEF g, PlasmaMapHandler
  <1> HIDE DEF h
  <1>10. gui' \in Gui /\ TextTrue(gui') /\ ViewTrue(gui') /\ StatusTrue(gui') /\ Seen(gui')
    <2>1. CASE noted
      BY <1>8, <1>9, <2>1, StatusTold DEF SameText, Seen
    <2>2. CASE ~ noted
      BY <1>8, <1>9, <2>2
    <2> QED
      BY <2>1, <2>2
  <1> QED
    BY <1>10 DEF WindowInv, TextTrue, ViewTrue, StatusTrue, Seen, Gui

LEMMA CloseKeeps == ASSUME WindowInv, Close PROVE WindowInv'
  <1>1. \/ Becomes([gui EXCEPT !.mapped = FALSE])
        \/ Becomes([gui EXCEPT !.mapped = FALSE, !.gone = TRUE])
    BY DEF Close
  <1>2. /\ [gui EXCEPT !.mapped = FALSE] \in Gui
        /\ TextTrue([gui EXCEPT !.mapped = FALSE])
        /\ ViewTrue([gui EXCEPT !.mapped = FALSE]) /\ StatusTrue([gui EXCEPT !.mapped = FALSE])
    BY DEF WindowInv, Gui, TextTrue, ViewTrue, StatusTrue
  <1>3. /\ [gui EXCEPT !.mapped = FALSE, !.gone = TRUE] \in Gui
        /\ TextTrue([gui EXCEPT !.mapped = FALSE, !.gone = TRUE])
        /\ ViewTrue([gui EXCEPT !.mapped = FALSE, !.gone = TRUE])
        /\ StatusTrue([gui EXCEPT !.mapped = FALSE, !.gone = TRUE])
    BY DEF WindowInv, Gui, TextTrue, ViewTrue, StatusTrue
  <1> QED
    BY <1>1, <1>2, <1>3, BecomesTrue

LEMMA SwitchKeeps == ASSUME WindowInv, SwitchView PROVE WindowInv'
  <1>1. PICK now \in Views \ {gui.view}, due \in SUBSET Drives :
          LET text == gui.query[now]
              there == [gui EXCEPT !.view = now, !.asked = {}]
              set == IF gui.entry # text THEN SetText(there, text) ELSE there
              synced == IF now = "hardware"
                        THEN AskVisible(SyncHardware([set EXCEPT !.shown.hardware = text]), due)
                        ELSE IF gui.entry = text THEN RebuildRows(set) ELSE set
          IN gui' = UpdateStatus(synced)
    BY DEF SwitchView
  <1> DEFINE text == gui.query[now]
             there == [gui EXCEPT !.view = now, !.asked = {}]
             set == IF gui.entry # text THEN SetText(there, text) ELSE there
             paged == [set EXCEPT !.shown.hardware = text]
             synced == IF now = "hardware" THEN AskVisible(SyncHardware(paged), due)
                       ELSE IF gui.entry = text THEN RebuildRows(set) ELSE set
  <1>2. gui \in Gui /\ gui.mapped
    BY DEF WindowInv, SwitchView
  <1>3. text \in Texts /\ now \in Views
    BY <1>2 DEF Gui
  <1>4. gui' = UpdateStatus(synced)
    BY <1>1
  <1>5. /\ there \in Gui /\ there.mapped /\ there.view = now /\ there.entry = gui.entry
        /\ there.query = gui.query /\ there.asked = {} /\ there.settling = gui.settling
    BY <1>2, <1>3 DEF Gui
  <1>6. there.query[now] = text
    BY <1>5
  <1> HIDE DEF text, there
  <1>7. /\ set \in Gui /\ set.mapped /\ set.view = now /\ set.entry = text /\ set.asked = {}
        /\ set.query[now] = text
        /\ gui.entry # text => \/ TextTrue(set) /\ ~set.settling
                                 /\ (now = "hardware" \/ ViewTrue(set))
                              \/ set.settling
    <2>1. CASE gui.entry = text
      <3>1. set = there
        BY <2>1
      <3> QED
        BY <1>5, <1>6, <2>1, <3>1
    <2>2. CASE gui.entry # text
      <3> DEFINE h == SetText(there, text)
      <3>1. /\ h \in Gui
            /\ h.mapped = there.mapped /\ h.view = there.view /\ h.entry = text
            /\ h.asked = there.asked
            /\ \/ /\ TextTrue(h) /\ ~h.settling /\ h.query[there.view] = text
                  /\ (there.view = "hardware" => "hardware" \notin there.behind) => ViewTrue(h)
               \/ h.settling /\ h.query = there.query /\ h.shown = there.shown
        BY <1>3, <1>5, SetTextIs
      <3>2. set = h
        BY <2>2
      <3> HIDE DEF h, set
      <3> QED
        BY <1>5, <1>6, <3>1, <3>2
    <2> QED
      BY <2>1, <2>2
  <1>8. CASE now = "hardware"
    <2> DEFINE shown == [set.shown EXCEPT !["hardware"] = text]
               page == SyncHardware(paged)
    <2>1. synced = AskVisible(page, due)
      BY <1>8
    <2> HIDE DEF set
    <2>2. paged = [set EXCEPT !.shown = shown]
      BY <1>7 DEF Gui
    <2>3. shown \in [Views -> Texts] /\ shown["hardware"] = text
      BY <1>3, <1>7, <1>8 DEF Gui
    <2> HIDE DEF shown, paged, synced
    <2>4. /\ paged \in Gui /\ SameText(set, paged) /\ paged.shown = shown
      BY <1>7, <2>2, <2>3 DEF Gui, SameText
    <2>5. /\ page \in Gui /\ SameText(paged, page) /\ page.shown = paged.shown
          /\ page.behind = IF paged.mapped THEN paged.behind \ {"hardware"} ELSE paged.behind
      BY <2>4, SyncHardwareIs
    <2> HIDE DEF page
    <2>6. TextTrue(page) /\ ViewTrue(page)
      BY <1>7, <1>8, <2>3, <2>4, <2>5 DEF SameText, TextTrue, ViewTrue
    <2>7. synced \in Gui /\ Seen(synced) /\ TextTrue(synced) /\ ViewTrue(synced)
      BY <2>1, <2>5, <2>6, AskVisibleIs
    <2>8. /\ gui' \in Gui /\ SameText(synced, gui') /\ gui'.shown = synced.shown
          /\ gui'.behind = IF synced.mapped THEN synced.behind \ {"status"} ELSE synced.behind
      BY <1>4, <2>7, UpdateStatusIs
    <2>9. TextTrue(gui') /\ ViewTrue(gui') /\ StatusTrue(gui') /\ Seen(gui')
      BY <2>7, <2>8 DEF SameText, TextTrue, ViewTrue, StatusTrue, Seen
    <2> QED
      BY <2>8, <2>9 DEF WindowInv, TextTrue, ViewTrue, StatusTrue, Seen, Gui
  <1>9. CASE now # "hardware"
    <2>0. now = "sensors"
      BY <1>3, <1>9 DEF Views
    <2>1. /\ synced \in Gui /\ synced.mapped /\ synced.asked = {}
          /\ TextTrue(synced) /\ ViewTrue(synced)
      <3>1. CASE gui.entry = text
        <4>1. synced = RebuildRows(set)
          BY <1>9, <3>1
        <4> HIDE DEF set
        <4>2. /\ synced \in Gui /\ SameText(set, synced)
              /\ synced.shown["sensors"] = set.query["sensors"]
              /\ synced.behind = set.behind \ {"sensors", "status"}
          BY <1>7, <4>1, RebuildRowsIs
        <4> HIDE DEF synced
        <4> QED
          BY <1>7, <2>0, <4>2 DEF SameText, TextTrue, ViewTrue
      <3>2. CASE gui.entry # text
        <4>1. synced = set
          BY <1>9, <3>2
        <4> HIDE DEF set, synced
        <4> QED
          BY <1>7, <2>0, <3>2, <4>1 DEF TextTrue, ViewTrue
      <3> QED
        BY <3>1, <3>2
    <2> HIDE DEF synced
    <2>2. /\ gui' \in Gui /\ SameText(synced, gui') /\ gui'.shown = synced.shown
          /\ gui'.behind = IF synced.mapped THEN synced.behind \ {"status"} ELSE synced.behind
      BY <1>4, <2>1, UpdateStatusIs
    <2>3. TextTrue(gui') /\ ViewTrue(gui') /\ StatusTrue(gui') /\ Seen(gui')
      BY <2>1, <2>2 DEF SameText, TextTrue, ViewTrue, StatusTrue, Seen
    <2> QED
      BY <2>2, <2>3 DEF WindowInv, TextTrue, ViewTrue, StatusTrue, Seen, Gui
  <1> QED
    BY <1>8, <1>9

LEMMA TextKeeps == ASSUME WindowInv, TypeText \/ EntrySettles PROVE WindowInv'
  <1>0. /\ gui \in Gui /\ TextTrue(gui) /\ ViewTrue(gui) /\ StatusTrue(gui)
        /\ gui.view = "hardware" /\ gui.mapped => "hardware" \notin gui.behind
    BY DEF WindowInv, ViewTrue
  <1>1. CASE TypeText
    <2>1. PICK text \in Texts : Becomes(SetText(gui, text))
      BY <1>1 DEF TypeText
    <2> DEFINE h == SetText(gui, text)
    <2>2. gui.mapped
      BY <1>1 DEF TypeText
    <2>3. /\ h \in Gui
          /\ h.mapped = gui.mapped /\ h.view = gui.view /\ h.timed = gui.timed
          /\ h.behind \subseteq gui.behind
          /\ \/ TextTrue(h) /\ ViewTrue(h)
             \/ h.settling /\ h.query = gui.query /\ h.shown = gui.shown
      BY <1>0, <2>2, SetTextIs
    <2>4. Becomes(h)
      BY <2>1
    <2> HIDE DEF h
    <2>5. TextTrue(h) /\ ViewTrue(h) /\ StatusTrue(h)
      BY <1>0, <2>2, <2>3 DEF TextTrue, ViewTrue, StatusTrue
    <2> QED
      BY <2>3, <2>4, <2>5, BecomesTrue
  <1>2. CASE EntrySettles
    <2> DEFINE h == SearchChanged(gui)
    <2>1. Becomes(h)
      BY <1>2 DEF EntrySettles
    <2>2. h \in Gui /\ TextTrue(h) /\ ViewTrue(h) /\ StatusTrue(h)
      BY <1>0, SearchChangedIs
    <2> HIDE DEF h
    <2> QED
      BY <2>1, <2>2, BecomesTrue
  <1> QED
    BY <1>1, <1>2

(* Commands, and the details windows and the notice.                       *)
LEMMA CommandsKeep ==
  ASSUME WindowInv,
         \/ StatusCommand \/ RowsCommand \/ ViewCommand \/ TellExport \/ NoticeIsOver
         \/ ShowDetailsForRow \/ ShowDeviceDetails \/ CloseDetails
  PROVE  WindowInv'
  <1>0. /\ gui \in Gui /\ TextTrue(gui) /\ ViewTrue(gui) /\ StatusTrue(gui)
        /\ gui.details \in SUBSET (DetailSensors \cup Drives)
        /\ {"status"} \in SUBSET Everything /\ {"sensors", "status"} \in SUBSET Everything
    BY DEF WindowInv, Gui, Everything, Views
  <1>1. CASE StatusCommand
    <2> DEFINE h == UpdateStatus(Behind(gui, {"status"}))
    <2>1. h \in Gui /\ TextTrue(h) /\ ViewTrue(h) /\ StatusTrue(h) /\ Becomes(h)
      BY <1>0, <1>1, StatusTold DEF StatusCommand
    <2> HIDE DEF h
    <2> QED
      BY <2>1, BecomesTrue
  <1>2. CASE RowsCommand
    <2> DEFINE told == Behind(gui, {"sensors", "status"})
               h == RebuildRows(told)
    <2>1. gui.mapped /\ gui.view = "sensors" /\ Becomes(h)
      BY <1>2 DEF RowsCommand
    <2>2. told \in Gui /\ SameText(gui, told) /\ told.shown = gui.shown
      BY <1>0, BehindIs
    <2> HIDE DEF told
    <2>3. /\ h \in Gui /\ SameText(told, h)
          /\ told.mapped => /\ h.shown["sensors"] = told.query["sensors"]
                            /\ h.behind = told.behind \ {"sensors", "status"}
      BY <2>2, RebuildRowsIs
    <2> HIDE DEF h
    <2>4. TextTrue(h) /\ ViewTrue(h) /\ StatusTrue(h)
      BY <1>0, <2>1, <2>2, <2>3 DEF SameText, TextTrue, ViewTrue, StatusTrue
    <2> QED
      BY <2>1, <2>3, <2>4, BecomesTrue
  <1>3. CASE ViewCommand
    <2> DEFINE told == Behind(gui, Everything)
               h == SyncActiveView(told)
    <2>1. Becomes(h)
      BY <1>3 DEF ViewCommand
    <2>2. told \in Gui /\ SameText(gui, told) /\ told.shown = gui.shown
      BY <1>0, BehindIs
    <2> HIDE DEF told
    <2>3. TextTrue(told)
      BY <1>0, <2>2 DEF SameText, TextTrue
    <2>4. h \in Gui /\ TextTrue(h) /\ ViewTrue(h) /\ StatusTrue(h)
      BY <2>2, <2>3, SyncActiveIs
    <2> HIDE DEF h
    <2> QED
      BY <2>1, <2>4, BecomesTrue
  <1>4. CASE TellExport
    <2> DEFINE g == [gui EXCEPT !.timed = "on"]
               h == UpdateStatus(Behind(g, {"status"}))
    <2>1. Becomes(h)
      BY <1>4 DEF TellExport
    <2>2. g \in Gui /\ TextTrue(g) /\ ViewTrue(g)
      BY <1>0, TimedIs
    <2> HIDE DEF g
    <2>3. h \in Gui /\ TextTrue(h) /\ ViewTrue(h) /\ StatusTrue(h)
      BY <2>2, StatusTold
    <2> HIDE DEF h
    <2> QED
      BY <2>1, <2>3, BecomesTrue
  <1>5. CASE NoticeIsOver
    <2> DEFINE g == [gui EXCEPT !.timed = "over"]
               h == Behind(g, {"status"})
    <2>1. Becomes(h)
      BY <1>5 DEF NoticeIsOver
    <2>2. g \in Gui /\ TextTrue(g) /\ ViewTrue(g) /\ g.timed = "over"
      BY <1>0, TimedIs
    <2> HIDE DEF g
    <2>3. h \in Gui /\ SameText(g, h) /\ h.shown = g.shown /\ h.behind = g.behind \cup {"status"}
      BY <1>0, <2>2, BehindIs
    <2> HIDE DEF h
    <2>4. h.view \in Views /\ h.view # "status"
      BY <2>3 DEF Gui, Views
    <2>5. TextTrue(h) /\ ViewTrue(h) /\ StatusTrue(h)
      BY <2>2, <2>3, <2>4 DEF SameText, TextTrue, ViewTrue, StatusTrue
    <2> QED
      BY <2>1, <2>3, <2>5, BecomesTrue
  <1>6. ASSUME NEW keys \in SUBSET (DetailSensors \cup Drives),
               \/ Becomes(UpdateStatus(Behind([gui EXCEPT !.details = keys], {"status"})))
               \/ Becomes([gui EXCEPT !.details = keys])
        PROVE  WindowInv'
    <2> DEFINE g == [gui EXCEPT !.details = keys]
               h == UpdateStatus(Behind(g, {"status"}))
    <2>1. g \in Gui /\ TextTrue(g) /\ ViewTrue(g) /\ StatusTrue(g)
      BY <1>0, DetailsIs
    <2>2. Becomes(h) \/ Becomes(g)
      BY <1>6
    <2> HIDE DEF g
    <2>3. h \in Gui /\ TextTrue(h) /\ ViewTrue(h) /\ StatusTrue(h)
      BY <2>1, StatusTold
    <2> HIDE DEF h
    <2> QED
      BY <2>1, <2>2, <2>3, BecomesTrue
  <1>7. CASE ShowDetailsForRow
    <2>1. CASE StatusCommand
      BY <1>1, <2>1
    <2>2. CASE \E key \in DetailSensors \ gui.details :
             Becomes(UpdateStatus(Behind([gui EXCEPT !.details = @ \cup {key}], {"status"})))
      <3>1. PICK key \in DetailSensors :
             Becomes(UpdateStatus(Behind([gui EXCEPT !.details = @ \cup {key}], {"status"})))
        BY <2>2
      <3> DEFINE keys == gui.details \cup {key}
      <3>2. keys \in SUBSET (DetailSensors \cup Drives)
        BY <1>0
      <3>3. [gui EXCEPT !.details = @ \cup {key}] = [gui EXCEPT !.details = keys]
        BY <1>0 DEF Gui
      <3> HIDE DEF keys
      <3>4. Becomes(UpdateStatus(Behind([gui EXCEPT !.details = keys], {"status"})))
        BY <3>1, <3>3
      <3> QED
        BY <1>6, <3>2, <3>4
    <2> QED
      BY <1>7, <2>1, <2>2 DEF ShowDetailsForRow
  <1>8. CASE CloseDetails
    <2>1. PICK key \in gui.details :
            LET closed == [gui EXCEPT !.details = @ \ {key}]
            IN Becomes(IF key \in DetailSensors
                       THEN UpdateStatus(Behind(closed, {"status"})) ELSE closed)
      BY <1>8 DEF CloseDetails
    <2> DEFINE keys == gui.details \ {key}
    <2>2. keys \in SUBSET (DetailSensors \cup Drives)
      BY <1>0
    <2>3. [gui EXCEPT !.details = @ \ {key}] = [gui EXCEPT !.details = keys]
      BY <1>0 DEF Gui
    <2> HIDE DEF keys
    <2>4. \/ Becomes(UpdateStatus(Behind([gui EXCEPT !.details = keys], {"status"})))
          \/ Becomes([gui EXCEPT !.details = keys])
      BY <2>1, <2>3
    <2> QED
      BY <1>6, <2>2, <2>4
  <1>9. CASE ShowDeviceDetails
    <2>1. PICK drive \in Drives \ gui.details, due \in SUBSET Drives :
            gui' = AskStale([gui EXCEPT !.details = @ \cup {drive}], {drive}, due)
      BY <1>9 DEF ShowDeviceDetails
    <2> DEFINE keys == gui.details \cup {drive}
               g == [gui EXCEPT !.details = keys]
    <2>2. keys \in SUBSET (DetailSensors \cup Drives) /\ drive \in keys
      BY <1>0, <2>1
    <2>3. [gui EXCEPT !.details = @ \cup {drive}] = g
      BY <1>0 DEF Gui
    <2> HIDE DEF keys
    <2>4. g \in Gui /\ g.details = keys /\ TextTrue(g) /\ ViewTrue(g) /\ StatusTrue(g)
      BY <1>0, <2>2, DetailsIs
    <2>5. gui' = AskStale(g, {drive}, due)
      BY <2>1, <2>3
    <2> HIDE DEF g
    <2>6. /\ gui' \in Gui /\ gui'.asked = {drive} \cap due /\ gui'.details = g.details
          /\ TextTrue(gui') /\ ViewTrue(gui') /\ StatusTrue(gui')
      BY <2>4, <2>5, AskStaleIs
    <2>7. Seen(gui')
      BY <2>2, <2>4, <2>6 DEF Seen
    <2> QED
      BY <2>6, <2>7 DEF WindowInv, TextTrue, ViewTrue, StatusTrue, Seen, Gui
  <1> QED
    BY <1>1, <1>2, <1>3, <1>4, <1>5, <1>7, <1>8, <1>9

LEMMA WindowInductive == ASSUME WindowInv, [WindowNext]_gui PROVE WindowInv'
  <1>1. CASE UNCHANGED gui
    BY <1>1 DEF WindowInv, TextTrue, ViewTrue, StatusTrue, Seen, Gui
  <1>2. CASE WindowNext
    BY <1>2, TimerTickKeeps, ShowKeeps, CloseKeeps, SwitchKeeps, TextKeeps, CommandsKeep
       DEF WindowNext, TogglePaused, Rediscover, RefreshHealth, ToggleLogging, ResetStatistics,
           RenameRow, ConfigureSensorAlert, ApplySettings
  <1> QED
    BY <1>1, <1>2

LEMMA WindowStarts == WindowInit => WindowInv
  <1> SUFFICES ASSUME WindowInit PROVE WindowInv
    OBVIOUS
  <1>1. gui = [mapped |-> FALSE, gone |-> FALSE, view |-> "sensors", entry |-> NoText,
           settling |-> FALSE, query |-> [v \in Views |-> NoText],
           shown |-> [v \in Views |-> NoText], behind |-> Everything, timed |-> "none",
           details |-> {}, asked |-> {}]
    BY DEF WindowInit
  <1>2. [v \in Views |-> NoText] \in [Views -> Texts] /\ Everything = Views \cup {"status"}
        /\ "sensors" \in Views /\ "hardware" \in Views
    BY DEF Texts, Everything, Views
  <1>3. gui \in Gui
    BY <1>1, <1>2 DEF Gui, Texts
  <1>4. TextTrue(gui) /\ ViewTrue(gui) /\ StatusTrue(gui) /\ Seen(gui)
    BY <1>1, <1>2 DEF TextTrue, ViewTrue, StatusTrue, Seen
  <1> QED
    BY <1>3, <1>4 DEF WindowInv

LEMMA WindowIsTrue == WindowInv => WindowTypeOK /\ WindowTrue /\ AskedWhenSeen
  BY DEF WindowInv, WindowTypeOK, WindowTrue, AskedWhenSeen, Gui, TextTrue, ViewTrue, StatusTrue, Seen

-----------------------------------------------------------------------------
(* SensorRows *)

-----------------------------------------------------------------------------
(* Sequences whose elements stand in an order: what is in one, and what    *)
(* stands before what.                                                     *)

Before(s, x, y) == \E i, j \in DOMAIN s : i < j /\ s[i] = x /\ s[j] = y

(* What is true of one, and of the next whenever of a number, is true up   *)
(* to any number.                                                          *)
LEMMA StepByStep ==
  ASSUME NEW n \in Nat, NEW T, n >= 1 => 1 \in T,
         \A i \in 1 .. n - 1 : i \in T => i + 1 \in T
  PROVE  1 .. n \subseteq T
  <1> DEFINE U == { i \in 1 .. n : i \notin T }
  <1>1. SUFFICES ASSUME U # {} PROVE FALSE
    OBVIOUS
  <1>2. U \in SUBSET Nat
    OBVIOUS
  <1>3. PICK i \in U : \A j \in U : i <= j
    <2> HIDE DEF U
    <2> QED
      BY <1>1, <1>2, LeastOf
  <1>4. i \in 1 .. n /\ i \notin T /\ n >= 1
    BY <1>3
  <1>5. i # 1
    BY <1>4
  <1>6. i - 1 \in 1 .. n - 1 /\ i - 1 + 1 = i
    BY <1>4, <1>5
  <1>7. i - 1 \in T
    BY <1>3, <1>6
  <1> QED
    BY <1>4, <1>6, <1>7

(* Sequences without repetition are equal if they have the same elements   *)
(* in the same order.                                                      *)
LEMMA SameOrderEqual ==
  ASSUME NEW S, NEW s \in Seq(S), NEW t \in Seq(S), IsInjective(s), IsInjective(t),
         ToSet(s) = ToSet(t), \A x, y \in ToSet(s) : Before(s, x, y) => Before(t, x, y)
  PROVE  s = t
  <1>1. /\ Len(s) \in Nat /\ Len(t) \in Nat /\ DOMAIN s = 1 .. Len(s) /\ DOMAIN t = 1 .. Len(t)
    OBVIOUS
  <1> DEFINE U == { i \in Nat : i >= 1 /\ (i \in DOMAIN s \cup DOMAIN t)
                                /\ ~ (i \in DOMAIN s /\ i \in DOMAIN t /\ s[i] = t[i]) }
  <1>2. CASE U = {}
    <2>1. \A i \in DOMAIN s \cup DOMAIN t : i \in DOMAIN s /\ i \in DOMAIN t /\ s[i] = t[i]
      BY <1>1, <1>2
    <2>2. DOMAIN s = DOMAIN t
      BY <2>1
    <2>3. Len(s) = Len(t)
      <3> DEFINE m == Len(s) n == Len(t)
      <3>1. m \in Nat /\ n \in Nat /\ 1 .. m = 1 .. n
        BY <1>1, <2>2
      <3> HIDE DEF m, n
      <3>2. m >= 1 => m \in 1 .. n
        BY <3>1
      <3>3. n >= 1 => n \in 1 .. m
        BY <3>1
      <3>4. m = n
        BY <3>1, <3>2, <3>3
      <3> QED
        BY <3>4 DEF m, n
    <2> QED
      BY <1>1, <2>1, <2>3, SeqEqual
  <1>3. CASE U # {}
    <2>1. U \in SUBSET Nat
      OBVIOUS
    <2>2. PICK i \in U : \A j \in U : i <= j
      <3> HIDE DEF U
      <3> QED
        BY <1>3, <2>1, LeastOf
    <2>3. /\ i \in Nat /\ i >= 1 /\ i \in DOMAIN s \cup DOMAIN t
          /\ ~ (i \in DOMAIN s /\ i \in DOMAIN t /\ s[i] = t[i])
      BY <2>2
    <2>4. \A j \in 1 .. i - 1 : j \in DOMAIN s /\ j \in DOMAIN t /\ s[j] = t[j]
      <3> TAKE j \in 1 .. i - 1
      <3>1. j \in Nat /\ j >= 1 /\ j < i
        BY <2>3
      <3>2. j \in DOMAIN s \cup DOMAIN t
        BY <1>1, <2>3, <3>1
      <3> QED
        BY <2>2, <3>1, <3>2
    <2>5. i \in DOMAIN s => \E j \in DOMAIN t : t[j] = s[i] /\ j > i
      <3> SUFFICES ASSUME i \in DOMAIN s PROVE \E j \in DOMAIN t : t[j] = s[i] /\ j > i
        OBVIOUS
      <3>1. PICK j \in DOMAIN t : t[j] = s[i]
        BY DEF ToSet
      <3>2. ~ j < i
        <4> SUFFICES ASSUME j < i PROVE FALSE
          OBVIOUS
        <4>1. j \in 1 .. i - 1
          BY <1>1, <2>3
        <4> QED
          BY <2>4, <3>1, <4>1, <2>3 DEF IsInjective
      <3>3. j # i
        BY <2>3, <3>1
      <3> QED
        BY <1>1, <2>3, <3>1, <3>2, <3>3
    <2>6. i \in DOMAIN t => \E j \in DOMAIN s : s[j] = t[i] /\ j > i
      <3> SUFFICES ASSUME i \in DOMAIN t PROVE \E j \in DOMAIN s : s[j] = t[i] /\ j > i
        OBVIOUS
      <3>1. PICK j \in DOMAIN s : s[j] = t[i]
        BY DEF ToSet
      <3>2. ~ j < i
        <4> SUFFICES ASSUME j < i PROVE FALSE
          OBVIOUS
        <4>1. j \in 1 .. i - 1
          BY <1>1, <2>3
        <4> QED
          BY <2>4, <3>1, <4>1, <2>3 DEF IsInjective
      <3>3. j # i
        BY <2>3, <3>1
      <3> QED
        BY <1>1, <2>3, <3>1, <3>2, <3>3
    <2>7. i \in DOMAIN s /\ i \in DOMAIN t
      BY <1>1, <2>3, <2>5, <2>6
    <2>8. PICK j \in DOMAIN t : t[j] = s[i] /\ j > i
      BY <2>5, <2>7
    <2>9. PICK k \in DOMAIN s : s[k] = t[i] /\ k > i
      BY <2>6, <2>7
    <2>10. Before(s, s[i], t[i])
      BY <2>7, <2>9, <1>1 DEF Before
    <2>11. s[i] \in ToSet(s) /\ t[i] \in ToSet(s)
      BY <2>7 DEF ToSet
    <2>12. Before(t, s[i], t[i])
      BY <2>10, <2>11
    <2>13. PICK a, b \in DOMAIN t : a < b /\ t[a] = s[i] /\ t[b] = t[i]
      BY <2>12 DEF Before
    <2>14. a = j /\ b = i
      BY <2>7, <2>8, <2>13 DEF IsInjective
    <2> QED
      BY <1>1, <2>3, <2>8, <2>13, <2>14
  <1> QED
    BY <1>2, <1>3

(* In a sequence without repetition one of two elements stands before the  *)
(* other, and never the other way round.                                   *)
LEMMA BeforeIsTotal ==
  ASSUME NEW S, NEW s \in Seq(S), IsInjective(s)
  PROVE  /\ \A x, y : Before(s, x, y) => x \in ToSet(s) /\ y \in ToSet(s) /\ x # y
         /\ \A x, y \in ToSet(s) : x # y => Before(s, x, y) \/ Before(s, y, x)
         /\ \A x, y : ~ (Before(s, x, y) /\ Before(s, y, x))
         /\ \A x, y, z : Before(s, x, y) /\ Before(s, y, z) => Before(s, x, z)
  <1>1. Len(s) \in Nat /\ DOMAIN s = 1 .. Len(s)
    OBVIOUS
  <1>2. \A x, y : Before(s, x, y) => x \in ToSet(s) /\ y \in ToSet(s) /\ x # y
    BY <1>1 DEF Before, ToSet, IsInjective
  <1>3. ASSUME NEW x \in ToSet(s), NEW y \in ToSet(s), x # y
        PROVE  Before(s, x, y) \/ Before(s, y, x)
    <2>1. PICK i \in DOMAIN s : s[i] = x
      BY DEF ToSet
    <2>2. PICK j \in DOMAIN s : s[j] = y
      BY DEF ToSet
    <2>3. i < j \/ j < i
      BY <1>1, <1>3, <2>1, <2>2
    <2> QED
      BY <2>1, <2>2, <2>3 DEF Before
  <1>4. ASSUME NEW x, NEW y, Before(s, x, y), Before(s, y, x)
        PROVE  FALSE
    <2>1. PICK i, j \in DOMAIN s : i < j /\ s[i] = x /\ s[j] = y
      BY <1>4 DEF Before
    <2>2. PICK k, l \in DOMAIN s : k < l /\ s[k] = y /\ s[l] = x
      BY <1>4 DEF Before
    <2>3. k = j /\ l = i
      BY <2>1, <2>2 DEF IsInjective
    <2> QED
      BY <1>1, <2>1, <2>2, <2>3
  <1>5. ASSUME NEW x, NEW y, NEW z, Before(s, x, y), Before(s, y, z)
        PROVE  Before(s, x, z)
    <2>1. PICK i, j \in DOMAIN s : i < j /\ s[i] = x /\ s[j] = y
      BY <1>5 DEF Before
    <2>2. PICK k, l \in DOMAIN s : k < l /\ s[k] = y /\ s[l] = z
      BY <1>5 DEF Before
    <2>3. k = j /\ i < l
      BY <1>1, <2>1, <2>2 DEF IsInjective
    <2> QED
      BY <2>1, <2>2, <2>3 DEF Before
  <1> QED
    BY <1>2, <1>3, <1>4, <1>5

LEMMA ConcatIs ==
  ASSUME NEW S, NEW s \in Seq(S), NEW t \in Seq(S), NEW r, r = s \o t
  PROVE  /\ r \in Seq(S)
         /\ ToSet(r) = ToSet(s) \cup ToSet(t)
         /\ \A x, y : Before(r, x, y) <=>
                (Before(s, x, y) \/ Before(t, x, y) \/ (x \in ToSet(s) /\ y \in ToSet(t)))
         /\ IsInjective(s) /\ IsInjective(t) /\ ToSet(s) \cap ToSet(t) = {}
                => IsInjective(r)
  <1> DEFINE m == Len(s) n == Len(t)
  <1>1. /\ m \in Nat /\ n \in Nat /\ DOMAIN s = 1 .. m /\ DOMAIN t = 1 .. n
        /\ r \in Seq(S) /\ DOMAIN r = 1 .. m + n
        /\ \A i \in 1 .. m + n : r[i] = IF i <= m THEN s[i] ELSE t[i - m]
    OBVIOUS
  <1>2. \A i \in 1 .. m : i \in 1 .. m + n /\ r[i] = s[i]
    BY <1>1
  <1>3. \A i \in 1 .. n : i + m \in 1 .. m + n /\ r[i + m] = t[i]
    BY <1>1
  <1>4. \A i \in 1 .. m + n : \/ i \in 1 .. m /\ r[i] = s[i]
                              \/ i - m \in 1 .. n /\ r[i] = t[i - m] /\ i > m
    BY <1>1
  <1> HIDE DEF m, n
  <1>5. ToSet(r) = ToSet(s) \cup ToSet(t)
    <2>1. ToSet(r) \subseteq ToSet(s) \cup ToSet(t)
      BY <1>1, <1>4 DEF ToSet
    <2>2. ToSet(s) \subseteq ToSet(r)
      BY <1>1, <1>2 DEF ToSet
    <2>3. ToSet(t) \subseteq ToSet(r)
      BY <1>1, <1>3 DEF ToSet
    <2> QED
      BY <2>1, <2>2, <2>3
  <1>6. ASSUME NEW x, NEW y, Before(r, x, y)
        PROVE  Before(s, x, y) \/ Before(t, x, y) \/ (x \in ToSet(s) /\ y \in ToSet(t))
    <2>1. PICK i, j \in 1 .. m + n : i < j /\ r[i] = x /\ r[j] = y
      BY <1>1, <1>6 DEF Before
    <2>2. CASE i \in 1 .. m /\ j \in 1 .. m
      <3>1. i \in DOMAIN s /\ j \in DOMAIN s /\ s[i] = x /\ s[j] = y /\ i < j
        BY <1>1, <1>2, <2>1, <2>2
      <3>2. Before(s, x, y)
        BY <3>1 DEF Before
      <3> QED
        BY <3>2
    <2>3. CASE i \in 1 .. m /\ j \notin 1 .. m
      <3>1. i \in DOMAIN s /\ s[i] = x /\ j - m \in DOMAIN t /\ t[j - m] = y
        BY <1>1, <1>2, <1>4, <2>1, <2>3
      <3>2. x \in ToSet(s) /\ y \in ToSet(t)
        BY <3>1 DEF ToSet
      <3> QED
        BY <3>2
    <2>4. CASE i \notin 1 .. m
      <3>1. /\ i - m \in 1 .. n /\ r[i] = t[i - m] /\ j - m \in 1 .. n /\ r[j] = t[j - m]
            /\ i - m < j - m
        BY <1>1, <1>4, <2>1, <2>4
      <3>2. i - m \in DOMAIN t /\ j - m \in DOMAIN t /\ t[i - m] = x /\ t[j - m] = y
        BY <1>1, <2>1, <3>1
      <3>3. Before(t, x, y)
        BY <3>1, <3>2 DEF Before
      <3> QED
        BY <3>3
    <2> QED
      BY <2>2, <2>3, <2>4
  <1>7. ASSUME NEW x, NEW y, Before(s, x, y)
        PROVE  Before(r, x, y)
    BY <1>1, <1>2, <1>7 DEF Before
  <1>8. ASSUME NEW x, NEW y, Before(t, x, y)
        PROVE  Before(r, x, y)
    <2>1. PICK i, j \in 1 .. n : i < j /\ t[i] = x /\ t[j] = y
      BY <1>1, <1>8 DEF Before
    <2>2. i + m < j + m
      BY <1>1, <2>1
    <2> QED
      BY <1>1, <1>3, <2>1, <2>2 DEF Before
  <1>9. ASSUME NEW x \in ToSet(s), NEW y \in ToSet(t)
        PROVE  Before(r, x, y)
    <2>1. PICK i \in 1 .. m : s[i] = x
      BY <1>1 DEF ToSet
    <2>2. PICK j \in 1 .. n : t[j] = y
      BY <1>1 DEF ToSet
    <2>3. i < j + m
      BY <1>1, <2>1, <2>2
    <2> QED
      BY <1>1, <1>2, <1>3, <2>1, <2>2, <2>3 DEF Before
  <1>10. ASSUME IsInjective(s), IsInjective(t), ToSet(s) \cap ToSet(t) = {}
         PROVE  IsInjective(r)
    <2> SUFFICES ASSUME NEW i \in 1 .. m + n, NEW j \in 1 .. m + n, r[i] = r[j] PROVE i = j
      BY <1>1 DEF IsInjective
    <2>1. CASE i \in 1 .. m /\ j \in 1 .. m
      BY <1>1, <1>2, <1>10, <2>1 DEF IsInjective
    <2>2. CASE i \notin 1 .. m /\ j \notin 1 .. m
      <3>1. /\ i - m \in 1 .. n /\ r[i] = t[i - m] /\ j - m \in 1 .. n /\ r[j] = t[j - m]
        BY <1>4, <2>2
      <3>2. i - m = j - m
        BY <1>1, <1>10, <3>1 DEF IsInjective
      <3> QED
        BY <1>1, <3>2
    <2>3. CASE i \in 1 .. m /\ j \notin 1 .. m
      BY <1>1, <1>2, <1>4, <1>10, <2>3 DEF ToSet
    <2>4. CASE i \notin 1 .. m /\ j \in 1 .. m
      BY <1>1, <1>2, <1>4, <1>10, <2>4 DEF ToSet
    <2> QED
      BY <2>1, <2>2, <2>3, <2>4
  <1> QED
    BY <1>1, <1>5, <1>6, <1>7, <1>8, <1>9, <1>10

(* A sequence of sequences, one after the other: what is in it, what       *)
(* stands before what, and when nothing is there twice.                    *)
LEMMA FlattenSteps ==
  ASSUME NEW S, NEW ss \in Seq(Seq(S)), Len(ss) # 0
  PROVE  \E f : /\ FlattenSeq(ss) = f[Len(ss)]
                /\ f = [i \in 1 .. Len(ss) |-> IF i = 1 THEN ss[i] ELSE f[i - 1] \o ss[i]]
  <1> DEFINE Steps(n, f) == f = [i \in 1 .. n |-> IF i = 1 THEN ss[i] ELSE f[i - 1] \o ss[i]]
             T == { n \in Nat : \E f : Steps(n, f) }
  <1>1. Len(ss) \in Nat
    OBVIOUS
  <1>2. 1 \in T
    <2>1. Steps(1, [i \in 1 .. 1 |-> ss[i]])
      OBVIOUS
    <2> QED
      BY <2>1
  <1>3. ASSUME NEW n \in 1 .. Len(ss) - 1, n \in T
        PROVE  n + 1 \in T
    <2>1. PICK f : Steps(n, f)
      BY <1>3
    <2> DEFINE g == [i \in 1 .. n + 1 |-> IF i = n + 1 THEN f[n] \o ss[i] ELSE f[i]]
    <2>2. ASSUME NEW i \in 1 .. n + 1
          PROVE  g[i] = IF i = 1 THEN ss[i] ELSE g[i - 1] \o ss[i]
      <3>0. n \in Nat /\ n >= 1
        BY <1>1
      <3>1. CASE i = n + 1
        <4>1. i # 1 /\ i - 1 = n /\ n \in 1 .. n + 1 /\ n # n + 1
          BY <3>0, <3>1
        <4>2. g[i - 1] = f[n] /\ g[i] = f[n] \o ss[i]
          BY <3>1, <4>1
        <4> QED
          BY <4>1, <4>2
      <3>2. CASE i # n + 1
        <4>1. i \in 1 .. n
          BY <3>0, <3>2
        <4>2. f[i] = IF i = 1 THEN ss[i] ELSE f[i - 1] \o ss[i]
          BY <2>1, <4>1
        <4>3. g[i] = f[i]
          BY <3>2
        <4>4. i # 1 => i - 1 \in 1 .. n + 1 /\ i - 1 # n + 1
          BY <3>0, <4>1
        <4>5. i # 1 => g[i - 1] = f[i - 1]
          BY <4>4
        <4> HIDE DEF g
        <4> QED
          BY <4>2, <4>3, <4>5
      <3> QED
        BY <3>1, <3>2
    <2>3. Steps(n + 1, g)
      <3>1. g = [i \in 1 .. n + 1 |-> g[i]]
        OBVIOUS
      <3> HIDE DEF g
      <3> QED
        BY <2>2, <3>1
    <2>4. n + 1 \in Nat
      BY <1>1
    <2> HIDE DEF Steps
    <2> QED
      BY <2>3, <2>4
  <1>4. 1 .. Len(ss) \subseteq T
    <2> HIDE DEF T
    <2> QED
      BY <1>1, <1>2, <1>3, StepByStep
  <1>5. Len(ss) \in T
    <2> HIDE DEF T
    <2> QED
      BY <1>1, <1>4
  <1>6. \E f : Steps(Len(ss), f)
    BY <1>5
  <1> DEFINE F == CHOOSE f : Steps(Len(ss), f)
  <1>7. Steps(Len(ss), F)
    <2> HIDE DEF Steps
    <2> QED
      BY <1>6
  <1>8. FlattenSeq(ss) = F[Len(ss)]
    BY DEF FlattenSeq
  <1> HIDE DEF F
  <1> QED
    BY <1>7, <1>8

Disjoint(ss) == \A k, l \in DOMAIN ss : k # l => ToSet(ss[k]) \cap ToSet(ss[l]) = {}

LEMMA FlattenIs ==
  ASSUME NEW S, NEW ss \in Seq(Seq(S))
  PROVE  /\ FlattenSeq(ss) \in Seq(S)
         /\ \A x : x \in ToSet(FlattenSeq(ss)) <=> \E k \in DOMAIN ss : x \in ToSet(ss[k])
         /\ \A x, y : Before(FlattenSeq(ss), x, y) <=>
                \/ \E k \in DOMAIN ss : Before(ss[k], x, y)
                \/ \E k, l \in DOMAIN ss : k < l /\ x \in ToSet(ss[k]) /\ y \in ToSet(ss[l])
         /\ Disjoint(ss) /\ (\A k \in DOMAIN ss : IsInjective(ss[k]))
                => IsInjective(FlattenSeq(ss))
  <1>1. Len(ss) \in Nat /\ DOMAIN ss = 1 .. Len(ss) /\ \A k \in DOMAIN ss : ss[k] \in Seq(S)
    OBVIOUS
  <1>2. CASE Len(ss) = 0
    <2>1. FlattenSeq(ss) = ss
      BY <1>2 DEF FlattenSeq
    <2>2. ss = <<>> /\ DOMAIN ss = {}
      BY <1>1, <1>2
    <2>3. ss \in Seq(S) /\ ToSet(ss) = {} /\ IsInjective(ss)
      BY <2>2 DEF ToSet, IsInjective
    <2>4. \A x, y : ~ Before(ss, x, y)
      BY <2>2 DEF Before
    <2> QED
      BY <2>1, <2>2, <2>3, <2>4
  <1>3. CASE Len(ss) # 0
    <2>1. PICK f : /\ FlattenSeq(ss) = f[Len(ss)]
                   /\ f = [i \in 1 .. Len(ss) |-> IF i = 1 THEN ss[i] ELSE f[i - 1] \o ss[i]]
      BY <1>3, FlattenSteps
    <2>2. \A i \in 1 .. Len(ss) : f[i] = IF i = 1 THEN ss[i] ELSE f[i - 1] \o ss[i]
      BY <2>1
    <2> DEFINE
          Elements(n) == \A x : x \in ToSet(f[n]) <=> \E k \in 1 .. n : x \in ToSet(ss[k])
          Ordered(n) == \A x, y : Before(f[n], x, y) <=>
                \/ \E k \in 1 .. n : Before(ss[k], x, y)
                \/ \E k, l \in 1 .. n : k < l /\ x \in ToSet(ss[k]) /\ y \in ToSet(ss[l])
          Once(n) == Disjoint(ss) /\ (\A k \in DOMAIN ss : IsInjective(ss[k])) => IsInjective(f[n])
          T == { n \in 1 .. Len(ss) : f[n] \in Seq(S) /\ Elements(n) /\ Ordered(n) /\ Once(n) }
    <2>3. 1 \in T
      <3>1. 1 \in 1 .. Len(ss) /\ f[1] = ss[1] /\ 1 .. 1 = {1}
        BY <1>1, <1>3, <2>2
      <3>2. Elements(1) /\ Once(1) /\ f[1] \in Seq(S)
        BY <1>1, <3>1
      <3>3. Ordered(1)
        BY <3>1
      <3> QED
        BY <3>1, <3>2, <3>3
    <2>4. ASSUME NEW n \in 1 .. Len(ss) - 1, n \in T
          PROVE  n + 1 \in T
      <3>1. /\ n \in Nat /\ n + 1 \in 1 .. Len(ss) /\ n + 1 # 1 /\ n + 1 - 1 = n
            /\ n \in 1 .. Len(ss) /\ 1 .. n + 1 = (1 .. n) \cup {n + 1}
            /\ \A k \in 1 .. n : k < n + 1 /\ k # n + 1 /\ k \in Nat
            /\ \A k \in 1 .. n : ~ (n + 1 < k) /\ ~ (n + 1 < n + 1)
        BY <1>1
      <3> DEFINE s == f[n] t == ss[n + 1] r == f[n + 1]
      <3>2. r = s \o t
        <4>1. PICK m \in 1 .. Len(ss) : m = n + 1 /\ m # 1 /\ m - 1 = n
          BY <3>1
        <4>2. f[m] = f[m - 1] \o ss[m]
          BY <2>2, <4>1
        <4> QED
          BY <4>1, <4>2
      <3>3. s \in Seq(S) /\ t \in Seq(S)
        BY <1>1, <2>4, <3>1
      <3>4. Elements(n) /\ Ordered(n) /\ Once(n)
        BY <2>4
      <3>5. /\ r \in Seq(S)
            /\ ToSet(r) = ToSet(s) \cup ToSet(t)
            /\ \A x, y : Before(r, x, y) <=>
                (Before(s, x, y) \/ Before(t, x, y) \/ (x \in ToSet(s) /\ y \in ToSet(t)))
            /\ IsInjective(s) /\ IsInjective(t) /\ ToSet(s) \cap ToSet(t) = {}
                => IsInjective(r)
        <4> HIDE DEF s, t, r
        <4> QED
          BY <3>2, <3>3, ConcatIs
      <3>6. Elements(n + 1)
        BY <3>1, <3>4, <3>5
      <3>7. Ordered(n + 1)
        <4> TAKE x, y
        <4>1. Before(s, x, y) <=>
                \/ \E k \in 1 .. n : Before(ss[k], x, y)
                \/ \E k, l \in 1 .. n : k < l /\ x \in ToSet(ss[k]) /\ y \in ToSet(ss[l])
          BY <3>4
        <4>2. x \in ToSet(s) <=> \E k \in 1 .. n : x \in ToSet(ss[k])
          BY <3>4
        <4>3. (\E k, l \in 1 .. n + 1 : k < l /\ x \in ToSet(ss[k]) /\ y \in ToSet(ss[l])) <=>
                \/ \E k, l \in 1 .. n : k < l /\ x \in ToSet(ss[k]) /\ y \in ToSet(ss[l])
                \/ (\E k \in 1 .. n : x \in ToSet(ss[k])) /\ y \in ToSet(t)
          BY <3>1
        <4>4. (\E k \in 1 .. n + 1 : Before(ss[k], x, y)) <=>
                (\E k \in 1 .. n : Before(ss[k], x, y)) \/ Before(t, x, y)
          BY <3>1
        <4>5. Before(r, x, y) <=>
                (Before(s, x, y) \/ Before(t, x, y) \/ (x \in ToSet(s) /\ y \in ToSet(t)))
          <5> HIDE DEF s, t, r
          <5> QED
            BY <3>5
        <4> HIDE DEF s, t, r
        <4> QED
          BY <4>1, <4>2, <4>3, <4>4, <4>5 DEF r
      <3>8. Once(n + 1)
        <4> SUFFICES ASSUME Disjoint(ss), \A k \in DOMAIN ss : IsInjective(ss[k])
                     PROVE  IsInjective(r)
          OBVIOUS
        <4>1. IsInjective(s) /\ IsInjective(t)
          BY <1>1, <3>1, <3>4
        <4>2. \A k \in 1 .. n : k \in DOMAIN ss /\ n + 1 \in DOMAIN ss /\ k # n + 1
          BY <1>1, <3>1
        <4>3. \A k \in 1 .. n : ToSet(ss[k]) \cap ToSet(t) = {}
          BY <4>2 DEF Disjoint
        <4>4. ToSet(s) \cap ToSet(t) = {}
          BY <3>4, <4>3
        <4> QED
          BY <3>5, <4>1, <4>4
      <3> QED
        BY <3>1, <3>5, <3>6, <3>7, <3>8
    <2>5. 1 .. Len(ss) \subseteq T
      <3> HIDE DEF T
      <3> QED
        BY <1>1, <2>3, <2>4, StepByStep
    <2>6. Len(ss) \in T
      <3> HIDE DEF T
      <3> QED
        BY <1>1, <1>3, <2>5
    <2> QED
      BY <1>1, <2>1, <2>6
  <1> QED
    BY <1>2, <1>3

LEMMA SelectedIs ==
  ASSUME NEW S, NEW s \in Seq(S), NEW keep
  PROVE  /\ Selected(s, keep) \in Seq(S)
         /\ ToSet(Selected(s, keep)) = ToSet(s) \cap keep
         /\ \A x, y : Before(Selected(s, keep), x, y) <=> Before(s, x, y) /\ x \in keep /\ y \in keep
         /\ IsInjective(s) => IsInjective(Selected(s, keep))
  <1> DEFINE ss == [i \in DOMAIN s |-> IF s[i] \in keep THEN <<s[i]>> ELSE <<>>]
  <1>1. Len(s) \in Nat /\ DOMAIN s = 1 .. Len(s) /\ \A i \in DOMAIN s : s[i] \in S
    OBVIOUS
  <1>2. \A i \in DOMAIN s : ss[i] \in Seq(S)
    BY <1>1
  <1>3. ss \in Seq(Seq(S)) /\ DOMAIN ss = DOMAIN s
    BY <1>1, <1>2
  <1>4. Selected(s, keep) = FlattenSeq(ss)
    BY DEF Selected
  <1>5. \A i \in DOMAIN s : ToSet(ss[i]) = { x \in {s[i]} : x \in keep }
    <2> TAKE i \in DOMAIN s
    <2>1. ToSet(<<s[i]>>) = {s[i]}
      BY DEF ToSet
    <2>2. ToSet(<<>>) = {}
      BY DEF ToSet
    <2> QED
      BY <2>1, <2>2
  <1>6. \A i \in DOMAIN s : IsInjective(ss[i]) /\ \A x, y : ~ Before(ss[i], x, y)
    <2> TAKE i \in DOMAIN s
    <2>1. DOMAIN ss[i] \subseteq {1}
      BY <1>3
    <2>2. \A a, b \in DOMAIN ss[i] : a = b /\ ~ (a < b)
      BY <2>1
    <2> QED
      BY <2>2 DEF IsInjective, Before
  <1> HIDE DEF ss
  <1>7. /\ FlattenSeq(ss) \in Seq(S)
        /\ \A x : x \in ToSet(FlattenSeq(ss)) <=> \E k \in DOMAIN ss : x \in ToSet(ss[k])
        /\ \A x, y : Before(FlattenSeq(ss), x, y) <=>
                \/ \E k \in DOMAIN ss : Before(ss[k], x, y)
                \/ \E k, l \in DOMAIN ss : k < l /\ x \in ToSet(ss[k]) /\ y \in ToSet(ss[l])
        /\ Disjoint(ss) /\ (\A k \in DOMAIN ss : IsInjective(ss[k]))
                => IsInjective(FlattenSeq(ss))
    BY <1>3, FlattenIs
  <1>8. ToSet(FlattenSeq(ss)) = ToSet(s) \cap keep
    <2>1. \A x : x \in ToSet(FlattenSeq(ss)) <=> \E k \in DOMAIN s : x = s[k] /\ x \in keep
      BY <1>3, <1>5, <1>7
    <2>2. \A x : x \in ToSet(s) <=> \E k \in DOMAIN s : x = s[k]
      BY DEF ToSet
    <2> QED
      BY <2>1, <2>2
  <1>9. \A x, y : Before(FlattenSeq(ss), x, y) <=> Before(s, x, y) /\ x \in keep /\ y \in keep
    <2> TAKE x, y
    <2>1. Before(FlattenSeq(ss), x, y) <=>
            \E k, l \in DOMAIN ss : k < l /\ x \in ToSet(ss[k]) /\ y \in ToSet(ss[l])
      BY <1>3, <1>6, <1>7
    <2>2. \A k, l \in DOMAIN s : x \in ToSet(ss[k]) /\ y \in ToSet(ss[l]) <=>
                                  x = s[k] /\ y = s[l] /\ x \in keep /\ y \in keep
      BY <1>5
    <2> QED
      BY <1>3, <2>1, <2>2 DEF Before
  <1>10. IsInjective(s) => IsInjective(FlattenSeq(ss))
    <2>1. IsInjective(s) => Disjoint(ss)
      BY <1>3, <1>5 DEF Disjoint, IsInjective
    <2> QED
      BY <1>3, <1>6, <1>7, <2>1
  <1> QED
    BY <1>4, <1>7, <1>8, <1>9, <1>10

-----------------------------------------------------------------------------
(* The rows *)

Paths == Seq(STRING)

LEMMA UpIs ==
  ASSUME NEW x \in Paths, NEW n \in 1 .. Len(x)
  PROVE  /\ Up(x, n) \in Paths /\ Len(Up(x, n)) = n
         /\ n = Len(x) => Up(x, n) = x
         /\ \A m \in 1 .. n : Up(Up(x, n), m) = Up(x, m)
         /\ \A i \in 1 .. n : Up(x, n)[i] = x[i]
  <1>1. /\ x \in Seq(STRING) /\ Len(x) \in Nat /\ DOMAIN x = 1 .. Len(x) /\ n \in Nat
        /\ n >= 1 /\ n <= Len(x) /\ \A i \in 1 .. Len(x) : x[i] \in STRING
    BY DEF Paths
  <1> DEFINE u == Up(x, n)
  <1>2. u \in Seq(STRING) /\ Len(u) = n /\ \A i \in 1 .. n : u[i] = x[i]
    BY <1>1 DEF Up
  <1>3. ASSUME n = Len(x) PROVE u = x
    <2> HIDE DEF u
    <2> QED
      BY <1>1, <1>2, <1>3, SeqEqual
  <1> HIDE DEF u
  <1>4. ASSUME NEW m \in 1 .. n PROVE Up(u, m) = Up(x, m)
    <2>1. Up(u, m) = [i \in 1 .. m |-> u[i]] /\ Up(x, m) = [i \in 1 .. m |-> x[i]]
      BY <1>1, <1>2 DEF Up
    <2>2. \A i \in 1 .. m : u[i] = x[i]
      BY <1>1, <1>2
    <2> QED
      BY <2>1, <2>2
  <1> QED
    BY <1>2, <1>3, <1>4 DEF u, Paths

(* A sequence that follows an order: what has a place in it stands before  *)
(* what stands later or has none.                                          *)
Follows(r, positions) ==
    \A x, y \in ToSet(r) :
        /\ x \in ToSet(positions)
        /\ y \notin ToSet(positions) \/ Before(positions, x, y)
        => Before(r, x, y)

LEMMA ArrangedIs ==
  ASSUME NEW S, NEW keys \in Seq(S), NEW positions \in Seq(S),
         IsInjective(keys), IsInjective(positions)
  PROVE  /\ Arranged(keys, positions) \in Seq(S) /\ IsInjective(Arranged(keys, positions))
         /\ ToSet(Arranged(keys, positions)) = ToSet(keys)
         /\ Follows(Arranged(keys, positions), positions)
  <1> DEFINE a == Selected(positions, ToSet(keys))
             b == Selected(keys, ToSet(keys) \ ToSet(positions))
  <1>1. /\ a \in Seq(S) /\ IsInjective(a) /\ ToSet(a) = ToSet(positions) \cap ToSet(keys)
        /\ \A x, y : Before(a, x, y) <=>
                Before(positions, x, y) /\ x \in ToSet(keys) /\ y \in ToSet(keys)
    BY SelectedIs
  <1>2. /\ b \in Seq(S) /\ IsInjective(b) /\ ToSet(b) = ToSet(keys) \ ToSet(positions)
    <2>1. b \in Seq(S) /\ IsInjective(b) /\ ToSet(b) = ToSet(keys) \cap (ToSet(keys) \ ToSet(positions))
      BY SelectedIs
    <2> QED
      BY <2>1
  <1>3. Arranged(keys, positions) = a \o b
    BY DEF Arranged
  <1> HIDE DEF a, b
  <1> DEFINE r == a \o b
  <1>4. /\ r \in Seq(S)
        /\ ToSet(r) = ToSet(a) \cup ToSet(b)
        /\ \A x, y : Before(r, x, y) <=>
                (Before(a, x, y) \/ Before(b, x, y) \/ (x \in ToSet(a) /\ y \in ToSet(b)))
        /\ IsInjective(a) /\ IsInjective(b) /\ ToSet(a) \cap ToSet(b) = {}
                => IsInjective(r)
    <2>1. a \in Seq(S) /\ b \in Seq(S)
      BY <1>1, <1>2
    <2> QED
      BY <2>1, ConcatIs
  <1> HIDE DEF r
  <1>5. ToSet(r) = ToSet(keys) /\ IsInjective(r)
    BY <1>1, <1>2, <1>4
  <1>6. Follows(r, positions)
    BY <1>1, <1>2, <1>4, <1>5 DEF Follows
  <1> QED
    BY <1>3, <1>4, <1>5, <1>6 DEF r

(* Readings as a snapshot has them. *)
Sensed(s) ==
    /\ s \in Seq(Paths) /\ IsInjective(s)
    /\ \A key \in ToSet(s) : key \in Paths /\ Len(key) = 3 /\ key[2] \in ToSet(Kinds)

Positions(r) == r \in Seq(Paths) /\ IsInjective(r)

LEMMA DevicesAre ==
  ASSUME NEW s, Sensed(s), NEW devices, Positions(devices)
  PROVE  LET r == OrderedDevices(s, devices)
         IN /\ r \in Seq(Paths) /\ IsInjective(r)
            /\ ToSet(r) = { Up(key, 1) : key \in ToSet(s) } /\ Follows(r, devices)
  <1> DEFINE first(i) == \A j \in 1 .. i - 1 : Up(s[j], 1) # Up(s[i], 1)
             ss == [i \in DOMAIN s |-> IF \E j \in 1 .. i - 1 : Up(s[j], 1) = Up(s[i], 1)
                                      THEN <<>> ELSE <<Up(s[i], 1)>>]
             d == FlattenSeq(ss)
  <1>1. /\ Len(s) \in Nat /\ DOMAIN s = 1 .. Len(s)
        /\ \A i \in DOMAIN s : s[i] \in Paths /\ Len(s[i]) = 3 /\ s[i] \in ToSet(s)
    BY DEF Sensed, ToSet
  <1>2. \A i \in DOMAIN s : Up(s[i], 1) \in Paths
    BY <1>1, UpIs
  <1>3. \A i \in DOMAIN s : ss[i] \in Seq(Paths) /\ IsInjective(ss[i])
    <2> TAKE i \in DOMAIN s
    <2>1. Up(s[i], 1) \in Paths
      BY <1>2
    <2> DEFINE u == Up(s[i], 1)
    <2>2. <<>> \in Seq(Paths) /\ <<u>> \in Seq(Paths) /\ IsInjective(<<>>) /\ IsInjective(<<u>>)
      <3> HIDE DEF u
      <3>1. DOMAIN <<u>> = {1} /\ DOMAIN <<>> = {}
        OBVIOUS
      <3> QED
        BY <2>1, <3>1 DEF IsInjective, u
    <2> QED
      BY <2>2
  <1>4. \A i \in DOMAIN s : ToSet(ss[i]) = { x \in {Up(s[i], 1)} : first(i) }
    <2> TAKE i \in DOMAIN s
    <2> DEFINE u == Up(s[i], 1)
    <2>1. ToSet(<<u>>) = {u} /\ ToSet(<<>>) = {}
      BY DEF ToSet
    <2> QED
      BY <2>1
  <1>5. ss \in Seq(Seq(Paths)) /\ DOMAIN ss = DOMAIN s
    <2>1. DOMAIN ss = 1 .. Len(s) /\ ss = [i \in 1 .. Len(s) |-> ss[i]]
      BY <1>1
    <2>2. \A i \in 1 .. Len(s) : ss[i] \in Seq(Paths)
      BY <1>1, <1>3
    <2> HIDE DEF ss
    <2> QED
      BY <1>1, <2>1, <2>2
  <1>6. Disjoint(ss)
    <2> SUFFICES ASSUME NEW k \in DOMAIN s, NEW l \in DOMAIN s, k # l, NEW x,
                        x \in ToSet(ss[k]), x \in ToSet(ss[l])
                 PROVE  FALSE
      BY <1>5 DEF Disjoint
    <2>1. x = Up(s[k], 1) /\ x = Up(s[l], 1) /\ first(k) /\ first(l)
      BY <1>4
    <2>2. k \in 1 .. l - 1 \/ l \in 1 .. k - 1
      BY <1>1
    <2> QED
      BY <2>1, <2>2
  <1>7. Devices(s) = d
    BY DEF Devices
  <1> HIDE DEF ss
  <1>8. d \in Seq(Paths) /\ IsInjective(d) /\ \A x : x \in ToSet(d) <=> \E k \in DOMAIN ss : x \in ToSet(ss[k])
    BY <1>3, <1>5, <1>6, FlattenIs
  <1> HIDE DEF d
  <1>9. ToSet(d) = { Up(key, 1) : key \in ToSet(s) }
    <2>1. ASSUME NEW x \in ToSet(d) PROVE \E key \in ToSet(s) : x = Up(key, 1)
      BY <1>1, <1>4, <1>5, <1>8
    <2>2. ASSUME NEW key \in ToSet(s) PROVE Up(key, 1) \in ToSet(d)
      <3> DEFINE U == { i \in DOMAIN s : Up(s[i], 1) = Up(key, 1) }
      <3>1. U # {} /\ U \in SUBSET Nat
        BY <1>1 DEF ToSet
      <3>2. PICK i \in U : \A j \in U : i <= j
        <4> HIDE DEF U
        <4> QED
          BY <3>1, LeastOf
      <3>3. i \in DOMAIN s /\ Up(s[i], 1) = Up(key, 1)
        BY <3>2
      <3>4. first(i)
        <4> SUFFICES ASSUME NEW j \in 1 .. i - 1, Up(s[j], 1) = Up(s[i], 1) PROVE FALSE
          OBVIOUS
        <4>1. j \in DOMAIN s /\ j < i /\ i \in Nat /\ j \in Nat
          BY <1>1, <3>3
        <4>2. j \in U
          BY <3>3, <4>1
        <4> QED
          BY <3>2, <4>1, <4>2
      <3>5. Up(key, 1) \in ToSet(ss[i])
        BY <1>4, <3>3, <3>4
      <3> QED
        BY <1>5, <1>8, <3>3, <3>5
    <2> QED
      BY <2>1, <2>2
  <1>10. devices \in Seq(Paths) /\ IsInjective(devices)
    BY DEF Positions
  <1>11. OrderedDevices(s, devices) = Arranged(d, devices)
    BY <1>7 DEF OrderedDevices
  <1> QED
    BY <1>8, <1>9, <1>10, <1>11, ArrangedIs

(* A sequence for each element of another, one after the other. *)
OneForEach(S, p, f, ss) ==
    /\ p \in Seq(S) /\ IsInjective(p) /\ f \in [ToSet(p) -> Seq(S)]
    /\ \A e \in ToSet(p) : IsInjective(f[e])
    /\ \A e, g \in ToSet(p) : e # g => ToSet(f[e]) \cap ToSet(f[g]) = {}
    /\ ss \in Seq(Seq(S)) /\ DOMAIN ss = DOMAIN p /\ \A i \in DOMAIN p : ss[i] = f[p[i]]

LEMMA FlattenOver ==
  ASSUME NEW S, NEW p, NEW f, NEW ss, OneForEach(S, p, f, ss), NEW r, r = FlattenSeq(ss)
  PROVE  /\ r \in Seq(S) /\ IsInjective(r)
         /\ \A x : x \in ToSet(r) <=> \E e \in ToSet(p) : x \in ToSet(f[e])
         /\ \A x, y : Before(r, x, y) <=>
                \/ \E e \in ToSet(p) : Before(f[e], x, y)
                \/ \E e, g \in ToSet(p) : Before(p, e, g) /\ x \in ToSet(f[e]) /\ y \in ToSet(f[g])
  <1>0. /\ p \in Seq(S) /\ IsInjective(p) /\ f \in [ToSet(p) -> Seq(S)]
        /\ \A e \in ToSet(p) : IsInjective(f[e])
        /\ \A e, g \in ToSet(p) : e # g => ToSet(f[e]) \cap ToSet(f[g]) = {}
        /\ ss \in Seq(Seq(S)) /\ DOMAIN ss = DOMAIN p /\ \A i \in DOMAIN p : ss[i] = f[p[i]]
    BY DEF OneForEach
  <1>1. Len(p) \in Nat /\ DOMAIN p = 1 .. Len(p) /\ \A i \in DOMAIN p : p[i] \in ToSet(p)
    BY <1>0 DEF ToSet
  <1>2. \A e \in ToSet(p) : \E i \in DOMAIN p : p[i] = e
    BY DEF ToSet
  <1>3. /\ DOMAIN ss = DOMAIN p
        /\ \A i \in DOMAIN p : ss[i] = f[p[i]] /\ IsInjective(ss[i])
    BY <1>0, <1>1
  <1>4. ss \in Seq(Seq(S))
    BY <1>0
  <1>5. Disjoint(ss)
    <2> SUFFICES ASSUME NEW k \in DOMAIN ss, NEW l \in DOMAIN ss, k # l
                 PROVE  ToSet(ss[k]) \cap ToSet(ss[l]) = {}
      BY DEF Disjoint
    <2>1. p[k] \in ToSet(p) /\ p[l] \in ToSet(p) /\ p[k] # p[l]
      BY <1>0, <1>1, <1>3 DEF IsInjective
    <2>2. ss[k] = f[p[k]] /\ ss[l] = f[p[l]]
      BY <1>3
    <2> QED
      BY <1>0, <2>1, <2>2
  <1>6. r = FlattenSeq(ss)
    OBVIOUS
  <1>7. /\ r \in Seq(S) /\ IsInjective(r)
        /\ \A x : x \in ToSet(r) <=> \E k \in DOMAIN ss : x \in ToSet(ss[k])
        /\ \A x, y : Before(r, x, y) <=>
                \/ \E k \in DOMAIN ss : Before(ss[k], x, y)
                \/ \E k, l \in DOMAIN ss : k < l /\ x \in ToSet(ss[k]) /\ y \in ToSet(ss[l])
    <2>1. \A k \in DOMAIN ss : IsInjective(ss[k])
      BY <1>3
    <2> QED
      <3>1. /\ FlattenSeq(ss) \in Seq(S)
            /\ \A x : x \in ToSet(FlattenSeq(ss)) <=> \E k \in DOMAIN ss : x \in ToSet(ss[k])
            /\ \A x, y : Before(FlattenSeq(ss), x, y) <=>
                \/ \E k \in DOMAIN ss : Before(ss[k], x, y)
                \/ \E k, l \in DOMAIN ss : k < l /\ x \in ToSet(ss[k]) /\ y \in ToSet(ss[l])
            /\ Disjoint(ss) /\ (\A k \in DOMAIN ss : IsInjective(ss[k]))
                => IsInjective(FlattenSeq(ss))
        BY <1>4, FlattenIs
      <3> QED
        BY <1>5, <1>6, <2>1, <3>1
  <1>71. /\ \A k \in DOMAIN ss : p[k] \in ToSet(p) /\ ss[k] = f[p[k]]
         /\ \A e \in ToSet(p) : \E k \in DOMAIN ss : p[k] = e /\ ss[k] = f[e]
    BY <1>1, <1>2, <1>3
  <1>8. \A x : x \in ToSet(r) <=> \E e \in ToSet(p) : x \in ToSet(f[e])
    <2>1. \A x : (\E k \in DOMAIN ss : x \in ToSet(ss[k])) <=> \E e \in ToSet(p) : x \in ToSet(f[e])
      BY <1>71
    <2> QED
      BY <1>7, <2>1
  <1>9. ASSUME NEW x, NEW y
        PROVE  Before(r, x, y) <=>
                \/ \E e \in ToSet(p) : Before(f[e], x, y)
                \/ \E e, g \in ToSet(p) : Before(p, e, g) /\ x \in ToSet(f[e]) /\ y \in ToSet(f[g])
    <2>1. (\E k \in DOMAIN ss : Before(ss[k], x, y)) <=> \E e \in ToSet(p) : Before(f[e], x, y)
      BY <1>71
    <2>2. (\E k, l \in DOMAIN ss : k < l /\ x \in ToSet(ss[k]) /\ y \in ToSet(ss[l])) =>
            \E e, g \in ToSet(p) : Before(p, e, g) /\ x \in ToSet(f[e]) /\ y \in ToSet(f[g])
      BY <1>1, <1>3 DEF Before
    <2>3. ASSUME NEW e \in ToSet(p), NEW g \in ToSet(p), Before(p, e, g),
                 x \in ToSet(f[e]), y \in ToSet(f[g])
          PROVE  \E k, l \in DOMAIN ss : k < l /\ x \in ToSet(ss[k]) /\ y \in ToSet(ss[l])
      <3>1. PICK k, l \in DOMAIN p : k < l /\ p[k] = e /\ p[l] = g
        BY <2>3 DEF Before
      <3>2. ss[k] = f[e] /\ ss[l] = f[g] /\ k \in DOMAIN ss /\ l \in DOMAIN ss
        BY <1>3, <3>1
      <3> QED
        BY <2>3, <3>1, <3>2
    <2> QED
      BY <1>7, <2>1, <2>2, <2>3
  <1> QED
    BY <1>7, <1>8, <1>9

LEMMA AppendedIs ==
  ASSUME NEW S, NEW s \in Seq(S), NEW e \in S, Len(s) = 1
  PROVE  /\ Append(s, e) \in Seq(S) /\ Len(Append(s, e)) = 2
         /\ Append(s, e)[1] = s[1] /\ Append(s, e)[2] = e
  <1>1. Append(s, e) \in Seq(S) /\ Len(Append(s, e)) = Len(s) + 1
    OBVIOUS
  <1>2. Append(s, e)[Len(s) + 1] = e
    BY AppendProperties
  <1>3. \A i \in 1 .. Len(s) : Append(s, e)[i] = s[i]
    OBVIOUS
  <1>4. Append(s, e)[1] = s[1]
    <2>1. 1 \in 1 .. Len(s)
      OBVIOUS
    <2> QED
      BY <1>3, <2>1
  <1>5. Append(s, e)[2] = e
    BY <1>2
  <1> QED
    BY <1>1, <1>4, <1>5

LEMMA AppendedText ==
  ASSUME NEW s \in Paths, NEW e \in STRING, Len(s) = 1
  PROVE  /\ Append(s, e) \in Paths /\ Len(Append(s, e)) = 2
         /\ Append(s, e)[1] = s[1] /\ Append(s, e)[2] = e
  <1>1. s \in Seq(STRING)
    BY DEF Paths
  <1> DEFINE S == STRING
  <1>2. s \in Seq(S) /\ e \in S
    BY <1>1
  <1>3. Append(s, e) \in Seq(S) => Append(s, e) \in Paths
    BY DEF Paths
  <1> HIDE DEF S
  <1>4. /\ Append(s, e) \in Seq(S) /\ Len(Append(s, e)) = 2
        /\ Append(s, e)[1] = s[1] /\ Append(s, e)[2] = e
    BY <1>2, AppendedIs
  <1> QED
    BY <1>3, <1>4

LEMMA UpOfSensed ==
  ASSUME NEW s, Sensed(s), NEW key \in ToSet(s)
  PROVE  /\ key \in Paths /\ Len(key) = 3 /\ Up(key, 3) = key
         /\ Up(key, 1) \in Paths /\ Len(Up(key, 1)) = 1
         /\ Up(key, 2) \in Paths /\ Len(Up(key, 2)) = 2
         /\ Up(Up(key, 2), 1) = Up(key, 1)
         /\ Up(key, 2) = Append(Up(key, 1), key[2]) /\ key[2] \in ToSet(Kinds)
  <1>1. key \in Paths /\ Len(key) = 3 /\ key[2] \in ToSet(Kinds)
    BY DEF Sensed
  <1>2. /\ Up(key, 1) \in Paths /\ Len(Up(key, 1)) = 1 /\ Up(key, 1)[1] = key[1]
        /\ Up(key, 2) \in Paths /\ Len(Up(key, 2)) = 2 /\ Up(key, 2)[1] = key[1] /\ Up(key, 2)[2] = key[2]
        /\ Up(Up(key, 2), 1) = Up(key, 1) /\ Up(key, 3) = key
    <2>1. 1 \in 1 .. Len(key) /\ 2 \in 1 .. Len(key) /\ 3 \in 1 .. Len(key)
      BY <1>1
    <2>2. 1 \in 1 .. 1 /\ 1 \in 1 .. 2 /\ 2 \in 1 .. 2
      OBVIOUS
    <2> QED
      BY <1>1, <2>1, <2>2, UpIs
  <1> DEFINE a == Up(key, 1) b == Up(key, 2)
  <1>3. key[2] \in STRING
    <2>1. key \in Seq(STRING) /\ 2 \in 1 .. Len(key)
      BY <1>1 DEF Paths
    <2> QED
      BY <2>1
  <1>4. Append(a, key[2]) \in Seq(STRING) /\ Len(Append(a, key[2])) = 2
        /\ Append(a, key[2])[1] = key[1] /\ Append(a, key[2])[2] = key[2]
    <2>1. a \in Paths /\ Len(a) = 1 /\ a[1] = key[1]
      BY <1>2
    <2> DEFINE kind == key[2]
    <2>2. kind \in STRING
      BY <1>3
    <2> HIDE DEF a, kind
    <2>3. /\ Append(a, kind) \in Paths /\ Len(Append(a, kind)) = 2
          /\ Append(a, kind)[1] = a[1] /\ Append(a, kind)[2] = kind
      BY <2>1, <2>2, AppendedText
    <2> QED
      BY <2>1, <2>3 DEF kind, Paths
  <1>5. b = Append(a, key[2])
    <2>1. b \in Seq(STRING) /\ Len(b) = 2 /\ b[1] = key[1] /\ b[2] = key[2]
      BY <1>2 DEF Paths
    <2> DEFINE c == Append(a, key[2])
    <2> HIDE DEF a, b, c
    <2>2. \A i \in 1 .. 2 : i = 1 \/ i = 2
      OBVIOUS
    <2>3. \A i \in 1 .. Len(b) : b[i] = c[i]
      BY <1>4, <2>1, <2>2 DEF c
    <2>4. b = c
      BY <1>4, <2>1, <2>3, SeqEqual DEF c
    <2> QED
      BY <2>4 DEF c
  <1> QED
    BY <1>1, <1>2, <1>5

LEMMA GroupsAre ==
  ASSUME NEW s, Sensed(s), NEW rows, Positions(rows), NEW device \in Paths, Len(device) = 1
  PROVE  LET r == OrderedGroups(s, device, rows)
         IN /\ r \in Seq(Paths) /\ IsInjective(r)
            /\ ToSet(r) = { Up(key, 2) : key \in { k \in ToSet(s) : Up(k, 1) = device } }
            /\ Follows(r, rows)
  <1> DEFINE groups == [k \in DOMAIN Kinds |-> Append(device, Kinds[k])]
             keep == { Up(key, 2) : key \in ToSet(s) }
             q == Selected(groups, keep)
  <1>1. /\ Kinds \in Seq(STRING) /\ IsInjective(Kinds) /\ Len(Kinds) \in Nat
        /\ DOMAIN Kinds = 1 .. Len(Kinds) /\ \A k \in DOMAIN Kinds : Kinds[k] \in STRING
    BY RowsAssumption
  <1>2. device \in Seq(STRING) /\ Len(device) = 1
    BY DEF Paths
  <1>3. \A k \in STRING : /\ Append(device, k) \in Paths /\ Len(Append(device, k)) = 2
                          /\ Append(device, k)[2] = k /\ Append(device, k)[1] = device[1]
    BY AppendedText
  <1>4. \A k \in STRING : Up(Append(device, k), 1) = device
    <2> TAKE k \in STRING
    <2> DEFINE g == Append(device, k)
    <2>1. g \in Paths /\ Len(g) = 2 /\ g[1] = device[1]
      BY <1>3
    <2> HIDE DEF g
    <2>2. 1 \in 1 .. Len(g) /\ 1 \in 1 .. 1
      BY <2>1
    <2>3. Up(g, 1) \in Seq(STRING) /\ Len(Up(g, 1)) = 1 /\ Up(g, 1)[1] = g[1]
      BY <2>1, <2>2, UpIs DEF Paths
    <2>4. \A i \in 1 .. Len(device) : Up(g, 1)[i] = device[i]
      BY <1>2, <2>1, <2>3
    <2>5. Up(g, 1) = device
      BY <1>2, <2>3, <2>4, SeqEqual
    <2> QED
      BY <2>5 DEF g
  <1>5. /\ DOMAIN groups = DOMAIN Kinds /\ groups = [i \in 1 .. Len(Kinds) |-> groups[i]]
        /\ \A k \in DOMAIN Kinds : groups[k] \in Paths /\ groups[k] = Append(device, Kinds[k])
    BY <1>1, <1>3
  <1> HIDE DEF groups
  <1>6. groups \in Seq(Paths)
    BY <1>1, <1>5
  <1>7. IsInjective(groups)
    BY <1>1, <1>3, <1>5 DEF IsInjective
  <1>8. /\ q \in Seq(Paths) /\ IsInjective(q) /\ ToSet(q) = ToSet(groups) \cap keep
    <2> HIDE DEF keep
    <2> QED
      BY <1>6, <1>7, SelectedIs
  <1>9. ASSUME NEW x
        PROVE  x \in ToSet(q) <=> x \in { Up(key, 2) : key \in { k \in ToSet(s) : Up(k, 1) = device } }
    <2>1. ASSUME x \in ToSet(q)
          PROVE  x \in { Up(key, 2) : key \in { k \in ToSet(s) : Up(k, 1) = device } }
      <3>1. PICK k \in DOMAIN Kinds : x = Append(device, Kinds[k])
        <4>1. x \in ToSet(groups)
          BY <1>8, <2>1
        <4>2. PICK k \in DOMAIN groups : x = groups[k]
          BY <4>1 DEF ToSet
        <4> QED
          BY <1>5, <4>2
      <3>2. PICK key \in ToSet(s) : x = Up(key, 2)
        BY <1>8, <2>1
      <3>3. Up(x, 1) = device
        BY <1>1, <1>4, <3>1
      <3>4. Up(x, 1) = Up(key, 1)
        BY <3>2, UpOfSensed
      <3> QED
        BY <3>2, <3>3, <3>4
    <2>2. ASSUME NEW key \in ToSet(s), Up(key, 1) = device, x = Up(key, 2)
          PROVE  x \in ToSet(q)
      <3>1. x = Append(device, key[2]) /\ key[2] \in ToSet(Kinds)
        BY <2>2, UpOfSensed
      <3>2. PICK k \in DOMAIN Kinds : Kinds[k] = key[2]
        BY <3>1 DEF ToSet
      <3>3. groups[k] = x
        BY <1>5, <3>1, <3>2
      <3> QED
        BY <1>5, <1>8, <2>2, <3>3 DEF ToSet
    <2> QED
      BY <2>1, <2>2
  <1> DEFINE under == { Up(key, 2) : key \in { k \in ToSet(s) : Up(k, 1) = device } }
  <1>10. ToSet(q) = under
    <2> HIDE DEF q
    <2> QED
      BY <1>9
  <1>11. OrderedGroups(s, device, rows) = Arranged(q, rows)
    BY DEF OrderedGroups, groups
  <1>12. rows \in Seq(Paths) /\ IsInjective(rows)
    BY DEF Positions
  <1> HIDE DEF q
  <1> QED
    BY <1>8, <1>10, <1>11, <1>12, ArrangedIs

LEMMA SensorsAre ==
  ASSUME NEW s, Sensed(s), NEW rows, Positions(rows), NEW group
  PROVE  LET r == OrderedSensors(s, group, rows)
         IN /\ r \in Seq(Paths) /\ IsInjective(r)
            /\ ToSet(r) = { key \in ToSet(s) : Up(key, 2) = group }
            /\ Follows(r, rows)
  <1> DEFINE keep == { key \in ToSet(s) : Up(key, 2) = group }
             q == Selected(s, keep)
  <1>1. s \in Seq(Paths) /\ IsInjective(s)
    BY DEF Sensed
  <1>2. q \in Seq(Paths) /\ IsInjective(q) /\ ToSet(q) = ToSet(s) \cap keep
    <2> HIDE DEF keep
    <2> QED
      BY <1>1, SelectedIs
  <1>3. ToSet(q) = keep
    BY <1>2
  <1>4. rows \in Seq(Paths) /\ IsInjective(rows)
    BY DEF Positions
  <1>5. OrderedSensors(s, group, rows) = Arranged(q, rows)
    BY DEF OrderedSensors
  <1> HIDE DEF q
  <1> QED
    BY <1>2, <1>3, <1>4, <1>5, ArrangedIs

LEMMA SingleIs ==
  ASSUME NEW S, NEW x \in S
  PROVE  /\ <<x>> \in Seq(S) /\ IsInjective(<<x>>) /\ ToSet(<<x>>) = {x}
         /\ \A y, z : ~ Before(<<x>>, y, z)
  <1>1. <<x>> \in Seq(S) /\ DOMAIN <<x>> = {1}
    OBVIOUS
  <1>2. ToSet(<<x>>) = {x}
    BY DEF ToSet
  <1>3. \A i, j \in {1} : i = j /\ ~ (i < j)
    OBVIOUS
  <1> QED
    BY <1>1, <1>2, <1>3 DEF IsInjective, Before

LEMMA GroupEntriesAre ==
  ASSUME NEW s, Sensed(s), NEW o, Positions(o.rows), NEW group \in Paths, Len(group) = 2
  PROVE  LET r == GroupEntries(s, o, group)
             q == OrderedSensors(s, group, o.rows)
         IN /\ r \in Seq(Paths) /\ IsInjective(r)
            /\ \A x : x \in ToSet(r) <=> x = group \/ (x \in ToSet(s) /\ Up(x, 2) = group)
            /\ \A x, y : Before(r, x, y) <=> (x = group /\ y \in ToSet(q)) \/ Before(q, x, y)
  <1> DEFINE q == OrderedSensors(s, group, o.rows)
             a == <<group>>
             r == a \o q
  <1>1. q \in Seq(Paths) /\ IsInjective(q) /\ ToSet(q) = { key \in ToSet(s) : Up(key, 2) = group }
    BY SensorsAre
  <1>2. a \in Seq(Paths) /\ IsInjective(a) /\ ToSet(a) = {group} /\ \A y, z : ~ Before(a, y, z)
    BY SingleIs
  <1>3. ToSet(a) \cap ToSet(q) = {}
    <2>1. \A key \in ToSet(s) : Len(key) = 3
      BY DEF Sensed
    <2> HIDE DEF a, q
    <2>2. \A key \in ToSet(q) : Len(key) = 3
      BY <1>1, <2>1
    <2>3. group \notin ToSet(q)
      BY <2>2
    <2> QED
      BY <1>2, <2>3
  <1>4. GroupEntries(s, o, group) = r
    BY DEF GroupEntries
  <1> HIDE DEF a, q
  <1>5. /\ r \in Seq(Paths)
        /\ ToSet(r) = ToSet(a) \cup ToSet(q)
        /\ \A x, y : Before(r, x, y) <=>
                (Before(a, x, y) \/ Before(q, x, y) \/ (x \in ToSet(a) /\ y \in ToSet(q)))
        /\ IsInjective(a) /\ IsInjective(q) /\ ToSet(a) \cap ToSet(q) = {}
                => IsInjective(r)
    <2>1. q \in Seq(Paths) /\ a \in Seq(Paths)
      BY <1>1, <1>2
    <2> QED
      BY <2>1, ConcatIs
  <1> HIDE DEF r
  <1>6. IsInjective(r)
    BY <1>1, <1>2, <1>3, <1>5
  <1>7. \A x : x \in ToSet(r) <=> x = group \/ (x \in ToSet(s) /\ Up(x, 2) = group)
    BY <1>1, <1>2, <1>5
  <1>8. \A x, y : Before(r, x, y) <=> (x = group /\ y \in ToSet(q)) \/ Before(q, x, y)
    BY <1>2, <1>5
  <1> QED
    BY <1>4, <1>5, <1>6, <1>7, <1>8 DEF q

LEMMA DeviceEntriesAre ==
  ASSUME NEW s, Sensed(s), NEW o, Positions(o.rows), NEW device \in Paths, Len(device) = 1
  PROVE  LET r == DeviceEntries(s, o, device)
             p == OrderedGroups(s, device, o.rows)
         IN /\ r \in Seq(Paths) /\ IsInjective(r)
            /\ \A x : x \in ToSet(r) <=>
                    x = device \/ \E g \in ToSet(p) : x \in ToSet(GroupEntries(s, o, g))
            /\ \A x, y : Before(r, x, y) <=>
                    \/ x = device /\ y # device /\ y \in ToSet(r)
                    \/ \E g \in ToSet(p) : Before(GroupEntries(s, o, g), x, y)
                    \/ \E g, h \in ToSet(p) : /\ Before(p, g, h)
                                              /\ x \in ToSet(GroupEntries(s, o, g))
                                              /\ y \in ToSet(GroupEntries(s, o, h))
  <1> DEFINE p == OrderedGroups(s, device, o.rows)
             f == [g \in ToSet(p) |-> GroupEntries(s, o, g)]
             ss == [i \in DOMAIN p |-> GroupEntries(s, o, p[i])]
             q == FlattenSeq(ss)
             a == <<device>>
             r == a \o q
  <1>1. p \in Seq(Paths) /\ IsInjective(p)
        /\ ToSet(p) = { Up(key, 2) : key \in { k \in ToSet(s) : Up(k, 1) = device } }
    BY GroupsAre
  <1>2. \A g \in ToSet(p) : g \in Paths /\ Len(g) = 2
    BY <1>1, UpOfSensed
  <1>3. a \in Seq(Paths) /\ IsInjective(a) /\ ToSet(a) = {device} /\ \A y, z : ~ Before(a, y, z)
    BY SingleIs
  <1>4. DeviceEntries(s, o, device) = a \o FlattenSeq(ss)
    BY DEF DeviceEntries
  <1> HIDE DEF p, a
  <1>5. \A g \in ToSet(p) : /\ f[g] = GroupEntries(s, o, g)
                            /\ f[g] \in Seq(Paths) /\ IsInjective(f[g])
                            /\ \A x : x \in ToSet(f[g]) <=> x = g \/ (x \in ToSet(s) /\ Up(x, 2) = g)
    BY <1>2, GroupEntriesAre
  <1>6. ss \in Seq(Seq(Paths)) /\ DOMAIN ss = DOMAIN p /\ \A i \in DOMAIN p : ss[i] = f[p[i]]
    <2>1. \A i \in DOMAIN p : p[i] \in ToSet(p)
      BY DEF ToSet
    <2>2. Len(p) \in Nat /\ DOMAIN p = 1 .. Len(p) /\ DOMAIN ss = 1 .. Len(p)
      BY <1>1
    <2>3. \A i \in DOMAIN p : ss[i] = f[p[i]] /\ ss[i] \in Seq(Paths)
      BY <1>5, <2>1
    <2>4. ss = [i \in 1 .. Len(p) |-> ss[i]]
      BY <2>2
    <2> HIDE DEF f, ss
    <2> QED
      BY <2>2, <2>3, <2>4
  <1> HIDE DEF f, ss
  <1>7. \A key \in ToSet(s) : Len(key) = 3
    BY DEF Sensed
  <1>8. \A g, h \in ToSet(p) : g # h => ToSet(f[g]) \cap ToSet(f[h]) = {}
    <2> SUFFICES ASSUME NEW g \in ToSet(p), NEW h \in ToSet(p), g # h, NEW x,
                        x \in ToSet(f[g]), x \in ToSet(f[h])
                 PROVE  FALSE
      OBVIOUS
    <2>1. x = g \/ (x \in ToSet(s) /\ Up(x, 2) = g)
      BY <1>5
    <2>2. x = h \/ (x \in ToSet(s) /\ Up(x, 2) = h)
      BY <1>5
    <2>3. Len(g) = 2 /\ Len(h) = 2
      BY <1>2
    <2> QED
      BY <1>7, <2>1, <2>2, <2>3
  <1>9. /\ q \in Seq(Paths) /\ IsInjective(q)
        /\ \A x : x \in ToSet(q) <=> \E e \in ToSet(p) : x \in ToSet(f[e])
        /\ \A x, y : Before(q, x, y) <=>
                \/ \E e \in ToSet(p) : Before(f[e], x, y)
                \/ \E e, g \in ToSet(p) : Before(p, e, g) /\ x \in ToSet(f[e]) /\ y \in ToSet(f[g])
    <2>1. f \in [ToSet(p) -> Seq(Paths)] /\ \A g \in ToSet(p) : IsInjective(f[g])
      BY <1>5 DEF f
    <2>2. p \in Seq(Paths) /\ IsInjective(p)
      BY <1>1
    <2>3. q = FlattenSeq(ss)
      OBVIOUS
    <2> HIDE DEF q
    <2> QED
      <3>1. OneForEach(Paths, p, f, ss)
        BY <1>6, <1>8, <2>1, <2>2 DEF OneForEach
      <3> QED
        BY <2>3, <3>1, FlattenOver
  <1> HIDE DEF q
  <1>10. device \notin ToSet(q)
    <2> SUFFICES ASSUME device \in ToSet(q) PROVE FALSE
      OBVIOUS
    <2>1. PICK g \in ToSet(p) : device \in ToSet(f[g])
      BY <1>9
    <2>2. device = g \/ device \in ToSet(s)
      BY <1>5, <2>1
    <2>3. Len(g) = 2
      BY <1>2
    <2> QED
      BY <1>7, <2>2, <2>3
  <1>11. ToSet(a) \cap ToSet(q) = {}
    BY <1>3, <1>10
  <1>12. /\ r \in Seq(Paths)
         /\ ToSet(r) = ToSet(a) \cup ToSet(q)
         /\ \A x, y : Before(r, x, y) <=>
                (Before(a, x, y) \/ Before(q, x, y) \/ (x \in ToSet(a) /\ y \in ToSet(q)))
         /\ IsInjective(a) /\ IsInjective(q) /\ ToSet(a) \cap ToSet(q) = {}
                => IsInjective(r)
    <2>1. a \in Seq(Paths) /\ q \in Seq(Paths)
      BY <1>3, <1>9
    <2> QED
      BY <2>1, ConcatIs
  <1> HIDE DEF r
  <1>13. IsInjective(r)
    BY <1>3, <1>9, <1>11, <1>12
  <1>14. \A x : x \in ToSet(r) <=> x = device \/ x \in ToSet(q)
    BY <1>3, <1>12
  <1>15. \A x, y : Before(r, x, y) <=> (x = device /\ y # device /\ y \in ToSet(r)) \/ Before(q, x, y)
    BY <1>3, <1>10, <1>12
  <1>16. \A x : x \in ToSet(r) <=>
                    x = device \/ \E g \in ToSet(p) : x \in ToSet(GroupEntries(s, o, g))
    BY <1>5, <1>9, <1>14
  <1>17. ASSUME NEW x, NEW y
         PROVE  Before(r, x, y) <=>
                    \/ x = device /\ y # device /\ y \in ToSet(r)
                    \/ \E g \in ToSet(p) : Before(GroupEntries(s, o, g), x, y)
                    \/ \E g, h \in ToSet(p) : /\ Before(p, g, h)
                                              /\ x \in ToSet(GroupEntries(s, o, g))
                                              /\ y \in ToSet(GroupEntries(s, o, h))
    <2>1. (\E e \in ToSet(p) : Before(f[e], x, y)) <=>
          \E g \in ToSet(p) : Before(GroupEntries(s, o, g), x, y)
      BY <1>5
    <2>2. (\E e, g \in ToSet(p) : Before(p, e, g) /\ x \in ToSet(f[e]) /\ y \in ToSet(f[g])) <=>
          \E g, h \in ToSet(p) : /\ Before(p, g, h)
                                 /\ x \in ToSet(GroupEntries(s, o, g))
                                 /\ y \in ToSet(GroupEntries(s, o, h))
      BY <1>5
    <2> QED
      BY <1>9, <1>15, <2>1, <2>2
  <1> QED
    BY <1>4, <1>12, <1>13, <1>16, <1>17 DEF r, p, q, ss

(* Where an entry belongs. *)
LEMMA EntryOfGroup ==
  ASSUME NEW s, Sensed(s), NEW o, Positions(o.rows), NEW group \in Paths, Len(group) = 2,
         NEW x \in ToSet(GroupEntries(s, o, group))
  PROVE  /\ x \in Paths /\ Len(x) \in 2 .. 3 /\ Up(x, 2) = group /\ Up(x, 1) = Up(group, 1)
         /\ x = group \/ x \in ToSet(s)
         /\ Len(x) = 2 => x = group
  <1>1. x = group \/ (x \in ToSet(s) /\ Up(x, 2) = group)
    BY GroupEntriesAre
  <1>2. CASE x = group
    <2>1. 2 \in 1 .. Len(group)
      OBVIOUS
    <2> QED
      BY <1>2, <2>1, UpIs
  <1>3. CASE x \in ToSet(s) /\ Up(x, 2) = group
    <2>1. /\ x \in Paths /\ Len(x) = 3 /\ Up(x, 2) = group /\ x \in ToSet(s)
          /\ Up(Up(x, 2), 1) = Up(x, 1)
      BY <1>3, UpOfSensed
    <2>2. Len(x) \in 2 .. 3 /\ Len(x) # 2
      BY <2>1
    <2> QED
      BY <2>1, <2>2
  <1> QED
    BY <1>1, <1>2, <1>3

LEMMA EntryOfDevice ==
  ASSUME NEW s, Sensed(s), NEW o, Positions(o.rows), NEW device \in Paths, Len(device) = 1,
         NEW x \in ToSet(DeviceEntries(s, o, device))
  PROVE  /\ x \in Paths /\ Len(x) \in 1 .. 3 /\ Up(x, 1) = device
         /\ Len(x) = 1 => x = device
         /\ Len(x) # 1 => /\ Up(x, 2) \in ToSet(OrderedGroups(s, device, o.rows))
                          /\ x \in ToSet(GroupEntries(s, o, Up(x, 2)))
                          /\ \E key \in ToSet(s) : Up(key, 2) = Up(x, 2)
                          /\ Len(x) = 2 \/ x \in ToSet(s)
  <1> DEFINE p == OrderedGroups(s, device, o.rows)
  <1>1. x = device \/ \E g \in ToSet(p) : x \in ToSet(GroupEntries(s, o, g))
    BY DeviceEntriesAre
  <1>2. ToSet(p) = { Up(key, 2) : key \in { k \in ToSet(s) : Up(k, 1) = device } }
    BY GroupsAre
  <1> HIDE DEF p
  <1>3. CASE x = device
    <2>1. 1 \in 1 .. Len(device)
      OBVIOUS
    <2> QED
      BY <1>3, <2>1, UpIs
  <1>4. CASE \E g \in ToSet(p) : x \in ToSet(GroupEntries(s, o, g))
    <2>1. PICK g \in ToSet(p) : x \in ToSet(GroupEntries(s, o, g))
      BY <1>4
    <2>2. PICK key \in ToSet(s) : g = Up(key, 2) /\ Up(key, 1) = device
      BY <1>2
    <2>3. g \in Paths /\ Len(g) = 2 /\ Up(g, 1) = device
      BY <2>2, UpOfSensed
    <2>4. /\ x \in Paths /\ Len(x) \in 2 .. 3 /\ Up(x, 2) = g /\ Up(x, 1) = Up(g, 1)
          /\ x = g \/ x \in ToSet(s)
      BY <2>1, <2>3, EntryOfGroup
    <2>5. Len(x) = 2 \/ x \in ToSet(s)
      BY <2>3, <2>4
    <2>6. Len(x) \in 1 .. 3 /\ Len(x) # 1
      BY <2>4
    <2> QED
      BY <2>1, <2>2, <2>3, <2>4, <2>5, <2>6 DEF p
  <1> QED
    BY <1>1, <1>3, <1>4

LEMMA OrderEntriesAre ==
  ASSUME NEW s, Sensed(s), NEW o, Positions(o.devices), Positions(o.rows)
  PROVE  LET r == OrderEntries(s, o)
             p == OrderedDevices(s, o.devices)
         IN /\ r \in Seq(Paths) /\ IsInjective(r)
            /\ \A x : x \in ToSet(r) <=> \E d \in ToSet(p) : x \in ToSet(DeviceEntries(s, o, d))
            /\ \A x, y : Before(r, x, y) <=>
                    \/ \E d \in ToSet(p) : Before(DeviceEntries(s, o, d), x, y)
                    \/ \E d, e \in ToSet(p) : /\ Before(p, d, e)
                                              /\ x \in ToSet(DeviceEntries(s, o, d))
                                              /\ y \in ToSet(DeviceEntries(s, o, e))
  <1> DEFINE p == OrderedDevices(s, o.devices)
             f == [d \in ToSet(p) |-> DeviceEntries(s, o, d)]
             ss == [i \in DOMAIN p |-> DeviceEntries(s, o, p[i])]
             r == FlattenSeq(ss)
  <1>1. p \in Seq(Paths) /\ IsInjective(p) /\ ToSet(p) = { Up(key, 1) : key \in ToSet(s) }
    BY DevicesAre
  <1>2. \A d \in ToSet(p) : d \in Paths /\ Len(d) = 1
    BY <1>1, UpOfSensed
  <1>3. OrderEntries(s, o) = r
    BY DEF OrderEntries
  <1> HIDE DEF p
  <1>4. \A d \in ToSet(p) : /\ f[d] = DeviceEntries(s, o, d)
                            /\ f[d] \in Seq(Paths) /\ IsInjective(f[d])
                            /\ \A x \in ToSet(f[d]) : Up(x, 1) = d
    BY <1>2, DeviceEntriesAre, EntryOfDevice
  <1>5. ss \in Seq(Seq(Paths)) /\ DOMAIN ss = DOMAIN p /\ \A i \in DOMAIN p : ss[i] = f[p[i]]
    <2>1. \A i \in DOMAIN p : p[i] \in ToSet(p)
      BY DEF ToSet
    <2>2. Len(p) \in Nat /\ DOMAIN p = 1 .. Len(p) /\ DOMAIN ss = 1 .. Len(p)
      BY <1>1
    <2>3. \A i \in DOMAIN p : ss[i] = f[p[i]] /\ ss[i] \in Seq(Paths)
      BY <1>4, <2>1
    <2>4. ss = [i \in 1 .. Len(p) |-> ss[i]]
      BY <2>2
    <2> HIDE DEF f, ss
    <2> QED
      BY <2>2, <2>3, <2>4
  <1>6. OneForEach(Paths, p, f, ss)
    <2>1. f \in [ToSet(p) -> Seq(Paths)]
      BY <1>4
    <2> HIDE DEF f, ss
    <2>2. \A d \in ToSet(p) : IsInjective(f[d])
      BY <1>4
    <2>3. \A d, e \in ToSet(p) : d # e => ToSet(f[d]) \cap ToSet(f[e]) = {}
      BY <1>4
    <2> QED
      BY <1>1, <1>5, <2>1, <2>2, <2>3 DEF OneForEach
  <1> HIDE DEF f, ss, r
  <1>7. /\ r \in Seq(Paths) /\ IsInjective(r)
        /\ \A x : x \in ToSet(r) <=> \E e \in ToSet(p) : x \in ToSet(f[e])
        /\ \A x, y : Before(r, x, y) <=>
                \/ \E e \in ToSet(p) : Before(f[e], x, y)
                \/ \E e, g \in ToSet(p) : Before(p, e, g) /\ x \in ToSet(f[e]) /\ y \in ToSet(f[g])
    BY <1>6, FlattenOver DEF r
  <1>8. \A x : x \in ToSet(r) <=> \E d \in ToSet(p) : x \in ToSet(DeviceEntries(s, o, d))
    BY <1>4, <1>7
  <1>9. ASSUME NEW x, NEW y
        PROVE  Before(r, x, y) <=>
                    \/ \E d \in ToSet(p) : Before(DeviceEntries(s, o, d), x, y)
                    \/ \E d, e \in ToSet(p) : /\ Before(p, d, e)
                                              /\ x \in ToSet(DeviceEntries(s, o, d))
                                              /\ y \in ToSet(DeviceEntries(s, o, e))
    <2>1. (\E e \in ToSet(p) : Before(f[e], x, y)) <=>
          \E d \in ToSet(p) : Before(DeviceEntries(s, o, d), x, y)
      BY <1>4
    <2>2. (\E e, g \in ToSet(p) : Before(p, e, g) /\ x \in ToSet(f[e]) /\ y \in ToSet(f[g])) <=>
          \E d, e \in ToSet(p) : /\ Before(p, d, e)
                                 /\ x \in ToSet(DeviceEntries(s, o, d))
                                 /\ y \in ToSet(DeviceEntries(s, o, e))
      BY <1>4
    <2> QED
      BY <1>7, <2>1, <2>2
  <1> QED
    BY <1>3, <1>7, <1>8, <1>9 DEF p

Settled(s, o) == Sensed(s) /\ Positions(o.devices) /\ Positions(o.rows)

LEMMA EntryIs ==
  ASSUME NEW s, NEW o, Settled(s, o), NEW x \in ToSet(OrderEntries(s, o))
  PROVE  /\ x \in Paths /\ Len(x) \in 1 .. 3
         /\ Up(x, 1) \in Paths /\ Len(Up(x, 1)) = 1
         /\ Up(x, 1) \in ToSet(OrderedDevices(s, o.devices))
         /\ x \in ToSet(DeviceEntries(s, o, Up(x, 1)))
         /\ Len(x) = 1 => Up(x, 1) = x
         /\ Len(x) # 1 => /\ Up(x, 2) \in Paths /\ Len(Up(x, 2)) = 2 /\ Up(Up(x, 2), 1) = Up(x, 1)
                          /\ Up(x, 2) \in ToSet(OrderedGroups(s, Up(x, 1), o.rows))
                          /\ x \in ToSet(GroupEntries(s, o, Up(x, 2)))
         /\ Len(x) = 2 => Up(x, 2) = x
         /\ Len(x) = 3 => /\ x \in ToSet(s) /\ Up(x, 3) = x
                          /\ x \in ToSet(OrderedSensors(s, Up(x, 2), o.rows))
         /\ \E key \in ToSet(s) : x = Up(key, Len(x))
  <1>0. Sensed(s) /\ Positions(o.devices) /\ Positions(o.rows)
    BY DEF Settled
  <1> DEFINE p == OrderedDevices(s, o.devices)
  <1>1. PICK d \in ToSet(p) : x \in ToSet(DeviceEntries(s, o, d))
    BY <1>0, OrderEntriesAre
  <1>2. ToSet(p) = { Up(key, 1) : key \in ToSet(s) }
    BY <1>0, DevicesAre
  <1>3. PICK k \in ToSet(s) : d = Up(k, 1)
    BY <1>1, <1>2
  <1>4. d \in Paths /\ Len(d) = 1
    BY <1>0, <1>3, UpOfSensed
  <1>5. /\ x \in Paths /\ Len(x) \in 1 .. 3 /\ Up(x, 1) = d
        /\ Len(x) = 1 => x = d
        /\ Len(x) # 1 => /\ Up(x, 2) \in ToSet(OrderedGroups(s, d, o.rows))
                         /\ x \in ToSet(GroupEntries(s, o, Up(x, 2)))
                         /\ \E key \in ToSet(s) : Up(key, 2) = Up(x, 2)
                         /\ Len(x) = 2 \/ x \in ToSet(s)
    BY <1>0, <1>1, <1>4, EntryOfDevice
  <1>6. Len(x) # 1 => /\ Up(x, 2) \in Paths /\ Len(Up(x, 2)) = 2 /\ Up(Up(x, 2), 1) = Up(x, 1)
    <2> SUFFICES ASSUME Len(x) # 1
                 PROVE  /\ Up(x, 2) \in Paths /\ Len(Up(x, 2)) = 2 /\ Up(Up(x, 2), 1) = Up(x, 1)
      OBVIOUS
    <2>0. Len(x) \in 1 .. 3
      BY <1>5
    <2>1. 2 \in 1 .. Len(x) /\ 1 \in 1 .. 2
      BY <2>0
    <2> QED
      BY <1>5, <2>1, UpIs
  <1>7. Len(x) = 2 => Up(x, 2) = x
    <2>1. Len(x) = 2 => 2 \in 1 .. Len(x)
      OBVIOUS
    <2> QED
      BY <1>5, <2>1, UpIs
  <1>8. Len(x) = 3 => /\ x \in ToSet(s) /\ Up(x, 3) = x
                      /\ x \in ToSet(OrderedSensors(s, Up(x, 2), o.rows))
    <2> SUFFICES ASSUME Len(x) = 3
                 PROVE  /\ x \in ToSet(s) /\ Up(x, 3) = x
                        /\ x \in ToSet(OrderedSensors(s, Up(x, 2), o.rows))
      OBVIOUS
    <2>1. x \in ToSet(s)
      BY <1>5
    <2>2. ToSet(OrderedSensors(s, Up(x, 2), o.rows)) = { key \in ToSet(s) : Up(key, 2) = Up(x, 2) }
      BY <1>0, SensorsAre
    <2> QED
      BY <1>0, <2>1, <2>2, UpOfSensed
  <1>9. \E key \in ToSet(s) : x = Up(key, Len(x))
    <2>1. CASE Len(x) = 1
      BY <1>3, <1>5, <2>1
    <2>2. CASE Len(x) = 2
      BY <1>5, <1>7, <2>2
    <2>3. CASE Len(x) = 3
      BY <1>8, <2>3
    <2> QED
      BY <1>5, <2>1, <2>2, <2>3
  <1> QED
    BY <1>1, <1>4, <1>5, <1>6, <1>7, <1>8, <1>9

LEMMA EntriesHold ==
  ASSUME NEW s, NEW o, Settled(s, o), NEW key \in ToSet(s)
  PROVE  /\ Up(key, 1) \in ToSet(OrderEntries(s, o))
         /\ Up(key, 2) \in ToSet(OrderEntries(s, o))
         /\ key \in ToSet(OrderEntries(s, o))
  <1>0. Sensed(s) /\ Positions(o.devices) /\ Positions(o.rows)
    BY DEF Settled
  <1> DEFINE d == Up(key, 1) g == Up(key, 2)
  <1>1. d \in Paths /\ Len(d) = 1 /\ g \in Paths /\ Len(g) = 2
    BY <1>0, UpOfSensed
  <1>2. d \in ToSet(OrderedDevices(s, o.devices))
    BY <1>0, DevicesAre
  <1>3. g \in ToSet(OrderedGroups(s, d, o.rows))
    <2>1. ToSet(OrderedGroups(s, d, o.rows)) = { Up(k, 2) : k \in { l \in ToSet(s) : Up(l, 1) = d } }
      BY <1>0, <1>1, GroupsAre
    <2> QED
      BY <2>1
  <1>4. g \in ToSet(GroupEntries(s, o, g)) /\ key \in ToSet(GroupEntries(s, o, g))
    BY <1>0, <1>1, GroupEntriesAre
  <1>5. /\ d \in ToSet(DeviceEntries(s, o, d)) /\ g \in ToSet(DeviceEntries(s, o, d))
        /\ key \in ToSet(DeviceEntries(s, o, d))
    BY <1>0, <1>1, <1>3, <1>4, DeviceEntriesAre
  <1> QED
    BY <1>0, <1>2, <1>5, OrderEntriesAre

(* The order of the entries: of the devices, of the groups of one, of the  *)
(* sensors of one of those, each behind what it belongs to.                *)
LEMMA EntriesFollow ==
  ASSUME NEW s, NEW o, Settled(s, o),
         NEW x \in ToSet(OrderEntries(s, o)), NEW y \in ToSet(OrderEntries(s, o))
  PROVE  /\ Before(OrderedDevices(s, o.devices), Up(x, 1), Up(y, 1)) => Before(OrderEntries(s, o), x, y)
         /\ Len(x) = 1 /\ Len(y) # 1 /\ Up(y, 1) = x => Before(OrderEntries(s, o), x, y)
         /\ /\ Len(x) # 1 /\ Len(y) # 1 /\ Up(x, 1) = Up(y, 1)
            /\ Before(OrderedGroups(s, Up(x, 1), o.rows), Up(x, 2), Up(y, 2))
            => Before(OrderEntries(s, o), x, y)
         /\ Len(x) = 2 /\ Len(y) = 3 /\ Up(y, 2) = x => Before(OrderEntries(s, o), x, y)
         /\ /\ Len(x) = 3 /\ Len(y) = 3 /\ Up(x, 2) = Up(y, 2)
            /\ Before(OrderedSensors(s, Up(x, 2), o.rows), x, y)
            => Before(OrderEntries(s, o), x, y)
  <1> DEFINE e == OrderEntries(s, o)
             p == OrderedDevices(s, o.devices)
  <1>0. Sensed(s) /\ Positions(o.devices) /\ Positions(o.rows)
    BY DEF Settled
  <1>1. \A a, b : Before(e, a, b) <=>
                    \/ \E d \in ToSet(p) : Before(DeviceEntries(s, o, d), a, b)
                    \/ \E d, f \in ToSet(p) : /\ Before(p, d, f)
                                              /\ a \in ToSet(DeviceEntries(s, o, d))
                                              /\ b \in ToSet(DeviceEntries(s, o, f))
    BY <1>0, OrderEntriesAre
  <1>2. /\ Up(x, 1) \in ToSet(p) /\ x \in ToSet(DeviceEntries(s, o, Up(x, 1)))
        /\ Up(y, 1) \in ToSet(p) /\ y \in ToSet(DeviceEntries(s, o, Up(y, 1)))
    BY EntryIs
  <1> HIDE DEF e, p
  <1>3. Before(p, Up(x, 1), Up(y, 1)) => Before(e, x, y)
    BY <1>1, <1>2
  <1> DEFINE d == Up(x, 1)
             q == OrderedGroups(s, d, o.rows)
             r == DeviceEntries(s, o, d)
  <1>4. Before(r, x, y) => Before(e, x, y)
    BY <1>1, <1>2
  <1>5. \A a, b : Before(r, a, b) <=>
                    \/ a = d /\ b # d /\ b \in ToSet(r)
                    \/ \E g \in ToSet(q) : Before(GroupEntries(s, o, g), a, b)
                    \/ \E g, h \in ToSet(q) : /\ Before(q, g, h)
                                              /\ a \in ToSet(GroupEntries(s, o, g))
                                              /\ b \in ToSet(GroupEntries(s, o, h))
    <2>1. d \in Paths /\ Len(d) = 1
      BY EntryIs
    <2> HIDE DEF d
    <2> QED
      BY <1>0, <2>1, DeviceEntriesAre
  <1>6. ASSUME Len(x) = 1, Len(y) # 1, Up(y, 1) = x
        PROVE  Before(e, x, y)
    <2>1. x = d /\ y # d /\ y \in ToSet(r)
      BY <1>2, <1>6, EntryIs
    <2> HIDE DEF d, r, q
    <2> QED
      BY <1>4, <1>5, <2>1
  <1>7. ASSUME Len(x) # 1, Len(y) # 1, Up(x, 1) = Up(y, 1), Before(q, Up(x, 2), Up(y, 2))
        PROVE  Before(e, x, y)
    <2>1. /\ Up(x, 2) \in ToSet(q) /\ x \in ToSet(GroupEntries(s, o, Up(x, 2)))
          /\ Up(y, 2) \in ToSet(q) /\ y \in ToSet(GroupEntries(s, o, Up(y, 2)))
      BY <1>7, EntryIs
    <2> HIDE DEF d, r, q
    <2> QED
      BY <1>4, <1>5, <1>7, <2>1
  <1>8. ASSUME Len(x) # 1, Len(y) # 1, Up(x, 2) = Up(y, 2), Before(GroupEntries(s, o, Up(x, 2)), x, y)
        PROVE  Before(e, x, y)
    <2>1. Up(x, 2) \in ToSet(q)
      BY <1>8, EntryIs
    <2> HIDE DEF d, r, q
    <2> QED
      BY <1>4, <1>5, <1>8, <2>1
  <1>9. ASSUME Len(x) # 1, Len(y) # 1, Up(x, 2) = Up(y, 2)
        PROVE  \A a, b : Before(GroupEntries(s, o, Up(x, 2)), a, b) <=>
                    \/ a = Up(x, 2) /\ b \in ToSet(OrderedSensors(s, Up(x, 2), o.rows))
                    \/ Before(OrderedSensors(s, Up(x, 2), o.rows), a, b)
    <2>1. Up(x, 2) \in Paths /\ Len(Up(x, 2)) = 2
      BY <1>9, EntryIs
    <2> QED
      BY <1>0, <2>1, GroupEntriesAre
  <1>10. ASSUME Len(x) = 2, Len(y) = 3, Up(y, 2) = x
         PROVE  Before(e, x, y)
    <2>1. Len(x) # 1 /\ Len(y) # 1 /\ Up(x, 2) = x /\ y \in ToSet(OrderedSensors(s, Up(y, 2), o.rows))
      BY <1>10, EntryIs
    <2>2. Before(GroupEntries(s, o, Up(x, 2)), x, y)
      BY <1>9, <1>10, <2>1
    <2> QED
      BY <1>8, <1>10, <2>1, <2>2
  <1>11. ASSUME Len(x) = 3, Len(y) = 3, Up(x, 2) = Up(y, 2), Before(OrderedSensors(s, Up(x, 2), o.rows), x, y)
         PROVE  Before(e, x, y)
    <2>1. Len(x) # 1 /\ Len(y) # 1
      BY <1>11
    <2>2. Before(GroupEntries(s, o, Up(x, 2)), x, y)
      BY <1>9, <1>11, <2>1
    <2> QED
      BY <1>8, <1>11, <2>1, <2>2
  <1> QED
    BY <1>3, <1>6, <1>7, <1>10, <1>11 DEF e, p

(* Entries of a tree: each once, behind the ones it belongs to, and with   *)
(* nothing between that does not.                                          *)
Same(x, y, n) == n <= Len(x) /\ n <= Len(y) /\ Up(x, n) = Up(y, n)

Tree(t) ==
    /\ t \in Seq(Paths) /\ IsInjective(t)
    /\ \A x \in ToSet(t) : Len(x) \in 1 .. 3
    /\ \A x \in ToSet(t), n \in 1 .. 3 : n < Len(x) => Before(t, Up(x, n), x)
    /\ \A x, y, z \in ToSet(t), n \in 1 .. 3 :
          Before(t, x, y) /\ Before(t, y, z) /\ Same(x, z, n) => Same(x, y, n)

(* Entries next to each other in a tree follow the order of the settings.  *)
Beside(x, y) == Len(x) = Len(y) /\ \A n \in 1 .. Len(x) - 1 : Up(x, n) = Up(y, n)

Placed(t, o) ==
    \A x, y \in ToSet(t) :
        LET positions == IF Len(x) = 1 THEN o.devices ELSE o.rows
        IN /\ Beside(x, y) /\ x \in ToSet(positions)
           /\ y \notin ToSet(positions) \/ Before(positions, x, y)
           => Before(t, x, y)

LEMMA EmptyTree == Tree(<<>>)
  <1>1. ToSet(<<>>) = {} /\ IsInjective(<<>>) /\ <<>> \in Seq(Paths)
    BY DEF ToSet, IsInjective
  <1> QED
    BY <1>1 DEF Tree

LEMMA EntriesAreTree ==
  ASSUME NEW s, NEW o, Settled(s, o)
  PROVE  Tree(OrderEntries(s, o))
  <1> DEFINE t == OrderEntries(s, o)
             p == OrderedDevices(s, o.devices)
  <1>0. Sensed(s) /\ Positions(o.devices) /\ Positions(o.rows)
    BY DEF Settled
  <1>1. t \in Seq(Paths) /\ IsInjective(t)
    BY <1>0, OrderEntriesAre
  <1>2. /\ \A x, y : Before(t, x, y) => x \in ToSet(t) /\ y \in ToSet(t) /\ x # y
        /\ \A x, y \in ToSet(t) : x # y => Before(t, x, y) \/ Before(t, y, x)
        /\ \A x, y : ~ (Before(t, x, y) /\ Before(t, y, x))
        /\ \A x, y, z : Before(t, x, y) /\ Before(t, y, z) => Before(t, x, z)
    <2> HIDE DEF t
    <2> QED
      BY <1>1, BeforeIsTotal
  <1>3. p \in Seq(Paths) /\ IsInjective(p)
    BY <1>0, DevicesAre
  <1>4. \A a, b \in ToSet(p) : a # b => Before(p, a, b) \/ Before(p, b, a)
    <2> HIDE DEF p
    <2> QED
      BY <1>3, BeforeIsTotal
  <1>5. \A x \in ToSet(t) : Len(x) \in 1 .. 3
    BY EntryIs
  <1>6. ASSUME NEW x \in ToSet(t), NEW n \in 1 .. 3, n < Len(x)
        PROVE  Before(t, Up(x, n), x)
    <2>1. PICK key \in ToSet(s) : x = Up(key, Len(x))
      BY EntryIs
    <2>2. Len(x) \in 1 .. 3
      BY <1>5
    <2>3. /\ key \in Paths /\ Len(key) = 3 /\ Up(key, 1) \in ToSet(t) /\ Up(key, 2) \in ToSet(t)
          /\ Len(Up(key, 1)) = 1 /\ Len(Up(key, 2)) = 2 /\ Up(Up(key, 2), 1) = Up(key, 1)
          /\ Up(key, 3) = key
      BY <1>0, EntriesHold, UpOfSensed
    <2>4. CASE Len(x) = 2
      <3>1. n = 1 /\ x = Up(key, 2) /\ Up(x, n) = Up(key, 1)
        BY <1>6, <2>1, <2>3, <2>4
      <3>2. Before(t, Up(key, 1), x)
        BY <2>3, <3>1, EntriesFollow
      <3> QED
        BY <3>1, <3>2
    <2>5. CASE Len(x) = 3
      <3>1. (n = 1 \/ n = 2) /\ x = key /\ Up(x, n) = Up(key, n)
        BY <1>6, <2>1, <2>3, <2>5
      <3>2. Before(t, Up(key, 1), x) /\ Before(t, Up(key, 2), x)
        BY <2>3, <2>5, <3>1, EntriesFollow
      <3> QED
        BY <3>1, <3>2
    <2> QED
      BY <1>6, <2>2, <2>4, <2>5
  <1>7. ASSUME NEW x \in ToSet(t), NEW y \in ToSet(t), NEW z \in ToSet(t),
               Before(t, x, y), Before(t, y, z), Same(x, z, 1)
        PROVE  Up(x, 1) = Up(y, 1)
    <2> SUFFICES ASSUME Up(x, 1) # Up(y, 1) PROVE FALSE
      OBVIOUS
    <2>1. Up(x, 1) \in ToSet(p) /\ Up(y, 1) \in ToSet(p) /\ Up(x, 1) = Up(z, 1)
      BY <1>7, EntryIs DEF Same
    <2>2. CASE Before(p, Up(x, 1), Up(y, 1))
      <3>1. Before(t, z, y)
        BY <2>1, <2>2, EntriesFollow
      <3> QED
        BY <1>2, <1>7, <3>1
    <2>3. CASE Before(p, Up(y, 1), Up(x, 1))
      <3>1. Before(t, y, x)
        BY <2>3, EntriesFollow
      <3> QED
        BY <1>2, <1>7, <3>1
    <2> QED
      BY <1>4, <2>1, <2>2, <2>3
  <1>8. ASSUME NEW x \in ToSet(t), NEW y \in ToSet(t), NEW z \in ToSet(t),
               Before(t, x, y), Before(t, y, z), Same(x, z, 2)
        PROVE  Same(x, y, 2)
    <2>0. Len(x) \in 1 .. 3 /\ Len(z) \in 1 .. 3
      BY <1>5
    <2>1. Len(x) # 1 /\ Len(z) # 1 /\ Up(x, 2) = Up(z, 2) /\ Len(x) \in 1 .. 3 /\ Len(z) \in 1 .. 3
      <3>1. 2 <= Len(x) /\ 2 <= Len(z) /\ Up(x, 2) = Up(z, 2)
        BY <1>8 DEF Same
      <3>2. \A m \in 1 .. 3 : 2 <= m => m # 1
        OBVIOUS
      <3> HIDE DEF t
      <3> QED
        BY <2>0, <3>1, <3>2
    <2>2. Up(x, 1) = Up(z, 1)
      <3>1. Up(Up(x, 2), 1) = Up(x, 1) /\ Up(Up(z, 2), 1) = Up(z, 1)
        BY <2>1, EntryIs
      <3> QED
        BY <2>1, <3>1
    <2>3. Up(x, 1) = Up(y, 1)
      BY <1>7, <1>8, <2>1, <2>2 DEF Same
    <2>4. Len(y) # 1
      <3> SUFFICES ASSUME Len(y) = 1 PROVE FALSE
        OBVIOUS
      <3>1. Up(y, 1) = y
        BY EntryIs
      <3>2. Before(t, y, x)
        BY <2>1, <2>3, <3>1, EntriesFollow
      <3> QED
        BY <1>2, <1>8, <3>2
    <2>5. Up(x, 2) = Up(y, 2)
      <3> SUFFICES ASSUME Up(x, 2) # Up(y, 2) PROVE FALSE
        OBVIOUS
      <3> DEFINE q == OrderedGroups(s, Up(x, 1), o.rows)
      <3>1. Up(x, 2) \in ToSet(q) /\ Up(y, 2) \in ToSet(q)
        BY <2>1, <2>3, <2>4, EntryIs
      <3>2. q \in Seq(Paths) /\ IsInjective(q)
        <4>1. Up(x, 1) \in Paths /\ Len(Up(x, 1)) = 1
          BY EntryIs
        <4> QED
          BY <1>0, <4>1, GroupsAre
      <3>3. \A a, b \in ToSet(q) : a # b => Before(q, a, b) \/ Before(q, b, a)
        <4> HIDE DEF q
        <4> QED
          BY <3>2, BeforeIsTotal
      <3>4. CASE Before(q, Up(x, 2), Up(y, 2))
        <4>1. Before(t, z, y)
          BY <2>1, <2>2, <2>3, <2>4, <3>4, EntriesFollow
        <4> QED
          BY <1>2, <1>8, <4>1
      <3>5. CASE Before(q, Up(y, 2), Up(x, 2))
        <4>1. Before(t, y, x)
          BY <2>1, <2>3, <2>4, <3>5, EntriesFollow
        <4> QED
          BY <1>2, <1>8, <4>1
      <3> QED
        BY <3>1, <3>3, <3>4, <3>5
    <2>6. Len(y) \in 1 .. 3
      BY <1>5
    <2> QED
      BY <2>1, <2>4, <2>5, <2>6 DEF Same
  <1>9. ASSUME NEW x \in ToSet(t), NEW y \in ToSet(t), NEW z \in ToSet(t),
               Before(t, x, y), Before(t, y, z), Same(x, z, 3)
        PROVE  FALSE
    <2>0. Len(x) \in 1 .. 3 /\ Len(z) \in 1 .. 3
      BY <1>5
    <2>1. Len(x) = 3 /\ Len(z) = 3 /\ Up(x, 3) = Up(z, 3)
      <3>1. 3 <= Len(x) /\ 3 <= Len(z) /\ Up(x, 3) = Up(z, 3)
        BY <1>9 DEF Same
      <3>2. \A m \in 1 .. 3 : 3 <= m => m = 3
        OBVIOUS
      <3> HIDE DEF t
      <3> QED
        BY <2>0, <3>1, <3>2
    <2>2. x = z
      BY <2>1, EntryIs
    <2> QED
      BY <1>2, <1>9, <2>2
  <1>10. ASSUME NEW x \in ToSet(t), NEW y \in ToSet(t), NEW z \in ToSet(t), NEW n \in 1 .. 3,
                Before(t, x, y), Before(t, y, z), Same(x, z, n)
         PROVE  Same(x, y, n)
    <2>1. n = 1 => Same(x, y, n)
      BY <1>5, <1>7, <1>10 DEF Same
    <2>2. n = 2 => Same(x, y, n)
      BY <1>8, <1>10
    <2>3. n # 3
      BY <1>9, <1>10
    <2> QED
      BY <2>1, <2>2, <2>3
  <1> HIDE DEF t
  <1>11. Tree(t)
    BY <1>1, <1>5, <1>6, <1>10 DEF Tree
  <1> QED
    BY <1>11 DEF t

LEMMA EntriesArePlaced ==
  ASSUME NEW s, NEW o, Settled(s, o)
  PROVE  Placed(OrderEntries(s, o), o)
  <1> DEFINE t == OrderEntries(s, o)
  <1>0. Sensed(s) /\ Positions(o.devices) /\ Positions(o.rows)
    BY DEF Settled
  <1> SUFFICES ASSUME NEW x \in ToSet(t), NEW y \in ToSet(t), Beside(x, y),
                      NEW positions, positions = IF Len(x) = 1 THEN o.devices ELSE o.rows,
                      x \in ToSet(positions), y \notin ToSet(positions) \/ Before(positions, x, y)
               PROVE  Before(t, x, y)
    BY DEF Placed
  <1>1. Len(x) = Len(y) /\ Len(x) \in 1 .. 3 /\ \A n \in 1 .. Len(x) - 1 : Up(x, n) = Up(y, n)
    BY EntryIs DEF Beside
  <1>2. CASE Len(x) = 1
    <2> DEFINE p == OrderedDevices(s, o.devices)
    <2>0. Len(x) = 1 /\ Len(y) = 1
      BY <1>1, <1>2
    <2>1. x \in ToSet(p) /\ y \in ToSet(p) /\ Up(x, 1) = x /\ Up(y, 1) = y
      BY <2>0, EntryIs
    <2>2. Follows(p, o.devices)
      BY <1>0, DevicesAre
    <2>3. Before(p, x, y)
      BY <1>2, <2>1, <2>2 DEF Follows
    <2> QED
      BY <2>1, <2>3, EntriesFollow
  <1>3. CASE Len(x) = 2
    <2> DEFINE q == OrderedGroups(s, Up(x, 1), o.rows)
    <2>0. Len(x) = 2 /\ Len(y) = 2 /\ Up(x, 1) = Up(y, 1)
      BY <1>1, <1>3
    <2>1. Up(x, 1) = Up(y, 1) /\ Up(x, 2) = x /\ Up(y, 2) = y /\ Len(x) # 1 /\ Len(y) # 1
      BY <2>0, EntryIs
    <2>2. x \in ToSet(q) /\ y \in ToSet(q)
      BY <2>1, EntryIs
    <2>3. Follows(q, o.rows)
      <3>1. Up(x, 1) \in Paths /\ Len(Up(x, 1)) = 1
        BY EntryIs
      <3> QED
        BY <1>0, <3>1, GroupsAre
    <2>4. Before(q, x, y)
      BY <1>3, <2>2, <2>3 DEF Follows
    <2> QED
      BY <2>1, <2>4, EntriesFollow
  <1>4. CASE Len(x) = 3
    <2> DEFINE q == OrderedSensors(s, Up(x, 2), o.rows)
    <2>1. Up(x, 2) = Up(y, 2) /\ Len(y) = 3
      BY <1>1, <1>4
    <2>2. x \in ToSet(q) /\ y \in ToSet(q)
      BY <1>4, <2>1, EntryIs
    <2>3. Follows(q, o.rows)
      BY <1>0, SensorsAre
    <2>4. Before(q, x, y)
      BY <1>4, <2>2, <2>3 DEF Follows
    <2> QED
      BY <1>4, <2>1, <2>4, EntriesFollow
  <1> QED
    BY <1>1, <1>2, <1>3, <1>4

LEMMA TreeUp ==
  ASSUME NEW t, Tree(t), NEW x \in ToSet(t), NEW n \in 1 .. 3, n <= Len(x)
  PROVE  /\ x \in Paths /\ Len(x) \in 1 .. 3
         /\ Up(x, n) \in Paths /\ Len(Up(x, n)) = n /\ Up(x, n) \in ToSet(t)
         /\ n < Len(x) => Before(t, Up(x, n), x)
         /\ n = Len(x) => Up(x, n) = x
         /\ \A m \in 1 .. n : Up(Up(x, n), m) = Up(x, m)
  <1>1. x \in Paths
    BY DEF Tree, ToSet
  <1>2. Len(x) \in 1 .. 3
    BY DEF Tree
  <1>3. n \in 1 .. Len(x) /\ (n < Len(x) \/ n = Len(x))
    BY <1>2
  <1>4. /\ Up(x, n) \in Paths /\ Len(Up(x, n)) = n
        /\ n = Len(x) => Up(x, n) = x
        /\ \A m \in 1 .. n : Up(Up(x, n), m) = Up(x, m)
    BY <1>1, <1>3, UpIs
  <1>5. n < Len(x) => Before(t, Up(x, n), x)
    BY DEF Tree
  <1>6. \A a, b : Before(t, a, b) => a \in ToSet(t)
    BY DEF Before, ToSet
  <1>7. Up(x, n) \in ToSet(t)
    BY <1>3, <1>4, <1>5, <1>6
  <1> QED
    BY <1>1, <1>2, <1>4, <1>5, <1>7

LEMMA TreeOrder ==
  ASSUME NEW t, Tree(t)
  PROVE  /\ \A x, y : Before(t, x, y) => x \in ToSet(t) /\ y \in ToSet(t) /\ x # y
         /\ \A x, y \in ToSet(t) : x # y => Before(t, x, y) \/ Before(t, y, x)
         /\ \A x, y : ~ (Before(t, x, y) /\ Before(t, y, x))
         /\ \A x, y, z : Before(t, x, y) /\ Before(t, y, z) => Before(t, x, z)
         /\ \A i, j \in DOMAIN t : Before(t, t[i], t[j]) <=> i < j
  <1>1. t \in Seq(Paths) /\ IsInjective(t)
    BY DEF Tree
  <1>2. \A i, j \in DOMAIN t : Before(t, t[i], t[j]) <=> i < j
    BY <1>1 DEF Before, IsInjective
  <1> QED
    BY <1>1, <1>2, BeforeIsTotal

(* Two entries stand as the ones above them do. *)
LEMMA TreeBranch ==
  ASSUME NEW t, Tree(t), NEW x \in ToSet(t), NEW y \in ToSet(t), NEW n \in 1 .. 3,
         n <= Len(x), n <= Len(y), Before(t, Up(x, n), Up(y, n))
  PROVE  Before(t, x, y)
  <1> DEFINE u == Up(x, n) v == Up(y, n)
  <1>1. /\ \A a, b : Before(t, a, b) => a \in ToSet(t) /\ b \in ToSet(t) /\ a # b
        /\ \A a, b \in ToSet(t) : a # b => Before(t, a, b) \/ Before(t, b, a)
        /\ \A a, b, c : Before(t, a, b) /\ Before(t, b, c) => Before(t, a, c)
    BY TreeOrder
  <1>2. u \in ToSet(t) /\ Up(u, n) = u /\ Len(u) = n /\ v \in ToSet(t) /\ Len(v) = n /\ Up(v, n) = v
    <2>1. n \in 1 .. n
      OBVIOUS
    <2> QED
      BY <2>1, TreeUp
  <1>3. v = y \/ Before(t, v, y)
    <2>1. n < Len(y) \/ n = Len(y)
      BY TreeUp
    <2> QED
      BY <2>1, TreeUp
  <1>4. Same(u, x, n)
    BY <1>2 DEF Same
  <1> HIDE DEF u, v
  <1>5. ASSUME Before(t, y, x) PROVE FALSE
    <2>1. Before(t, v, x)
      BY <1>1, <1>3, <1>5
    <2>2. Before(t, u, v)
      BY DEF u, v
    <2>3. Same(u, v, n)
      BY <1>2, <1>4, <2>1, <2>2 DEF Tree
    <2> QED
      BY <1>1, <1>2, <2>2, <2>3 DEF Same
  <1>6. x # y
    BY <1>1 DEF u, v
  <1> QED
    BY <1>1, <1>5, <1>6

LEMMA TreesAgree ==
  ASSUME NEW a, Tree(a), NEW b, Tree(b),
         \A x, y \in ToSet(a) \cap ToSet(b) : Beside(x, y) /\ Before(a, x, y) => Before(b, x, y),
         NEW x \in ToSet(a) \cap ToSet(b), NEW y \in ToSet(a) \cap ToSet(b), Before(a, x, y)
  PROVE  Before(b, x, y)
  <1> DEFINE D(n) == n <= Len(x) /\ n <= Len(y) /\ Up(x, n) # Up(y, n)
             U == { n \in 1 .. 3 : D(n) }
  <1>1. Len(x) \in 1 .. 3 /\ Len(y) \in 1 .. 3
    BY DEF Tree
  <1>2. ~ Before(a, y, x) /\ x # y
    BY TreeOrder
  <1>3. CASE U # {}
    <2>1. U \in SUBSET Nat
      OBVIOUS
    <2>2. PICK n \in U : \A m \in U : n <= m
      <3> HIDE DEF U
      <3> QED
        BY <1>3, <2>1, LeastOf
    <2>3. n \in 1 .. 3 /\ n <= Len(x) /\ n <= Len(y) /\ Up(x, n) # Up(y, n)
      BY <2>2
    <2>4. ASSUME NEW m \in 1 .. n - 1 PROVE Up(x, m) = Up(y, m)
      <3>1. m \in 1 .. 3 /\ ~ (n <= m) /\ m <= Len(x) /\ m <= Len(y)
        BY <1>1, <2>3
      <3>2. m \notin U
        BY <2>2, <3>1
      <3> QED
        BY <3>1, <3>2
    <2> HIDE DEF U
    <2> DEFINE u == Up(x, n) v == Up(y, n)
    <2>5. /\ u \in ToSet(a) /\ u \in ToSet(b) /\ Len(u) = n
          /\ v \in ToSet(a) /\ v \in ToSet(b) /\ Len(v) = n
          /\ \A m \in 1 .. n : Up(u, m) = Up(x, m)
          /\ \A m \in 1 .. n : Up(v, m) = Up(y, m)
      <3>1. x \in ToSet(a) /\ x \in ToSet(b) /\ y \in ToSet(a) /\ y \in ToSet(b)
        OBVIOUS
      <3>2. \A z \in {x, y} : z \in ToSet(a) /\ z \in ToSet(b) /\ n <= Len(z)
        BY <2>3, <3>1
      <3> HIDE DEF u, v
      <3>3. \A z \in {x, y} :
               /\ Up(z, n) \in ToSet(a) /\ Len(Up(z, n)) = n
               /\ \A m \in 1 .. n : Up(Up(z, n), m) = Up(z, m)
        <4> SUFFICES ASSUME NEW z \in {x, y}
                     PROVE  /\ Up(z, n) \in ToSet(a) /\ Len(Up(z, n)) = n
                            /\ \A m \in 1 .. n : Up(Up(z, n), m) = Up(z, m)
          OBVIOUS
        <4>1. z \in ToSet(a) /\ n <= Len(z) /\ n \in 1 .. 3
          BY <2>3, <3>2
        <4> QED
          BY ONLY Tree(a), <4>1, TreeUp
      <3>4. \A z \in {x, y} : Up(z, n) \in ToSet(b)
        <4> SUFFICES ASSUME NEW z \in {x, y} PROVE Up(z, n) \in ToSet(b)
          OBVIOUS
        <4>1. z \in ToSet(b) /\ n <= Len(z) /\ n \in 1 .. 3
          BY <2>3, <3>2
        <4> QED
          BY ONLY Tree(b), <4>1, TreeUp
      <3>5. x \in {x, y} /\ y \in {x, y}
        OBVIOUS
      <3> QED
        BY <3>3, <3>4, <3>5 DEF u, v
    <2>6. Beside(u, v)
      <3>1. \A m \in 1 .. n - 1 : m \in 1 .. n
        BY <2>3
      <3> QED
        BY <2>4, <2>5, <3>1 DEF Beside
    <2>7. Before(a, u, v)
      <3>1. Before(a, u, v) \/ Before(a, v, u)
        BY <2>3, <2>5, TreeOrder
      <3>2. Before(a, v, u) => Before(a, y, x)
        BY <2>3, TreeBranch
      <3> QED
        BY <1>2, <3>1, <3>2
    <2>8. Before(b, u, v)
      BY <2>5, <2>6, <2>7
    <2> QED
      BY <2>3, <2>8, TreeBranch
  <1>4. CASE U = {}
    <2>1. \A n \in 1 .. 3 : n <= Len(x) /\ n <= Len(y) => Up(x, n) = Up(y, n)
      BY <1>4
    <2>2. CASE Len(x) < Len(y)
      <3> DEFINE n == Len(x)
      <3>1. n \in 1 .. 3 /\ n <= Len(x) /\ n < Len(y) /\ n <= Len(y)
        BY <1>1, <2>2
      <3>2. Up(x, n) = x /\ Before(b, Up(y, n), y)
        BY <3>1, TreeUp
      <3>3. Up(y, n) = x
        BY <2>1, <3>1, <3>2
      <3> QED
        BY <3>2, <3>3
    <2>3. CASE Len(y) < Len(x)
      <3> DEFINE n == Len(y)
      <3>1. n \in 1 .. 3 /\ n <= Len(y) /\ n < Len(x) /\ n <= Len(x)
        BY <1>1, <2>3
      <3>2. Up(y, n) = y /\ Before(a, Up(x, n), x)
        BY <3>1, TreeUp
      <3>3. Up(x, n) = y
        BY <2>1, <3>1, <3>2
      <3> QED
        BY <1>2, <3>2, <3>3
    <2>4. CASE Len(y) = Len(x)
      <3> DEFINE n == Len(y)
      <3>1. n \in 1 .. 3 /\ n <= Len(y) /\ n <= Len(x) /\ n = Len(x)
        BY <1>1, <2>4
      <3>2. Up(y, n) = y /\ Up(x, n) = x
        BY <3>1, TreeUp
      <3>3. Up(x, n) = Up(y, n)
        BY <2>1, <3>1
      <3> QED
        BY <1>2, <3>2, <3>3
    <2> QED
      BY <1>1, <2>2, <2>3, <2>4
  <1> QED
    BY <1>3, <1>4

LEMMA TreeIsOrganized ==
  ASSUME NEW t, Tree(t)
  PROVE  /\ IsInjective(t)
         /\ \A i \in DOMAIN t :
              Len(t[i]) > 1 =>
                /\ i > 1
                /\ \/ t[i - 1] = Front(t[i])
                   \/ Len(t[i - 1]) >= Len(t[i]) /\ Up(t[i - 1], Len(t[i]) - 1) = Front(t[i])
  <1>1. IsInjective(t) /\ t \in Seq(Paths) /\ Len(t) \in Nat /\ DOMAIN t = 1 .. Len(t)
    BY DEF Tree
  <1>2. SUFFICES ASSUME NEW i \in DOMAIN t, Len(t[i]) > 1
                 PROVE  /\ i > 1
                        /\ \/ t[i - 1] = Front(t[i])
                           \/ Len(t[i - 1]) >= Len(t[i]) /\ Up(t[i - 1], Len(t[i]) - 1) = Front(t[i])
    BY <1>1
  <1> DEFINE x == t[i] n == Len(x) - 1 p == Up(x, n)
  <1>3. x \in ToSet(t)
    BY DEF ToSet
  <1>4. Len(x) \in 1 .. 3 /\ Len(x) > 1
    BY <1>2, <1>3 DEF Tree
  <1>5. n \in 1 .. 3 /\ n < Len(x) /\ n <= Len(x)
    <2>1. \A m \in 1 .. 3 : m > 1 => m - 1 \in 1 .. 3 /\ m - 1 < m /\ m - 1 <= m
      OBVIOUS
    <2> HIDE DEF x
    <2> QED
      BY <1>4, <2>1
  <1>6. Before(t, p, x) /\ p \in ToSet(t) /\ Len(p) = n /\ Up(p, n) = p
    <2> HIDE DEF x, n
    <2>1. n \in 1 .. n
      BY <1>5
    <2> QED
      BY <1>3, <1>5, <2>1, TreeUp
  <1>7. p = Front(t[i])
    BY DEF Front, Up
  <1>8. PICK k \in DOMAIN t : t[k] = p
    BY <1>6 DEF ToSet
  <1>9. \A j, l \in DOMAIN t : Before(t, t[j], t[l]) <=> j < l
    BY TreeOrder
  <1>10. k < i
    BY <1>6, <1>8, <1>9
  <1>11. i > 1 /\ i - 1 \in DOMAIN t /\ (k = i - 1 \/ k < i - 1) /\ i - 1 < i
    BY <1>1, <1>10
  <1> DEFINE y == t[i - 1]
  <1>12. CASE k = i - 1
    BY <1>7, <1>8, <1>11, <1>12
  <1>13. CASE k < i - 1
    <2>1. Before(t, p, y) /\ Before(t, y, x) /\ y \in ToSet(t)
      BY <1>8, <1>9, <1>11, <1>13 DEF ToSet
    <2> HIDE DEF p, y, x, n
    <2>2. Same(p, x, n)
      BY <1>5, <1>6 DEF Same, p
    <2>3. Same(p, y, n)
      BY <1>3, <1>5, <1>6, <2>1, <2>2 DEF Tree
    <2>4. n <= Len(y) /\ Up(y, n) = p
      BY <1>6, <2>3 DEF Same
    <2>5. Len(y) \in 1 .. 3
      BY <2>1 DEF Tree
    <2>6. n # Len(y)
      <3>1. n = Len(y) => Up(y, n) = y
        BY <1>5, <2>1, <2>4, TreeUp
      <3> QED
        BY <2>1, <2>4, <3>1, TreeOrder
    <2>7. Len(y) >= Len(x)
      <3>1. \A a, b, c \in 1 .. 3 : a = b - 1 /\ a <= c /\ a # c => c >= b
        OBVIOUS
      <3>2. n = Len(x) - 1
        BY DEF n
      <3> QED
        BY <1>4, <1>5, <2>4, <2>5, <2>6, <3>1, <3>2
    <2> QED
      BY <1>7, <1>11, <2>4, <2>7 DEF x, y, n, p
  <1> QED
    BY <1>11, <1>12, <1>13

Piece(S, u, t, m, n) ==
    /\ u \in Seq(S) /\ IsInjective(u) /\ ToSet(u) \subseteq ToSet(t)
    /\ \A i \in DOMAIN t : t[i] \in ToSet(u) <=> i \in m .. n
    /\ \A i, j \in DOMAIN t : Before(u, t[i], t[j]) <=> i \in m .. n /\ j \in m .. n /\ i < j

LEMMA SubSeqIs ==
  ASSUME NEW S, NEW t \in Seq(S), IsInjective(t), NEW m \in Nat, NEW n \in Nat,
         1 <= m, m <= n + 1, n <= Len(t), NEW u, u = SubSeq(t, m, n)
  PROVE  Piece(S, u, t, m, n)
  <1>1. Len(t) \in Nat /\ DOMAIN t = 1 .. Len(t) /\ \A i \in DOMAIN t : t[i] \in S
    OBVIOUS
  <1> DEFINE k == n - m + 1
  <1>2. u = [i \in 1 .. k |-> t[i + m - 1]]
    OBVIOUS
  <1>3. k \in Nat /\ \A i \in 1 .. k : i + m - 1 \in m .. n /\ i + m - 1 \in DOMAIN t
    BY <1>1
  <1>4. u \in Seq(S)
    BY <1>1, <1>2, <1>3
  <1>5. DOMAIN u = 1 .. k /\ \A i \in 1 .. k : u[i] = t[i + m - 1]
    BY <1>2
  <1>6. \A i \in m .. n : i - m + 1 \in 1 .. k /\ u[i - m + 1] = t[i] /\ i \in DOMAIN t
    <2> TAKE i \in m .. n
    <2>1. i - m + 1 \in 1 .. k /\ i - m + 1 + m - 1 = i
      OBVIOUS
    <2> QED
      BY <1>1, <1>5, <2>1
  <1> HIDE DEF k
  <1>7. \A i, j \in 1 .. k : u[i] = u[j] => i = j
    <2> SUFFICES ASSUME NEW i \in 1 .. k, NEW j \in 1 .. k, u[i] = u[j] PROVE i = j
      OBVIOUS
    <2>1. t[i + m - 1] = t[j + m - 1]
      BY <1>5
    <2>2. i + m - 1 = j + m - 1
      BY <1>3, <2>1 DEF IsInjective
    <2> QED
      BY <1>3, <2>2
  <1>8. IsInjective(u)
    BY <1>5, <1>7 DEF IsInjective
  <1>9. ToSet(u) \subseteq ToSet(t)
    BY <1>3, <1>5 DEF ToSet
  <1>10. ASSUME NEW i \in DOMAIN t PROVE t[i] \in ToSet(u) <=> i \in m .. n
    <2>1. ASSUME i \in m .. n PROVE t[i] \in ToSet(u)
      BY <1>5, <1>6, <2>1 DEF ToSet
    <2>2. ASSUME t[i] \in ToSet(u) PROVE i \in m .. n
      <3>1. PICK l \in 1 .. k : u[l] = t[i]
        BY <1>5, <2>2 DEF ToSet
      <3>2. i = l + m - 1
        BY <1>3, <1>5, <3>1 DEF IsInjective
      <3> QED
        BY <1>3, <3>2
    <2> QED
      BY <2>1, <2>2
  <1>11. ASSUME NEW i \in DOMAIN t, NEW j \in DOMAIN t
         PROVE  Before(u, t[i], t[j]) <=> i \in m .. n /\ j \in m .. n /\ i < j
    <2>1. ASSUME i \in m .. n, j \in m .. n, i < j PROVE Before(u, t[i], t[j])
      <3>1. PICK a \in 1 .. k : a = i - m + 1
        BY <1>6, <2>1
      <3>2. PICK b \in 1 .. k : b = j - m + 1
        BY <1>6, <2>1
      <3>3. a < b
        BY <1>1, <2>1, <3>1, <3>2
      <3>4. u[a] = t[i] /\ u[b] = t[j]
        BY <1>6, <2>1, <3>1, <3>2
      <3> QED
        BY <1>5, <3>3, <3>4 DEF Before
    <2>2. ASSUME Before(u, t[i], t[j]) PROVE i \in m .. n /\ j \in m .. n /\ i < j
      <3>1. PICK a, b \in 1 .. k : a < b /\ u[a] = t[i] /\ u[b] = t[j]
        BY <1>5, <2>2 DEF Before
      <3>2. i = a + m - 1
        BY <1>3, <1>5, <3>1 DEF IsInjective
      <3>3. j = b + m - 1
        BY <1>3, <1>5, <3>1 DEF IsInjective
      <3>4. i \in m .. n /\ j \in m .. n
        BY <1>3, <3>2, <3>3
      <3>5. i < j
        BY <1>3, <3>1, <3>2, <3>3
      <3> QED
        BY <3>4, <3>5
    <2> QED
      BY <2>1, <2>2
  <1> QED
    BY <1>4, <1>8, <1>9, <1>10, <1>11 DEF Piece

Exchanged(S, t, a, b, c, r) ==
    /\ r \in Seq(S) /\ IsInjective(r) /\ ToSet(r) = ToSet(t)
    /\ \A i, j \in DOMAIN t : Before(r, t[i], t[j]) <=>
            \/ i < j /\ ~ (i \in a .. b - 1 /\ j \in b .. c - 1)
            \/ i \in b .. c - 1 /\ j \in a .. b - 1

LEMMA SwappedIs ==
  ASSUME NEW S, NEW t \in Seq(S), IsInjective(t), NEW a \in Nat, NEW b \in Nat, NEW c \in Nat,
         1 <= a, a <= b, b <= c, c <= Len(t) + 1, NEW r, r = Swapped(t, a, b, c)
  PROVE  Exchanged(S, t, a, b, c, r)
  <1> DEFINE l == Len(t)
             A == SubSeq(t, 1, a - 1) M == SubSeq(t, a, b - 1)
             L == SubSeq(t, b, c - 1) Z == SubSeq(t, c, l)
             AL == A \o L ALM == AL \o M R == ALM \o Z
  <1>1. l \in Nat /\ DOMAIN t = 1 .. l
    OBVIOUS
  <1>2. /\ A \in Seq(S) /\ IsInjective(A) /\ ToSet(A) \subseteq ToSet(t)
        /\ \A i \in DOMAIN t : t[i] \in ToSet(A) <=> i \in 1 .. a - 1
        /\ \A i, j \in DOMAIN t : Before(A, t[i], t[j]) <=> i \in 1 .. a - 1 /\ j \in 1 .. a - 1 /\ i < j
    <2>1. PICK n \in Nat : n = a - 1 /\ 1 <= n + 1 /\ n <= Len(t)
      BY <1>1
    <2>2. A = SubSeq(t, 1, n)
      BY <2>1
    <2> HIDE DEF A
    <2>3. 1 \in Nat /\ 1 <= 1
      OBVIOUS
    <2>4. Piece(S, A, t, 1, n)
      BY <2>1, <2>2, <2>3, SubSeqIs
    <2> QED
      BY <2>1, <2>4 DEF Piece
  <1>3. /\ M \in Seq(S) /\ IsInjective(M) /\ ToSet(M) \subseteq ToSet(t)
        /\ \A i \in DOMAIN t : t[i] \in ToSet(M) <=> i \in a .. b - 1
        /\ \A i, j \in DOMAIN t : Before(M, t[i], t[j]) <=> i \in a .. b - 1 /\ j \in a .. b - 1 /\ i < j
    <2>1. PICK n \in Nat : n = b - 1 /\ a <= n + 1 /\ n <= Len(t)
      BY <1>1
    <2>2. M = SubSeq(t, a, n)
      BY <2>1
    <2> HIDE DEF M
    <2>4. Piece(S, M, t, a, n)
      BY <2>1, <2>2, SubSeqIs
    <2> QED
      BY <2>1, <2>4 DEF Piece
  <1>4. /\ L \in Seq(S) /\ IsInjective(L) /\ ToSet(L) \subseteq ToSet(t)
        /\ \A i \in DOMAIN t : t[i] \in ToSet(L) <=> i \in b .. c - 1
        /\ \A i, j \in DOMAIN t : Before(L, t[i], t[j]) <=> i \in b .. c - 1 /\ j \in b .. c - 1 /\ i < j
    <2>1. PICK n \in Nat : n = c - 1 /\ b <= n + 1 /\ n <= Len(t) /\ 1 <= b
      BY <1>1
    <2>2. L = SubSeq(t, b, n)
      BY <2>1
    <2> HIDE DEF L
    <2>4. Piece(S, L, t, b, n)
      BY <2>1, <2>2, SubSeqIs
    <2> QED
      BY <2>1, <2>4 DEF Piece
  <1>5. /\ Z \in Seq(S) /\ IsInjective(Z) /\ ToSet(Z) \subseteq ToSet(t)
        /\ \A i \in DOMAIN t : t[i] \in ToSet(Z) <=> i \in c .. l
        /\ \A i, j \in DOMAIN t : Before(Z, t[i], t[j]) <=> i \in c .. l /\ j \in c .. l /\ i < j
    <2>0. l \in Nat /\ c <= l + 1 /\ l <= Len(t) /\ 1 <= c
      BY <1>1
    <2>1. PICK n \in Nat : n = l /\ c <= n + 1 /\ n <= Len(t) /\ 1 <= c
      BY <2>0
    <2>2. Z = SubSeq(t, c, n)
      BY <2>1
    <2> HIDE DEF Z
    <2>4. Piece(S, Z, t, c, n)
      BY <2>1, <2>2, SubSeqIs
    <2> QED
      BY <2>1, <2>4 DEF Piece
  <1>6. r = R
    BY DEF Swapped
  <1> HIDE DEF A, M, L, Z, l
  <1>7. /\ AL \in Seq(S)
        /\ ToSet(AL) = ToSet(A) \cup ToSet(L)
        /\ \A x, y : Before(AL, x, y) <=>
                (Before(A, x, y) \/ Before(L, x, y) \/ (x \in ToSet(A) /\ y \in ToSet(L)))
        /\ IsInjective(A) /\ IsInjective(L) /\ ToSet(A) \cap ToSet(L) = {}
                => IsInjective(AL)
    <2>1. A \in Seq(S) /\ L \in Seq(S)
      BY <1>2, <1>4
    <2> QED
      BY <2>1, ConcatIs
  <1> HIDE DEF AL
  <1>8. /\ ALM \in Seq(S)
        /\ ToSet(ALM) = ToSet(AL) \cup ToSet(M)
        /\ \A x, y : Before(ALM, x, y) <=>
                (Before(AL, x, y) \/ Before(M, x, y) \/ (x \in ToSet(AL) /\ y \in ToSet(M)))
        /\ IsInjective(AL) /\ IsInjective(M) /\ ToSet(AL) \cap ToSet(M) = {}
                => IsInjective(ALM)
    <2>1. AL \in Seq(S) /\ M \in Seq(S)
      BY <1>3, <1>7
    <2> QED
      BY <2>1, ConcatIs
  <1> HIDE DEF ALM
  <1>9. /\ R \in Seq(S)
        /\ ToSet(R) = ToSet(ALM) \cup ToSet(Z)
        /\ \A x, y : Before(R, x, y) <=>
                (Before(ALM, x, y) \/ Before(Z, x, y) \/ (x \in ToSet(ALM) /\ y \in ToSet(Z)))
        /\ IsInjective(ALM) /\ IsInjective(Z) /\ ToSet(ALM) \cap ToSet(Z) = {}
                => IsInjective(R)
    <2>1. ALM \in Seq(S) /\ Z \in Seq(S)
      BY <1>5, <1>8
    <2> QED
      BY <2>1, ConcatIs
  <1> HIDE DEF R
  <1>10. \A x \in ToSet(t) : \E i \in DOMAIN t : x = t[i]
    BY DEF ToSet
  <1>11. \A i \in DOMAIN t : /\ i \in 1 .. a - 1 \/ i \in a .. b - 1 \/ i \in b .. c - 1 \/ i \in c .. l
                             /\ ~ (i \in 1 .. a - 1 /\ i \in a .. b - 1) /\ ~ (i \in 1 .. a - 1 /\ i \in b .. c - 1)
                             /\ ~ (i \in 1 .. a - 1 /\ i \in c .. l) /\ ~ (i \in a .. b - 1 /\ i \in b .. c - 1)
                             /\ ~ (i \in a .. b - 1 /\ i \in c .. l) /\ ~ (i \in b .. c - 1 /\ i \in c .. l)
    BY <1>1
  <1>12. IsInjective(AL)
    BY <1>2, <1>4, <1>7, <1>10, <1>11
  <1>13. IsInjective(ALM)
    BY <1>2, <1>3, <1>4, <1>7, <1>8, <1>10, <1>11, <1>12
  <1>14. IsInjective(R)
    BY <1>2, <1>3, <1>4, <1>5, <1>7, <1>8, <1>9, <1>10, <1>11, <1>13
  <1>15. ToSet(R) = ToSet(t)
    <2>1. ToSet(R) \subseteq ToSet(t)
      BY <1>2, <1>3, <1>4, <1>5, <1>7, <1>8, <1>9
    <2>2. ToSet(t) \subseteq ToSet(R)
      BY <1>2, <1>3, <1>4, <1>5, <1>7, <1>8, <1>9, <1>10, <1>11
    <2> QED
      BY <2>1, <2>2
  <1>16. ASSUME NEW i \in DOMAIN t, NEW j \in DOMAIN t
         PROVE  Before(R, t[i], t[j]) <=>
                \/ i < j /\ ~ (i \in a .. b - 1 /\ j \in b .. c - 1)
                \/ i \in b .. c - 1 /\ j \in a .. b - 1
    <2> DEFINE x == t[i] y == t[j]
    <2>1. Before(R, x, y) <=>
            \/ Before(A, x, y) \/ Before(L, x, y) \/ Before(M, x, y) \/ Before(Z, x, y)
            \/ x \in ToSet(A) /\ y \in ToSet(L)
            \/ (x \in ToSet(A) \/ x \in ToSet(L)) /\ y \in ToSet(M)
            \/ (x \in ToSet(A) \/ x \in ToSet(L) \/ x \in ToSet(M)) /\ y \in ToSet(Z)
      <3> HIDE DEF x, y
      <3> QED
        BY <1>7, <1>8, <1>9
    <2>2. /\ Before(A, x, y) <=> i \in 1 .. a - 1 /\ j \in 1 .. a - 1 /\ i < j
          /\ Before(M, x, y) <=> i \in a .. b - 1 /\ j \in a .. b - 1 /\ i < j
          /\ Before(L, x, y) <=> i \in b .. c - 1 /\ j \in b .. c - 1 /\ i < j
          /\ Before(Z, x, y) <=> i \in c .. l /\ j \in c .. l /\ i < j
      BY <1>2, <1>3, <1>4, <1>5
    <2>3. /\ x \in ToSet(A) <=> i \in 1 .. a - 1
          /\ x \in ToSet(M) <=> i \in a .. b - 1
          /\ x \in ToSet(L) <=> i \in b .. c - 1
          /\ y \in ToSet(M) <=> j \in a .. b - 1
          /\ y \in ToSet(L) <=> j \in b .. c - 1
          /\ y \in ToSet(Z) <=> j \in c .. l
      BY <1>2, <1>3, <1>4, <1>5
    <2>4. i \in Int /\ j \in Int /\ i >= 1 /\ i <= l /\ j >= 1 /\ j <= l
      BY <1>1
    <2> HIDE DEF x, y
    <2>5. /\ i \in 1 .. a - 1 <=> i < a
          /\ i \in a .. b - 1 <=> a <= i /\ i < b
          /\ i \in b .. c - 1 <=> b <= i /\ i < c
          /\ i \in c .. l <=> c <= i
          /\ j \in 1 .. a - 1 <=> j < a
          /\ j \in a .. b - 1 <=> a <= j /\ j < b
          /\ j \in b .. c - 1 <=> b <= j /\ j < c
          /\ j \in c .. l <=> c <= j
      BY <1>1, <2>4
    <2>6. Before(R, x, y) <=>
            \/ i < a /\ j < a /\ i < j
            \/ a <= i /\ i < b /\ a <= j /\ j < b /\ i < j
            \/ b <= i /\ i < c /\ b <= j /\ j < c /\ i < j
            \/ c <= i /\ c <= j /\ i < j
            \/ i < a /\ b <= j /\ j < c
            \/ (i < a \/ (b <= i /\ i < c)) /\ a <= j /\ j < b
            \/ (i < a \/ (b <= i /\ i < c) \/ (a <= i /\ i < b)) /\ c <= j
      BY <2>1, <2>2, <2>3, <2>5
    <2>7. Before(R, x, y) <=>
            \/ i < j /\ ~ (a <= i /\ i < b /\ b <= j /\ j < c)
            \/ b <= i /\ i < c /\ a <= j /\ j < b
      BY <1>1, <2>4, <2>6
    <2> QED
      BY <2>5, <2>7 DEF x, y
  <1> QED
    BY <1>6, <1>9, <1>14, <1>15, <1>16 DEF Exchanged

LEMMA FrontIs ==
  ASSUME NEW x \in Paths, NEW y \in Paths, Len(x) \in 1 .. 3, Len(x) = Len(y)
  PROVE  Front(x) = Front(y) <=> Beside(x, y)
  <1> DEFINE n == Len(x) - 1
  <1>1. n \in 0 .. 2 /\ Front(x) = Up(x, n) /\ Front(y) = Up(y, n)
    BY DEF Front, Up
  <1>2. CASE n = 0
    <2>1. x \in Seq(STRING) /\ y \in Seq(STRING)
      BY DEF Paths
    <2>2. SubSeq(x, 1, 0) = <<>> /\ SubSeq(y, 1, 0) = <<>>
      BY <2>1
    <2>3. Front(x) = Front(y)
      BY <1>1, <1>2, <2>2 DEF Up
    <2>4. Beside(x, y)
      <3> HIDE DEF n
      <3>1. \A m \in 1 .. n : FALSE
        BY <1>2
      <3> QED
        BY <3>1 DEF Beside, n
    <2> QED
      BY <2>3, <2>4
  <1>3. CASE n # 0
    <2>1. n \in 1 .. Len(x) /\ n \in 1 .. Len(y) /\ n \in 1 .. n
      BY <1>1, <1>3
    <2>2. \A m \in 1 .. n : Up(Up(x, n), m) = Up(x, m) /\ Up(Up(y, n), m) = Up(y, m)
      <3> HIDE DEF n
      <3> QED
        BY <2>1, UpIs
    <2> HIDE DEF n
    <2>3. Beside(x, y) <=> \A m \in 1 .. n : Up(x, m) = Up(y, m)
      BY DEF Beside, n
    <2> QED
      BY <1>1, <2>1, <2>2, <2>3
  <1> QED
    BY <1>2, <1>3

(* What is below an entry, and the entry, are the ones up to its end. *)
Family(t, first, end, x) == \A i \in DOMAIN t : i \in first .. end - 1 <=> Same(x, t[i], Len(x))

LEMMA SubtreeIs ==
  ASSUME NEW t, Tree(t), NEW start \in DOMAIN t
  PROVE  LET end == SubtreeEnd(t, start)
         IN /\ end \in Nat /\ start < end /\ end <= Len(t) + 1
            /\ Family(t, start, end, t[start])
            /\ end \in DOMAIN t => Len(t[end]) <= Len(t[start])
  <1> DEFINE end == SubtreeEnd(t, start)
             x == t[start] n == Len(x)
             after == { i \in start + 1 .. Len(t) : Len(t[i]) <= Len(t[start]) }
  <1>1. t \in Seq(Paths) /\ IsInjective(t) /\ Len(t) \in Nat /\ DOMAIN t = 1 .. Len(t)
    BY DEF Tree
  <1>2. /\ \A a, b : Before(t, a, b) => a \in ToSet(t) /\ b \in ToSet(t) /\ a # b
        /\ \A a, b \in ToSet(t) : a # b => Before(t, a, b) \/ Before(t, b, a)
        /\ \A i, j \in DOMAIN t : Before(t, t[i], t[j]) <=> i < j
    BY TreeOrder
  <1>3. /\ end \in Nat /\ start < end /\ end <= Len(t) + 1
        /\ end \in DOMAIN t => end \in after
        /\ \A i \in after : end <= i
    <2>1. CASE after = {}
      <3>1. end = Len(t) + 1
        BY <2>1 DEF SubtreeEnd
      <3> HIDE DEF end
      <3> QED
        BY <1>1, <2>1, <3>1
    <2>2. CASE after # {}
      <3>1. end = CHOOSE i \in after : \A j \in after : i <= j
        BY <2>2 DEF SubtreeEnd
      <3>2. after \in SUBSET Nat
        BY <1>1
      <3>3. \E i \in after : \A j \in after : i <= j
        <4> HIDE DEF after
        <4> QED
          BY <2>2, <3>2, LeastOf
      <3>4. end \in after /\ \A j \in after : end <= j
        <4> HIDE DEF after, end
        <4> QED
          BY <3>1, <3>3
      <3> HIDE DEF end
      <3> QED
        BY <1>1, <3>4
    <2> QED
      BY <2>1, <2>2
  <1>4. \A i \in DOMAIN t : t[i] \in ToSet(t)
    BY DEF ToSet
  <1>5. x \in ToSet(t) /\ n \in 1 .. 3 /\ Up(x, n) = x
    <2>1. x \in ToSet(t) /\ n \in 1 .. 3
      BY <1>4 DEF Tree
    <2>2. n <= Len(x)
      BY <2>1
    <2> QED
      BY <2>1, <2>2, TreeUp
  <1>6. end \in DOMAIN t => Len(t[end]) <= Len(t[start])
    BY <1>3
  <1>7. \A i \in DOMAIN t : start < i /\ i < end => ~ (Len(t[i]) <= n)
    <2> SUFFICES ASSUME NEW i \in DOMAIN t, start < i, i < end, Len(t[i]) <= n PROVE FALSE
      OBVIOUS
    <2>1. i \in after
      BY <1>1
    <2> QED
      BY <1>1, <1>3, <2>1
  <1> HIDE DEF end, after
  <1>8. ASSUME NEW i \in DOMAIN t, start <= i, i < end
        PROVE  Same(x, t[i], n)
    <2>1. CASE i = start
      BY <1>5, <2>1 DEF Same
    <2>2. CASE i # start
      <3> DEFINE y == t[i] w == Up(y, n)
      <3>1. start < i /\ y \in ToSet(t) /\ Len(y) \in 1 .. 3 /\ ~ (Len(y) <= n)
        BY <1>1, <1>4, <1>7, <1>8, <2>2 DEF Tree
      <3>2. n < Len(y) /\ n <= Len(y)
        <4>1. \A a, b \in 1 .. 3 : ~ (a <= b) => b < a /\ b <= a
          OBVIOUS
        <4> HIDE DEF n, y
        <4> QED
          BY <1>5, <3>1, <4>1
      <3>3. w \in ToSet(t) /\ Len(w) = n /\ Up(w, n) = w /\ Before(t, w, y)
        <4> HIDE DEF n, y
        <4>1. n \in 1 .. n
          BY <1>5
        <4> QED
          BY <1>5, <3>1, <3>2, <4>1, TreeUp
      <3>4. PICK k \in DOMAIN t : t[k] = w
        BY <3>3 DEF ToSet
      <3>5. k < i
        BY <1>2, <3>3, <3>4
      <3>6. ~ (start < k)
        <4> SUFFICES ASSUME start < k PROVE FALSE
          OBVIOUS
        <4>1. k < end
          BY <1>1, <1>3, <1>8, <3>5
        <4>2. ~ (Len(w) <= n)
          BY <1>7, <3>4, <4>1
        <4> HIDE DEF n, w
        <4> QED
          BY <1>5, <3>3, <4>2
      <3>7. CASE k = start
        <4>1. x = w
          BY <3>4, <3>7
        <4> HIDE DEF x, n
        <4> QED
          BY <1>5, <3>2, <4>1 DEF Same, n
      <3>8. CASE k < start
        <4>1. Before(t, w, x) /\ Before(t, x, y)
          BY <1>2, <3>1, <3>4, <3>8
        <4> HIDE DEF x, n, y, w
        <4>2. Same(w, y, n)
          <5>1. n <= Len(w)
            BY <1>5, <3>3
          <5> QED
            BY <3>2, <3>3, <5>1 DEF Same, w
        <4>3. Same(w, x, n)
          BY <1>5, <3>1, <3>3, <4>1, <4>2 DEF Tree
        <4>4. w = x
          BY <1>5, <3>3, <4>3 DEF Same
        <4> QED
          BY <1>2, <4>1, <4>4
      <3> QED
        BY <1>1, <3>6, <3>7, <3>8
    <2> QED
      BY <2>1, <2>2
  <1>9. ASSUME NEW i \in DOMAIN t, Same(x, t[i], n)
        PROVE  start <= i /\ i < end
    <2> DEFINE y == t[i]
    <2>1. y \in ToSet(t) /\ n <= Len(y) /\ Up(y, n) = x /\ Len(y) \in 1 .. 3
      BY <1>4, <1>5, <1>9 DEF Same, Tree
    <2>2. start = i \/ start < i
      <3>1. n = Len(y) \/ n < Len(y)
        BY <1>5, <2>1
      <3>2. n = Len(y) => y = x
        <4> HIDE DEF n, y
        <4> QED
          BY <1>5, <2>1, TreeUp
      <3>3. n < Len(y) => Before(t, x, y)
        <4> HIDE DEF n, y
        <4> QED
          BY <1>5, <2>1, TreeUp
      <3> QED
        BY <1>1, <1>2, <3>1, <3>2, <3>3 DEF IsInjective
    <2>3. i < end
      <3> SUFFICES ASSUME end <= i PROVE FALSE
        BY <1>1, <1>3
      <3> DEFINE e == t[end]
      <3>1. end \in DOMAIN t /\ start < end
        BY <1>1, <1>3
      <3>2. e \in ToSet(t) /\ Len(e) <= n /\ Before(t, x, e) /\ Len(e) \in 1 .. 3
        BY <1>2, <1>4, <1>6, <3>1 DEF Tree
      <3>3. Same(x, e, n)
        <4>1. CASE end = i
          BY <1>9, <4>1
        <4>2. CASE end # i
          <5>1. end < i
            BY <1>1, <3>1, <4>2
          <5>2. Before(t, e, y)
            BY <1>2, <3>1, <5>1
          <5> HIDE DEF x, e, y, n
          <5>3. Same(x, y, n)
            BY <1>9 DEF y
          <5> QED
            BY <1>5, <2>1, <3>2, <5>2, <5>3 DEF Tree
        <4> QED
          BY <4>1, <4>2
      <3>4. n <= Len(e) /\ Up(e, n) = x
        BY <1>5, <3>3 DEF Same
      <3>5. n = Len(e)
        <4>1. \A a, b \in 1 .. 3 : a <= b /\ b <= a => a = b
          OBVIOUS
        <4> HIDE DEF n, e
        <4> QED
          BY <1>5, <3>2, <3>4, <4>1
      <3>6. Up(e, n) = e
        <4> HIDE DEF n, e
        <4> QED
          BY <1>5, <3>2, <3>4, <3>5, TreeUp
      <3> HIDE DEF x, e
      <3> QED
        BY <1>2, <3>2, <3>4, <3>6
    <2> QED
      BY <1>1, <2>2, <2>3
  <1>10. Family(t, start, end, x)
    <2> SUFFICES ASSUME NEW i \in DOMAIN t
                 PROVE  i \in start .. end - 1 <=> Same(x, t[i], n)
      BY DEF Family
    <2>1. i \in start .. end - 1 <=> start <= i /\ i < end
      BY <1>1, <1>3
    <2> QED
      BY <1>8, <1>9, <2>1
  <1> QED
    BY <1>3, <1>6, <1>10 DEF end

(* Two families beside each other that change places. *)
LEMMA SwappedTree ==
  ASSUME NEW t, Tree(t), NEW a \in DOMAIN t, NEW b \in DOMAIN t, NEW c \in Nat,
         a < b, b <= c, c <= Len(t) + 1, Beside(t[a], t[b]),
         Family(t, a, b, t[a]), Family(t, b, c, t[b]), NEW r, r = Swapped(t, a, b, c)
  PROVE  Tree(r) /\ ToSet(r) = ToSet(t)
  <1> DEFINE u == t[a] v == t[b] n == Len(u)
             M(x) == Same(u, x, n)
             L(x) == Same(v, x, n)
  <1>1. t \in Seq(Paths) /\ IsInjective(t) /\ Len(t) \in Nat /\ DOMAIN t = 1 .. Len(t)
    BY DEF Tree
  <1>2. /\ \A x, y : Before(t, x, y) => x \in ToSet(t) /\ y \in ToSet(t) /\ x # y
        /\ \A i, j \in DOMAIN t : Before(t, t[i], t[j]) <=> i < j
    BY TreeOrder
  <1>3. /\ r \in Seq(Paths) /\ IsInjective(r) /\ ToSet(r) = ToSet(t)
        /\ \A i, j \in DOMAIN t : Before(r, t[i], t[j]) <=>
                \/ i < j /\ ~ (i \in a .. b - 1 /\ j \in b .. c - 1)
                \/ i \in b .. c - 1 /\ j \in a .. b - 1
    <2>1. a \in Nat /\ b \in Nat /\ 1 <= a /\ a <= b
      BY <1>1
    <2> QED
      <3>1. Exchanged(Paths, t, a, b, c, r)
        BY <1>1, <2>1, SwappedIs
      <3> QED
        BY <3>1 DEF Exchanged
  <1>4. u \in ToSet(t) /\ v \in ToSet(t) /\ n \in 1 .. 3 /\ Len(v) = n
        /\ \A m \in 1 .. n - 1 : Up(u, m) = Up(v, m)
    BY DEF Tree, ToSet, Beside
  <1>5. u # v /\ Up(u, n) = u /\ Up(v, n) = v
    <2>1. u # v
      BY <1>1 DEF IsInjective
    <2>2. n <= Len(u) /\ n <= Len(v) /\ n = Len(u) /\ n = Len(v)
      BY <1>4
    <2> HIDE DEF u, v, n
    <2> QED
      BY <1>4, <2>1, <2>2, TreeUp
  <1>6. \A i \in DOMAIN t : (i \in a .. b - 1 <=> M(t[i])) /\ (i \in b .. c - 1 <=> L(t[i]))
    BY <1>4 DEF Family
  <1> HIDE DEF u, v, n, M, L
  <1>7. \A x, y \in ToSet(t) : Before(r, x, y) <=>
                \/ Before(t, x, y) /\ ~ (M(x) /\ L(y))
                \/ L(x) /\ M(y)
    <2> SUFFICES ASSUME NEW i \in DOMAIN t, NEW j \in DOMAIN t
                 PROVE  Before(r, t[i], t[j]) <=>
                            \/ Before(t, t[i], t[j]) /\ ~ (M(t[i]) /\ L(t[j]))
                            \/ L(t[i]) /\ M(t[j])
      BY DEF ToSet
    <2> QED
      BY <1>2, <1>3, <1>6
  <1>8. \A x : ~ (M(x) /\ L(x))
    BY <1>5 DEF M, L, Same
  <1>9. \A x \in ToSet(t) : Len(x) \in 1 .. 3
    BY DEF Tree
  (* what is above both of what is in the one and in the other *)
  <1>10. ASSUME NEW x \in ToSet(t), NEW y \in ToSet(t), M(x), L(y), NEW k \in 1 .. 3, k < n
         PROVE  Up(x, k) = Up(y, k) /\ k <= Len(x) /\ k <= Len(y)
    <2>1. n <= Len(x) /\ n <= Len(y) /\ Up(x, n) = u /\ Up(y, n) = v
      BY <1>4, <1>5, <1>10 DEF M, L, Same
    <2>2. k \in 1 .. n /\ k \in 1 .. n - 1
      BY <1>4, <1>10
    <2>3. Up(Up(x, n), k) = Up(x, k) /\ Up(Up(y, n), k) = Up(y, k)
      BY <1>4, <2>1, <2>2, TreeUp
    <2>4. k <= Len(x) /\ k <= Len(y)
      BY <1>4, <1>9, <1>10, <2>1
    <2> QED
      BY <1>4, <2>1, <2>2, <2>3, <2>4
  (* what is in the one with what has as much in common *)
  <1>11. ASSUME NEW x \in ToSet(t), NEW z \in ToSet(t), NEW k \in 1 .. 3, ~ (k < n), Same(x, z, k)
         PROVE  (M(x) <=> M(z)) /\ (L(x) <=> L(z))
    <2>1. k <= Len(x) /\ k <= Len(z) /\ Up(x, k) = Up(z, k)
      BY <1>11 DEF Same
    <2>2. n \in 1 .. k
      BY <1>4, <1>11
    <2>3. Up(Up(x, k), n) = Up(x, n) /\ Up(Up(z, k), n) = Up(z, n)
      BY <2>1, <2>2, TreeUp
    <2>4. n <= Len(x) /\ n <= Len(z)
      BY <1>4, <1>9, <1>11, <2>1
    <2> QED
      BY <2>1, <2>3, <2>4 DEF M, L, Same
  <1>12. ASSUME NEW x \in ToSet(t), NEW m \in 1 .. 3, m < Len(x)
         PROVE  Before(r, Up(x, m), x)
    <2> DEFINE w == Up(x, m)
    <2>1. m <= Len(x) /\ Len(x) \in 1 .. 3
      BY <1>9, <1>12
    <2>2. w \in ToSet(t) /\ Before(t, w, x) /\ Len(w) = m /\ Up(w, m) = w
      <3>1. m \in 1 .. m
        OBVIOUS
      <3> QED
        BY <1>12, <2>1, <3>1, TreeUp
    <2>3. ~ (M(w) /\ L(x))
      <3> SUFFICES ASSUME M(w), L(x) PROVE FALSE
        OBVIOUS
      <3>1. n <= m
        BY <2>2 DEF M, Same
      <3>2. ~ (m < n)
        BY <1>4, <3>1
      <3>3. Same(w, x, m)
        BY <2>1, <2>2 DEF Same
      <3> HIDE DEF w
      <3>4. M(x)
        BY <1>11, <2>2, <3>2, <3>3
      <3> QED
        BY <1>8, <3>4
    <2> HIDE DEF w
    <2>4. Before(r, w, x)
      BY <1>7, <2>2, <2>3
    <2> QED
      BY <2>4 DEF w
  <1>13. ASSUME NEW x \in ToSet(t), NEW y \in ToSet(t), NEW z \in ToSet(t), NEW k \in 1 .. 3,
                Before(r, x, y), Before(r, y, z), Same(x, z, k)
         PROVE  Same(x, y, k)
    <2>1. ~ (Before(r, x, y) /\ Before(r, y, x)) /\ ~ (Before(r, y, z) /\ Before(r, z, y))
      BY <1>3, BeforeIsTotal
    <2>2. CASE L(x) /\ M(y)
      <3>1. CASE k < n
        BY <1>10, <2>2, <3>1 DEF Same
      <3>2. CASE ~ (k < n)
        <4>1. L(z)
          BY <1>11, <1>13, <2>2, <3>2
        <4>2. Before(r, z, y)
          BY <1>7, <2>2, <4>1
        <4> QED
          BY <1>13, <2>1, <4>2
      <3> QED
        BY <3>1, <3>2
    <2>3. CASE L(y) /\ M(z)
      <3>1. CASE k < n
        <4>1. Up(y, k) = Up(z, k) /\ k <= Len(y)
          BY <1>10, <2>3, <3>1
        <4> QED
          BY <1>13, <4>1 DEF Same
      <3>2. CASE ~ (k < n)
        <4>1. M(x)
          BY <1>11, <1>13, <2>3, <3>2
        <4>2. Before(r, y, x)
          BY <1>7, <2>3, <4>1
        <4> QED
          BY <1>13, <2>1, <4>2
      <3> QED
        BY <3>1, <3>2
    <2>4. CASE ~ (L(x) /\ M(y)) /\ ~ (L(y) /\ M(z))
      <3>1. Before(t, x, y) /\ Before(t, y, z)
        BY <1>7, <1>13, <2>4
      <3> QED
        BY <1>13, <3>1 DEF Tree
    <2> QED
      BY <2>2, <2>3, <2>4
  <1>14. Tree(r)
    BY <1>3, <1>9, <1>12, <1>13 DEF Tree
  <1> QED
    BY <1>3, <1>14

(* The entry behind a family is the next one beside its first. *)
LEMMA EndIsNext ==
  ASSUME NEW t, Tree(t), NEW k \in DOMAIN t, NEW next \in DOMAIN t, k < next, Beside(t[k], t[next]),
         \A i \in DOMAIN t : k < i /\ i < next => ~ Beside(t[i], t[next])
  PROVE  SubtreeEnd(t, k) = next
  <1> DEFINE end == SubtreeEnd(t, k)
             u == t[k] v == t[next] n == Len(u)
  <1>1. t \in Seq(Paths) /\ IsInjective(t) /\ Len(t) \in Nat /\ DOMAIN t = 1 .. Len(t)
    BY DEF Tree
  <1>2. /\ end \in Nat /\ k < end /\ end <= Len(t) + 1
        /\ Family(t, k, end, u)
        /\ end \in DOMAIN t => Len(t[end]) <= n
    BY SubtreeIs
  <1>3. /\ u \in ToSet(t) /\ v \in ToSet(t) /\ n \in 1 .. 3 /\ Len(v) = n
        /\ \A m \in 1 .. n - 1 : Up(u, m) = Up(v, m)
    BY DEF Tree, ToSet, Beside
  <1>4. u # v
    BY <1>1 DEF IsInjective
  <1>5. Up(v, n) = v /\ Up(u, n) = u
    <2>1. n <= Len(v) /\ n = Len(v) /\ n <= Len(u) /\ n = Len(u)
      BY <1>3
    <2> HIDE DEF u, v, n
    <2> QED
      BY <1>3, <2>1, TreeUp
  <1>6. /\ \A a, b : Before(t, a, b) => a \in ToSet(t) /\ b \in ToSet(t) /\ a # b
        /\ \A a, b : ~ (Before(t, a, b) /\ Before(t, b, a))
        /\ \A i, j \in DOMAIN t : Before(t, t[i], t[j]) <=> i < j
    BY TreeOrder
  <1>7. next \in k .. end - 1 <=> Same(u, v, n)
    BY <1>2 DEF Family
  <1> HIDE DEF end
  <1>8. end <= next
    <2>1. next \notin k .. end - 1
      <3> HIDE DEF u, v, n
      <3> QED
        BY <1>4, <1>5, <1>7 DEF Same
    <2> QED
      BY <1>1, <1>2, <2>1
  <1>9. ASSUME end < next PROVE FALSE
    <2> DEFINE e == t[end]
    <2>1. end \in DOMAIN t /\ Before(t, u, e) /\ Before(t, e, v) /\ e \in ToSet(t)
      BY <1>1, <1>2, <1>6, <1>9
    <2>2. Len(e) <= n /\ Len(e) \in 1 .. 3
      BY <1>2, <2>1 DEF Tree
    <2>3. ~ Beside(e, v)
      BY <1>1, <1>2, <1>9, <2>1
    <2> HIDE DEF u, v, n, e
    <2>4. CASE n = 1
      <3>1. Len(e) = 1
        <4>1. \A m \in 1 .. 3 : m <= 1 => m = 1
          OBVIOUS
        <4> QED
          BY <2>2, <2>4, <4>1
      <3>2. \A m \in 1 .. Len(e) - 1 : FALSE
        BY <3>1
      <3>3. Beside(e, v)
        BY <1>3, <2>4, <3>1, <3>2 DEF Beside
      <3> QED
        BY <2>3, <3>3
    <2>5. CASE n # 1
      <3>1. PICK m \in 1 .. 3 : m = n - 1
        BY <1>3, <2>5
      <3>2. m <= Len(u) /\ m <= Len(v) /\ m < n /\ m \in 1 .. n - 1 /\ m < Len(u)
        BY <1>3, <3>1 DEF n
      <3>3. Up(u, m) = Up(v, m)
        BY <1>3, <3>2
      <3>4. Same(u, v, m)
        BY <3>2, <3>3 DEF Same
      <3>5. Same(u, e, m)
        BY <1>3, <2>1, <3>4 DEF Tree
      <3>6. m <= Len(e) /\ Up(u, m) = Up(e, m)
        BY <3>5 DEF Same
      <3>7. Len(e) # m
        <4> SUFFICES ASSUME Len(e) = m PROVE FALSE
          OBVIOUS
        <4>1. Up(e, m) = e
          BY <2>1, <3>6, TreeUp
        <4>2. Before(t, Up(u, m), u)
          BY <1>3, <3>2, TreeUp
        <4> QED
          BY <1>6, <2>1, <3>6, <4>1, <4>2
      <3>8. Len(e) = n
        BY <1>3, <2>2, <3>1, <3>6, <3>7
      <3>9. \A l \in 1 .. Len(e) - 1 : Up(e, l) = Up(v, l)
        <4> SUFFICES ASSUME NEW l \in 1 .. Len(e) - 1 PROVE Up(e, l) = Up(v, l)
          OBVIOUS
        <4>1. l \in 1 .. m /\ l \in 1 .. n - 1
          BY <1>3, <3>1, <3>8
        <4>2. Up(Up(e, m), l) = Up(e, l) /\ Up(Up(v, m), l) = Up(v, l)
          BY <1>3, <2>1, <3>2, <3>6, <4>1, TreeUp
        <4> QED
          BY <3>3, <3>6, <4>2
      <3>10. Beside(e, v)
        BY <1>3, <3>8, <3>9 DEF Beside
      <3> QED
        BY <2>3, <3>10
    <2> QED
      BY <2>4, <2>5
  <1> QED
    BY <1>1, <1>2, <1>8, <1>9 DEF end

LEMMA SiblingsAre ==
  ASSUME NEW t, Tree(t), NEW start \in DOMAIN t
  PROVE  \A i \in DOMAIN t : i \in Siblings(t, start) <=> i # start /\ Beside(t[i], t[start])
  <1> TAKE i \in DOMAIN t
  <1>1. t[i] \in Paths /\ t[start] \in Paths /\ Len(t[i]) \in 1 .. 3
    BY DEF Tree, ToSet
  <1>2. Len(t[i]) = Len(t[start]) => (Front(t[i]) = Front(t[start]) <=> Beside(t[i], t[start]))
    BY <1>1, FrontIs
  <1>3. Beside(t[i], t[start]) => Len(t[i]) = Len(t[start])
    BY DEF Beside
  <1> QED
    BY <1>2, <1>3 DEF Siblings

LEMMA BesideAgain ==
  ASSUME NEW x, NEW y
  PROVE  /\ Beside(x, y) <=> Beside(y, x)
         /\ \A z : Beside(x, y) /\ Beside(y, z) => Beside(x, z)
  BY DEF Beside

LEMMA MovedTree ==
  ASSUME NEW t, Tree(t), NEW start \in DOMAIN t, NEW direction
  PROVE  Tree(Moved(t, start, direction))
  <1> DEFINE end == SubtreeEnd(t, start)
             before == { i \in Siblings(t, start) : i < start }
             after == { i \in Siblings(t, start) : i >= end }
  <1>1. t \in Seq(Paths) /\ Len(t) \in Nat /\ DOMAIN t = 1 .. Len(t)
    BY DEF Tree
  <1>2. \A i \in DOMAIN t : i \in Siblings(t, start) <=> i # start /\ Beside(t[i], t[start])
    BY SiblingsAre
  <1>3. Siblings(t, start) \subseteq DOMAIN t
    BY DEF Siblings
  <1>4. /\ end \in Nat /\ start < end /\ end <= Len(t) + 1
        /\ Family(t, start, end, t[start])
    BY SubtreeIs
  <1>5. CASE direction = "up" /\ before # {}
    <2> DEFINE k == CHOOSE i \in before : \A j \in before : j <= i
    <2>1. Moved(t, start, direction) = Swapped(t, k, start, end)
      BY <1>5 DEF Moved
    <2>2. before \in SUBSET Nat /\ \A i \in before : 1 <= i /\ i <= start
      BY <1>1, <1>3
    <2>3. \E i \in before : \A j \in before : j <= i
      <3> HIDE DEF before
      <3>1. start \in Nat /\ before \in SUBSET (1 .. start)
        BY <1>1, <2>2
      <3>2. \E i \in before : \A j \in before : i >= j
        BY <1>5, <3>1, GreatestOf
      <3>3. \A i, j \in before : i >= j <=> j <= i
        BY <2>2
      <3> QED
        BY <3>2, <3>3
    <2>4. k \in before /\ \A j \in before : j <= k
      <3> HIDE DEF before
      <3> QED
        BY <2>3
    <2> HIDE DEF k
    <2>5. k \in DOMAIN t /\ k < start /\ Beside(t[k], t[start])
      BY <1>2, <1>3, <2>4
    <2>6. ASSUME NEW i \in DOMAIN t, k < i, i < start, Beside(t[i], t[start]) PROVE FALSE
      <3>1. i \in before
        BY <1>1, <1>2, <2>6
      <3> QED
        BY <1>1, <2>4, <2>5, <2>6, <3>1
    <2>7. SubtreeEnd(t, k) = start
      BY <2>5, <2>6, EndIsNext
    <2>8. Family(t, k, start, t[k])
      BY <2>5, <2>7, SubtreeIs
    <2>9. start <= end
      BY <1>1, <1>4
    <2> DEFINE r == Swapped(t, k, start, end)
    <2>10. Tree(r)
      <3> HIDE DEF end
      <3> QED
        BY <1>4, <2>5, <2>8, <2>9, SwappedTree
    <2> QED
      BY <2>1, <2>10
  <1>6. CASE ~ (direction = "up" /\ before # {}) /\ direction = "down" /\ after # {}
    <2> DEFINE k == CHOOSE i \in after : \A j \in after : i <= j
               last == SubtreeEnd(t, k)
    <2>1. Moved(t, start, direction) = Swapped(t, start, end, last)
      BY <1>6 DEF Moved
    <2>2. after \in SUBSET Nat
      BY <1>1, <1>3
    <2>3. \E i \in after : \A j \in after : i <= j
      <3> HIDE DEF after
      <3> QED
        BY <1>6, <2>2, LeastOf
    <2>4. k \in after /\ \A j \in after : k <= j
      <3> HIDE DEF after
      <3> QED
        BY <2>3
    <2> HIDE DEF k
    <2>5. k \in DOMAIN t /\ start < k /\ end <= k /\ Beside(t[start], t[k])
      <3>1. k \in Siblings(t, start) /\ k >= end
        BY <2>4
      <3>2. k \in DOMAIN t
        BY <1>3, <3>1
      <3>3. Beside(t[start], t[k])
        BY <1>2, <3>1, <3>2, BesideAgain
      <3> HIDE DEF end
      <3> QED
        BY <1>1, <1>4, <3>1, <3>2, <3>3
    <2>6. ASSUME NEW i \in DOMAIN t, start < i, i < k, Beside(t[i], t[k]) PROVE FALSE
      <3>1. Beside(t[i], t[start])
        BY <2>5, <2>6, BesideAgain
      <3>2. i # start
        BY <1>1, <2>6
      <3>3. i \in Siblings(t, start)
        BY <1>2, <3>1, <3>2
      <3>4. CASE i >= end
        <4>1. i \in after
          BY <3>3, <3>4
        <4> QED
          BY <1>1, <2>4, <2>5, <2>6, <4>1
      <3>5. CASE ~ (i >= end)
        <4>1. i \in start .. end - 1
          BY <1>1, <1>4, <2>6, <3>5
        <4>2. Same(t[start], t[i], Len(t[start]))
          BY <1>4, <4>1 DEF Family
        <4>3. Len(t[i]) = Len(t[start]) /\ Len(t[i]) \in 1 .. 3 /\ t[i] \in ToSet(t) /\ t[start] \in ToSet(t)
          BY <3>1 DEF Beside, Tree, ToSet
        <4>4. Up(t[i], Len(t[i])) = t[i] /\ Up(t[start], Len(t[i])) = t[start]
          <5> DEFINE n == Len(t[i])
          <5>1. n \in 1 .. 3 /\ n <= n /\ n = Len(t[i]) /\ n = Len(t[start])
            BY <4>3
          <5> HIDE DEF n
          <5> QED
            BY <4>3, <5>1, TreeUp
        <4>5. t[i] = t[start]
          BY <4>2, <4>3, <4>4 DEF Same
        <4> QED
          BY <3>2, <4>5 DEF Tree, IsInjective
      <3> QED
        BY <3>4, <3>5
    <2>7. end = k
      BY <2>5, <2>6, EndIsNext
    <2>8. last \in Nat /\ k < last /\ last <= Len(t) + 1 /\ Family(t, k, last, t[k])
      BY <2>5, SubtreeIs
    <2>9. k <= last
      BY <1>1, <2>5, <2>8
    <2> DEFINE r == Swapped(t, start, k, last)
    <2>10. Tree(r)
      <3>1. Family(t, start, k, t[start])
        BY <1>4, <2>7
      <3> HIDE DEF last
      <3> QED
        BY <2>5, <2>8, <2>9, <3>1, SwappedTree
    <2> QED
      BY <2>1, <2>7, <2>10
  <1>7. CASE ~ (direction = "up" /\ before # {}) /\ ~ (direction = "down" /\ after # {})
    <2>1. Moved(t, start, direction) = t
      BY <1>7 DEF Moved
    <2> QED
      BY <2>1
  <1> QED
    BY <1>5, <1>6, <1>7

(* Some of the elements of a sequence in its order. *)
Within(r, e) ==
    /\ r \in Seq(Paths) /\ IsInjective(r) /\ ToSet(r) \subseteq ToSet(e)
    /\ \A x, y : Before(r, x, y) => Before(e, x, y)

LEMMA EmptyIs ==
  /\ \A S : \A r \in Seq(S) : r = <<>> <=> ToSet(r) = {}
  /\ ToSet(<<>>) = {} /\ IsInjective(<<>>) /\ <<>> \in Seq(Paths)
  /\ \A x, y : ~ Before(<<>>, x, y)
  <1>1. ToSet(<<>>) = {} /\ IsInjective(<<>>) /\ <<>> \in Seq(Paths) /\ \A x, y : ~ Before(<<>>, x, y)
    BY DEF ToSet, IsInjective, Before
  <1>2. ASSUME NEW S, NEW r \in Seq(S), r # <<>> PROVE ToSet(r) # {}
    <2>1. 1 \in DOMAIN r
      BY <1>2
    <2>2. r[1] \in ToSet(r)
      BY <2>1 DEF ToSet
    <2> QED
      BY <2>2
  <1> QED
    BY <1>1, <1>2

LEMMA EmptyWithin == ASSUME NEW e PROVE Within(<<>>, e)
  BY EmptyIs DEF Within

LEMMA GroupRowsAre ==
  ASSUME NEW s, NEW o, Settled(s, o), NEW m, NEW show, NEW group \in Paths, Len(group) = 2
  PROVE  LET r == GroupRows(s, o, m, show, group)
             P == Passing(s, m, show)
         IN /\ Within(r, GroupEntries(s, o, group))
            /\ \A key \in ToSet(s) : key \in ToSet(r) <=>
                    /\ Up(key, 2) = group /\ key \in P /\ group \notin m.hidden
                    /\ ~ (show.groups /\ group \in m.collapsed)
            /\ ToSet(r) = {} <=> group \in m.hidden \/ \A key \in P : Up(key, 2) # group
  <1> DEFINE r == GroupRows(s, o, m, show, group)
             e == GroupEntries(s, o, group)
             P == Passing(s, m, show)
             q == OrderedSensors(s, group, o.rows)
             sensors == Selected(q, P)
             a == <<group>>
  <1>0. Sensed(s) /\ Positions(o.rows)
    BY DEF Settled
  <1>1. q \in Seq(Paths) /\ IsInjective(q) /\ ToSet(q) = { key \in ToSet(s) : Up(key, 2) = group }
    BY <1>0, SensorsAre
  <1>2. /\ \A x : x \in ToSet(e) <=> x = group \/ (x \in ToSet(s) /\ Up(x, 2) = group)
        /\ \A x, y : Before(e, x, y) <=> (x = group /\ y \in ToSet(q)) \/ Before(q, x, y)
    BY <1>0, GroupEntriesAre
  <1>3. P \subseteq ToSet(s)
    BY DEF Passing
  <1> HIDE DEF e, q, P
  <1>4. /\ sensors \in Seq(Paths) /\ IsInjective(sensors) /\ ToSet(sensors) = ToSet(q) \cap P
        /\ \A x, y : Before(sensors, x, y) => Before(q, x, y)
    BY <1>1, SelectedIs
  <1>5. a \in Seq(Paths) /\ IsInjective(a) /\ ToSet(a) = {group} /\ \A y, z : ~ Before(a, y, z)
    BY SingleIs
  <1>6. sensors = <<>> <=> \A key \in P : Up(key, 2) # group
    <2>1. sensors = <<>> <=> ToSet(sensors) = {}
      <3> HIDE DEF sensors
      <3> QED
        BY <1>4, EmptyIs
    <2> QED
      BY <1>1, <1>3, <1>4, <2>1
  <1>7. \A key \in ToSet(s) : key # group /\ key \in Paths
    <2>1. \A key \in ToSet(s) : Len(key) = 3 /\ key \in Paths
      BY <1>0 DEF Sensed
    <2> HIDE DEF r, sensors
    <2> TAKE key \in ToSet(s)
    <2>2. Len(key) = 3 /\ Len(group) = 2
      BY <2>1
    <2>3. key # group
      BY <2>2
    <2> QED
      BY <2>1, <2>3
  <1>8. r = IF group \in m.hidden \/ sensors = <<>> THEN <<>>
            ELSE IF ~ show.groups THEN sensors
            ELSE IF group \in m.collapsed THEN a ELSE a \o sensors
    BY DEF GroupRows, sensors, q, P
  <1> HIDE DEF r, sensors, a
  <1>9. Within(sensors, e)
    BY <1>1, <1>2, <1>4 DEF Within
  <1>10. CASE group \in m.hidden \/ sensors = <<>>
    <2>1. r = <<>> /\ ToSet(r) = {}
      BY <1>8, <1>10, EmptyIs
    <2>2. Within(r, e)
      BY <2>1, EmptyWithin
    <2> QED
      BY <1>6, <1>10, <2>1, <2>2 DEF r, e, P
  <1>11. CASE ~ (group \in m.hidden \/ sensors = <<>>) /\ ~ show.groups
    <2>1. r = sensors
      BY <1>8, <1>11
    <2>2. Within(r, e)
      BY <1>9, <2>1
    <2>3. \A key \in ToSet(s) : key \in ToSet(r) <=> Up(key, 2) = group /\ key \in P
      BY <1>1, <1>4, <2>1
    <2>4. ToSet(r) # {}
      BY <1>4, <1>11, <2>1, EmptyIs
    <2> QED
      BY <1>6, <1>11, <2>2, <2>3, <2>4 DEF r, e, P
  <1>12. CASE ~ (group \in m.hidden \/ sensors = <<>>) /\ show.groups /\ group \in m.collapsed
    <2>1. r = a
      BY <1>8, <1>12
    <2>2. Within(r, e)
      BY <1>2, <1>5, <2>1 DEF Within
    <2>3. \A key \in ToSet(s) : key \notin ToSet(r)
      BY <1>5, <1>7, <2>1
    <2>4. ToSet(r) # {}
      BY <1>5, <2>1
    <2> QED
      BY <1>6, <1>12, <2>2, <2>3, <2>4 DEF r, e, P
  <1>13. CASE ~ (group \in m.hidden \/ sensors = <<>>) /\ show.groups /\ group \notin m.collapsed
    <2> DEFINE b == a \o sensors
    <2>1. r = b
      BY <1>8, <1>13
    <2>2. /\ b \in Seq(Paths)
          /\ ToSet(b) = ToSet(a) \cup ToSet(sensors)
          /\ \A x, y : Before(b, x, y) <=>
                (Before(a, x, y) \/ Before(sensors, x, y) \/ (x \in ToSet(a) /\ y \in ToSet(sensors)))
          /\ IsInjective(a) /\ IsInjective(sensors) /\ ToSet(a) \cap ToSet(sensors) = {}
                => IsInjective(b)
      <3>1. a \in Seq(Paths) /\ sensors \in Seq(Paths)
        BY <1>4, <1>5
      <3> QED
        BY <3>1, ConcatIs
    <2> HIDE DEF b
    <2>3. ToSet(a) \cap ToSet(sensors) = {}
      BY <1>1, <1>4, <1>5, <1>7
    <2>4. Within(r, e)
      <3>1. IsInjective(r) /\ r \in Seq(Paths)
        BY <1>4, <1>5, <2>1, <2>2, <2>3
      <3>2. ToSet(r) \subseteq ToSet(e)
        BY <1>1, <1>2, <1>4, <1>5, <2>1, <2>2
      <3>3. \A x, y : Before(r, x, y) => Before(e, x, y)
        BY <1>2, <1>4, <1>5, <2>1, <2>2
      <3> QED
        BY <3>1, <3>2, <3>3 DEF Within
    <2>5. \A key \in ToSet(s) : key \in ToSet(r) <=> Up(key, 2) = group /\ key \in P
      BY <1>1, <1>4, <1>5, <1>7, <2>1, <2>2
    <2>6. ToSet(r) # {}
      BY <1>5, <2>1, <2>2
    <2> QED
      BY <1>6, <1>13, <2>4, <2>5, <2>6 DEF r, e, P
  <1> QED
    BY <1>10, <1>11, <1>12, <1>13

LEMMA DeviceRowsAre ==
  ASSUME NEW s, NEW o, Settled(s, o), NEW m, NEW show, NEW device \in Paths, Len(device) = 1
  PROVE  LET r == DeviceRows(s, o, m, show, device)
             P == Passing(s, m, show)
         IN /\ Within(r, DeviceEntries(s, o, device))
            /\ \A key \in ToSet(s) : key \in ToSet(r) <=>
                    /\ Up(key, 1) = device /\ key \in P /\ device \notin m.hidden
                    /\ device \notin m.collapsed /\ Up(key, 2) \notin m.hidden
                    /\ ~ (show.groups /\ Up(key, 2) \in m.collapsed)
            /\ device \in ToSet(r) <=>
                    /\ device \notin m.hidden
                    /\ \E key \in P : Up(key, 1) = device /\ Up(key, 2) \notin m.hidden
  <1> DEFINE r == DeviceRows(s, o, m, show, device)
             e == DeviceEntries(s, o, device)
             P == Passing(s, m, show)
             p == OrderedGroups(s, device, o.rows)
             f == [g \in ToSet(p) |-> GroupRows(s, o, m, show, g)]
             ss == [i \in DOMAIN p |-> GroupRows(s, o, m, show, p[i])]
             q == FlattenSeq(ss)
             a == <<device>>
             Some == \E key \in P : Up(key, 1) = device /\ Up(key, 2) \notin m.hidden
  <1>0. Sensed(s) /\ Positions(o.rows)
    BY DEF Settled
  <1>1. p \in Seq(Paths) /\ IsInjective(p)
        /\ ToSet(p) = { Up(key, 2) : key \in { k \in ToSet(s) : Up(k, 1) = device } }
    BY <1>0, GroupsAre
  <1>2. \A g \in ToSet(p) : g \in Paths /\ Len(g) = 2 /\ Up(g, 1) = device
    BY <1>0, <1>1, UpOfSensed
  <1>3. a \in Seq(Paths) /\ IsInjective(a) /\ ToSet(a) = {device} /\ \A y, z : ~ Before(a, y, z)
    BY SingleIs
  <1>4. r = IF device \in m.hidden \/ q = <<>> THEN <<>>
            ELSE IF device \in m.collapsed THEN a ELSE a \o q
    BY DEF DeviceRows
  <1>5. /\ \A x : x \in ToSet(e) <=>
                    x = device \/ \E g \in ToSet(p) : x \in ToSet(GroupEntries(s, o, g))
        /\ \A x, y : Before(e, x, y) <=>
                    \/ x = device /\ y # device /\ y \in ToSet(e)
                    \/ \E g \in ToSet(p) : Before(GroupEntries(s, o, g), x, y)
                    \/ \E g, h \in ToSet(p) : /\ Before(p, g, h)
                                              /\ x \in ToSet(GroupEntries(s, o, g))
                                              /\ y \in ToSet(GroupEntries(s, o, h))
    BY <1>0, DeviceEntriesAre
  <1>6. P \subseteq ToSet(s)
    BY DEF Passing
  <1> HIDE DEF p, a, r, e
  <1>7. \A g \in ToSet(p) :
          /\ f[g] = GroupRows(s, o, m, show, g)
          /\ Within(f[g], GroupEntries(s, o, g))
          /\ \A key \in ToSet(s) : key \in ToSet(f[g]) <=>
                    /\ Up(key, 2) = g /\ key \in P /\ g \notin m.hidden
                    /\ ~ (show.groups /\ g \in m.collapsed)
          /\ ToSet(f[g]) = {} <=> g \in m.hidden \/ \A key \in P : Up(key, 2) # g
    <2> HIDE DEF P
    <2> TAKE g \in ToSet(p)
    <2>1. g \in Paths /\ Len(g) = 2 /\ f[g] = GroupRows(s, o, m, show, g)
      BY <1>2
    <2> HIDE DEF f
    <2> QED
      BY <2>1, GroupRowsAre DEF P
  <1>8. \A g \in ToSet(p) : \A x \in ToSet(f[g]) :
          x \in ToSet(GroupEntries(s, o, g)) /\ Up(x, 2) = g /\ Len(x) \in 2 .. 3
    <2> TAKE g \in ToSet(p)
    <2> HIDE DEF f
    <2> TAKE x \in ToSet(f[g])
    <2>1. x \in ToSet(GroupEntries(s, o, g))
      BY <1>7 DEF Within
    <2> QED
      BY <1>0, <1>2, <2>1, EntryOfGroup
  <1>9. OneForEach(Paths, p, f, ss)
    <2>1. \A i \in DOMAIN p : p[i] \in ToSet(p)
      BY DEF ToSet
    <2>2. Len(p) \in Nat /\ DOMAIN p = 1 .. Len(p) /\ DOMAIN ss = 1 .. Len(p)
      BY <1>1
    <2>3. \A g \in ToSet(p) : f[g] \in Seq(Paths) /\ IsInjective(f[g])
      <3> HIDE DEF f
      <3> QED
        BY <1>7 DEF Within
    <2>4. f \in [ToSet(p) -> Seq(Paths)]
      BY <2>3
    <2>5. \A i \in DOMAIN p : ss[i] = f[p[i]] /\ ss[i] \in Seq(Paths)
      BY <2>1, <2>3
    <2>6. ss = [i \in 1 .. Len(p) |-> ss[i]]
      BY <2>2
    <2> HIDE DEF f, ss
    <2>7. ss \in Seq(Seq(Paths))
      BY <2>2, <2>5, <2>6
    <2>8. \A g, h \in ToSet(p) : g # h => ToSet(f[g]) \cap ToSet(f[h]) = {}
      BY <1>8
    <2> QED
      BY <1>1, <2>2, <2>3, <2>4, <2>5, <2>7, <2>8 DEF OneForEach
  <1> HIDE DEF f, ss
  <1>10. /\ q \in Seq(Paths) /\ IsInjective(q)
         /\ \A x : x \in ToSet(q) <=> \E g \in ToSet(p) : x \in ToSet(f[g])
         /\ \A x, y : Before(q, x, y) <=>
                \/ \E g \in ToSet(p) : Before(f[g], x, y)
                \/ \E g, h \in ToSet(p) : Before(p, g, h) /\ x \in ToSet(f[g]) /\ y \in ToSet(f[h])
    BY <1>9, FlattenOver
  <1> HIDE DEF q
  <1>11. Within(q, e) /\ device \notin ToSet(q)
    <2>1. ToSet(q) \subseteq ToSet(e)
      BY <1>5, <1>8, <1>10
    <2>2. ASSUME NEW x, NEW y, Before(q, x, y) PROVE Before(e, x, y)
      <3>1. CASE \E g \in ToSet(p) : Before(f[g], x, y)
        BY <1>5, <1>7, <3>1 DEF Within
      <3>2. CASE \E g, h \in ToSet(p) : Before(p, g, h) /\ x \in ToSet(f[g]) /\ y \in ToSet(f[h])
        BY <1>5, <1>8, <3>2
      <3> QED
        BY <1>10, <2>2, <3>1, <3>2
    <2>3. device \notin ToSet(q)
      <3>1. \A n \in 2 .. 3 : n # 1
        OBVIOUS
      <3> QED
        BY <1>8, <1>10, <3>1
    <2> QED
      BY <1>10, <2>1, <2>2, <2>3 DEF Within
  <1>12. \A key \in ToSet(s) : key \in ToSet(q) <=>
                    /\ Up(key, 1) = device /\ key \in P /\ Up(key, 2) \notin m.hidden
                    /\ ~ (show.groups /\ Up(key, 2) \in m.collapsed)
    <2> TAKE key \in ToSet(s)
    <2>1. Up(key, 1) = device => Up(key, 2) \in ToSet(p)
      BY <1>1
    <2>2. \A g \in ToSet(p) : Up(key, 2) = g => Up(key, 1) = device
      BY <1>0, <1>2, UpOfSensed
    <2> HIDE DEF P
    <2> QED
      BY <1>7, <1>10, <2>1, <2>2
  <1>13. ToSet(q) = {} <=> ~ Some
    <2>1. ASSUME NEW key \in P, Up(key, 1) = device, Up(key, 2) \notin m.hidden PROVE ToSet(q) # {}
      <3>1. Up(key, 2) \in ToSet(p)
        BY <1>1, <1>6, <2>1
      <3>2. ToSet(f[Up(key, 2)]) # {}
        BY <1>7, <2>1, <3>1
      <3> QED
        BY <1>10, <3>1, <3>2
    <2>2. ASSUME ToSet(q) # {} PROVE Some
      <3>1. PICK g \in ToSet(p) : ToSet(f[g]) # {}
        BY <1>10, <2>2
      <3>2. PICK key \in P : Up(key, 2) = g /\ g \notin m.hidden
        BY <1>7, <3>1
      <3>3. Up(key, 1) = device
        BY <1>0, <1>2, <1>6, <3>2, UpOfSensed
      <3> QED
        BY <3>2, <3>3
    <2> QED
      BY <2>1, <2>2
  <1>14. q = <<>> <=> ~ Some
    BY <1>10, <1>13, EmptyIs
  <1>15. \A key \in ToSet(s) : key # device
    BY <1>0 DEF Sensed
  <1> HIDE DEF Some, P
  <1>16. CASE device \in m.hidden \/ q = <<>>
    <2>1. r = <<>> /\ ToSet(r) = {}
      BY <1>4, <1>16, EmptyIs
    <2>2. Within(r, e)
      BY <2>1, EmptyWithin
    <2>3. ~ (device \notin m.hidden /\ Some)
      BY <1>14, <1>16
    <2>4. \A key \in ToSet(s) :
            ~ (/\ Up(key, 1) = device /\ key \in P /\ device \notin m.hidden
               /\ device \notin m.collapsed /\ Up(key, 2) \notin m.hidden
               /\ ~ (show.groups /\ Up(key, 2) \in m.collapsed))
      BY <2>3 DEF Some
    <2> QED
      BY <2>1, <2>2, <2>3, <2>4 DEF r, e, P, Some
  <1>17. CASE ~ (device \in m.hidden \/ q = <<>>) /\ device \in m.collapsed
    <2>1. r = a
      BY <1>4, <1>17
    <2>2. Within(r, e)
      BY <1>3, <1>5, <2>1 DEF Within
    <2>3. device \in ToSet(r) /\ \A key \in ToSet(s) : key \notin ToSet(r)
      BY <1>3, <1>15, <2>1
    <2> QED
      BY <1>14, <1>17, <2>2, <2>3 DEF r, e, P, Some
  <1>18. CASE ~ (device \in m.hidden \/ q = <<>>) /\ device \notin m.collapsed
    <2> DEFINE b == a \o q
    <2>1. r = b
      BY <1>4, <1>18
    <2>2. /\ b \in Seq(Paths)
          /\ ToSet(b) = ToSet(a) \cup ToSet(q)
          /\ \A x, y : Before(b, x, y) <=>
                (Before(a, x, y) \/ Before(q, x, y) \/ (x \in ToSet(a) /\ y \in ToSet(q)))
          /\ IsInjective(a) /\ IsInjective(q) /\ ToSet(a) \cap ToSet(q) = {}
                => IsInjective(b)
      <3>1. a \in Seq(Paths) /\ q \in Seq(Paths)
        BY <1>3, <1>10
      <3> QED
        BY <3>1, ConcatIs
    <2> HIDE DEF b
    <2>3. ToSet(a) \cap ToSet(q) = {}
      BY <1>3, <1>11
    <2>4. Within(r, e)
      <3>1. IsInjective(r) /\ r \in Seq(Paths)
        BY <1>3, <1>10, <2>1, <2>2, <2>3
      <3>2. ToSet(r) \subseteq ToSet(e)
        BY <1>3, <1>5, <1>11, <2>1, <2>2 DEF Within
      <3>3. ASSUME NEW x, NEW y, Before(r, x, y) PROVE Before(e, x, y)
        <4>1. Before(q, x, y) \/ (x = device /\ y \in ToSet(q))
          BY <1>3, <2>1, <2>2, <3>3
        <4>2. CASE Before(q, x, y)
          BY <1>11, <4>2 DEF Within
        <4>3. CASE x = device /\ y \in ToSet(q)
          <5>1. y \in ToSet(e) /\ y # device
            BY <1>11, <4>3 DEF Within
          <5> QED
            BY <1>5, <4>3, <5>1
        <4> QED
          BY <4>1, <4>2, <4>3
      <3> QED
        BY <3>1, <3>2, <3>3 DEF Within
    <2>5. \A key \in ToSet(s) : key \in ToSet(r) <=>
                    /\ Up(key, 1) = device /\ key \in P /\ Up(key, 2) \notin m.hidden
                    /\ ~ (show.groups /\ Up(key, 2) \in m.collapsed)
      BY <1>3, <1>12, <1>15, <2>1, <2>2
    <2>6. device \in ToSet(r)
      BY <1>3, <2>1, <2>2
    <2> QED
      BY <1>14, <1>18, <2>4, <2>5, <2>6 DEF r, e, P, Some
  <1> QED
    BY <1>16, <1>17, <1>18

LEMMA BuildRowsAre ==
  ASSUME NEW s, NEW o, Settled(s, o), NEW m, NEW show
  PROVE  LET r == BuildRows(s, o, m, show)
             P == Passing(s, m, show)
         IN /\ Within(r, OrderEntries(s, o))
            /\ \A key \in ToSet(s) : key \in ToSet(r) <=>
                    /\ key \in P /\ Up(key, 1) \notin m.hidden \cup m.collapsed
                    /\ Up(key, 2) \notin m.hidden
                    /\ ~ (show.groups /\ Up(key, 2) \in m.collapsed)
            /\ \A k \in ToSet(s) : Up(k, 1) \in ToSet(r) <=>
                    /\ Up(k, 1) \notin m.hidden
                    /\ \E key \in P : Up(key, 1) = Up(k, 1) /\ Up(key, 2) \notin m.hidden
  <1> DEFINE r == BuildRows(s, o, m, show)
             e == OrderEntries(s, o)
             P == Passing(s, m, show)
             p == OrderedDevices(s, o.devices)
             f == [d \in ToSet(p) |-> DeviceRows(s, o, m, show, d)]
             ss == [i \in DOMAIN p |-> DeviceRows(s, o, m, show, p[i])]
  <1>0. Sensed(s) /\ Positions(o.devices) /\ Positions(o.rows)
    BY DEF Settled
  <1>1. p \in Seq(Paths) /\ IsInjective(p) /\ ToSet(p) = { Up(key, 1) : key \in ToSet(s) }
    BY <1>0, DevicesAre
  <1>2. \A d \in ToSet(p) : d \in Paths /\ Len(d) = 1
    BY <1>0, <1>1, UpOfSensed
  <1>3. r = FlattenSeq(ss)
    BY DEF BuildRows
  <1>4. /\ \A x : x \in ToSet(e) <=> \E d \in ToSet(p) : x \in ToSet(DeviceEntries(s, o, d))
        /\ \A x, y : Before(e, x, y) <=>
                    \/ \E d \in ToSet(p) : Before(DeviceEntries(s, o, d), x, y)
                    \/ \E d, g \in ToSet(p) : /\ Before(p, d, g)
                                              /\ x \in ToSet(DeviceEntries(s, o, d))
                                              /\ y \in ToSet(DeviceEntries(s, o, g))
    BY <1>0, OrderEntriesAre
  <1> HIDE DEF p, r, e
  <1>5. \A d \in ToSet(p) :
          /\ f[d] = DeviceRows(s, o, m, show, d)
          /\ Within(f[d], DeviceEntries(s, o, d))
          /\ \A key \in ToSet(s) : key \in ToSet(f[d]) <=>
                    /\ Up(key, 1) = d /\ key \in P /\ d \notin m.hidden
                    /\ d \notin m.collapsed /\ Up(key, 2) \notin m.hidden
                    /\ ~ (show.groups /\ Up(key, 2) \in m.collapsed)
          /\ d \in ToSet(f[d]) <=>
                    /\ d \notin m.hidden
                    /\ \E key \in P : Up(key, 1) = d /\ Up(key, 2) \notin m.hidden
    <2> HIDE DEF P
    <2> TAKE d \in ToSet(p)
    <2>1. d \in Paths /\ Len(d) = 1 /\ f[d] = DeviceRows(s, o, m, show, d)
      BY <1>2
    <2> HIDE DEF f
    <2> QED
      BY <2>1, DeviceRowsAre DEF P
  <1>6. \A d \in ToSet(p) : \A x \in ToSet(f[d]) :
          x \in ToSet(DeviceEntries(s, o, d)) /\ Up(x, 1) = d
    <2> TAKE d \in ToSet(p)
    <2> HIDE DEF f
    <2> TAKE x \in ToSet(f[d])
    <2>1. x \in ToSet(DeviceEntries(s, o, d))
      BY <1>5 DEF Within
    <2> QED
      BY <1>0, <1>2, <2>1, EntryOfDevice
  <1>7. OneForEach(Paths, p, f, ss)
    <2>1. \A i \in DOMAIN p : p[i] \in ToSet(p)
      BY DEF ToSet
    <2>2. Len(p) \in Nat /\ DOMAIN p = 1 .. Len(p) /\ DOMAIN ss = 1 .. Len(p)
      BY <1>1
    <2>3. \A g \in ToSet(p) : f[g] \in Seq(Paths) /\ IsInjective(f[g])
      <3> HIDE DEF f
      <3> QED
        BY <1>5 DEF Within
    <2>4. f \in [ToSet(p) -> Seq(Paths)]
      BY <2>3
    <2>5. \A i \in DOMAIN p : ss[i] = f[p[i]] /\ ss[i] \in Seq(Paths)
      BY <2>1, <2>3
    <2>6. ss = [i \in 1 .. Len(p) |-> ss[i]]
      BY <2>2
    <2> HIDE DEF f, ss
    <2>7. ss \in Seq(Seq(Paths))
      BY <2>2, <2>5, <2>6
    <2>8. \A g, h \in ToSet(p) : g # h => ToSet(f[g]) \cap ToSet(f[h]) = {}
      BY <1>6
    <2> QED
      BY <1>1, <2>2, <2>3, <2>4, <2>5, <2>7, <2>8 DEF OneForEach
  <1> HIDE DEF f, ss
  <1>8. /\ r \in Seq(Paths) /\ IsInjective(r)
        /\ \A x : x \in ToSet(r) <=> \E d \in ToSet(p) : x \in ToSet(f[d])
        /\ \A x, y : Before(r, x, y) <=>
                \/ \E d \in ToSet(p) : Before(f[d], x, y)
                \/ \E d, g \in ToSet(p) : Before(p, d, g) /\ x \in ToSet(f[d]) /\ y \in ToSet(f[g])
    BY <1>3, <1>7, FlattenOver
  <1>9. Within(r, e)
    <2>1. ToSet(r) \subseteq ToSet(e)
      BY <1>4, <1>6, <1>8
    <2>2. ASSUME NEW x, NEW y, Before(r, x, y) PROVE Before(e, x, y)
      <3>1. CASE \E d \in ToSet(p) : Before(f[d], x, y)
        BY <1>4, <1>5, <3>1 DEF Within
      <3>2. CASE \E d, g \in ToSet(p) : Before(p, d, g) /\ x \in ToSet(f[d]) /\ y \in ToSet(f[g])
        BY <1>4, <1>6, <3>2
      <3> QED
        BY <1>8, <2>2, <3>1, <3>2
    <2> QED
      BY <1>8, <2>1, <2>2 DEF Within
  <1> HIDE DEF P
  <1>10. \A key \in ToSet(s) : key \in ToSet(r) <=>
                    /\ key \in P /\ Up(key, 1) \notin m.hidden \cup m.collapsed
                    /\ Up(key, 2) \notin m.hidden
                    /\ ~ (show.groups /\ Up(key, 2) \in m.collapsed)
    <2> TAKE key \in ToSet(s)
    <2>1. Up(key, 1) \in ToSet(p)
      BY <1>1
    <2> QED
      BY <1>5, <1>8, <2>1
  <1>11. \A k \in ToSet(s) : Up(k, 1) \in ToSet(r) <=>
                    /\ Up(k, 1) \notin m.hidden
                    /\ \E key \in P : Up(key, 1) = Up(k, 1) /\ Up(key, 2) \notin m.hidden
    <2> TAKE k \in ToSet(s)
    <2> DEFINE d == Up(k, 1)
    <2>1. d \in ToSet(p)
      BY <1>1
    <2>2. \A g \in ToSet(p) : d \in ToSet(f[g]) => g = d
      <3>1. Up(d, 1) = d
        <4>1. d \in Paths /\ Len(d) = 1 /\ 1 \in 1 .. 1
          BY <1>2, <2>1
        <4> HIDE DEF d
        <4> QED
          BY <4>1, UpIs
      <3> HIDE DEF d
      <3> QED
        BY <1>6, <3>1
    <2> HIDE DEF d
    <2>3. d \in ToSet(r) <=> d \in ToSet(f[d])
      BY <1>8, <2>1, <2>2
    <2>4. d \in ToSet(f[d]) <=> /\ d \notin m.hidden
                                /\ \E key \in P : Up(key, 1) = d /\ Up(key, 2) \notin m.hidden
      BY <1>5, <2>1
    <2> QED
      BY <2>3, <2>4 DEF d
  <1> QED
    BY <1>9, <1>10, <1>11 DEF r, P, e

(* Rows in the order of entries that agree with what was organized. *)
LEMMA InOrderOf ==
  ASSUME NEW e, Tree(e), Placed(e, order), NEW rows, Within(rows, e), Tree(organized),
         \A x, y \in ToSet(organized) : Beside(x, y) /\ Before(organized, x, y) =>
              Before(IF Len(x) = 1 THEN order.devices ELSE order.rows, x, y),
         \A x \in ToSet(organized) :
              x \in ToSet(IF Len(x) = 1 THEN order.devices ELSE order.rows),
         \A x : x \in ToSet(order.devices) \cup ToSet(order.rows) => x \in ToSet(organized)
  PROVE  InOrder(rows)
  <1>1. /\ rows \in Seq(Paths) /\ IsInjective(rows) /\ ToSet(rows) \subseteq ToSet(e)
        /\ \A x, y : Before(rows, x, y) => Before(e, x, y)
    BY DEF Within
  <1>2. organized \in Seq(Paths) /\ IsInjective(organized)
    BY DEF Tree
  <1>3. ASSUME NEW x \in ToSet(organized) \cap ToSet(e), NEW y \in ToSet(organized) \cap ToSet(e),
               Beside(x, y), Before(organized, x, y)
        PROVE  Before(e, x, y)
    BY <1>3 DEF Placed
  <1>4. \A x, y \in ToSet(organized) \cap ToSet(e) : Before(organized, x, y) => Before(e, x, y)
    BY <1>3, TreesAgree
  <1>5. /\ \A x, y \in ToSet(rows) : x # y => Before(rows, x, y) \/ Before(rows, y, x)
        /\ \A x, y : Before(e, x, y) => ~ Before(e, y, x)
    BY <1>1, BeforeIsTotal, TreeOrder
  <1>6. Selected(rows, ToSet(organized)) = Selected(organized, ToSet(rows))
    <2> DEFINE a == Selected(organized, ToSet(rows))
               b == Selected(rows, ToSet(organized))
    <2>1. /\ a \in Seq(Paths) /\ IsInjective(a) /\ ToSet(a) = ToSet(organized) \cap ToSet(rows)
          /\ \A x, y : Before(a, x, y) <=>
                Before(organized, x, y) /\ x \in ToSet(rows) /\ y \in ToSet(rows)
      BY <1>2, SelectedIs
    <2>2. /\ b \in Seq(Paths) /\ IsInjective(b) /\ ToSet(b) = ToSet(rows) \cap ToSet(organized)
          /\ \A x, y : Before(b, x, y) <=>
                Before(rows, x, y) /\ x \in ToSet(organized) /\ y \in ToSet(organized)
      BY <1>1, SelectedIs
    <2> HIDE DEF a, b
    <2>3. ASSUME NEW x \in ToSet(a), NEW y \in ToSet(a), Before(a, x, y)
          PROVE  Before(b, x, y)
      <3>1. /\ Before(organized, x, y) /\ x \in ToSet(organized) /\ x \in ToSet(rows)
            /\ y \in ToSet(organized) /\ y \in ToSet(rows) /\ x \in ToSet(e) /\ y \in ToSet(e)
        BY <1>1, <2>1, <2>3
      <3>2. Before(e, x, y) /\ x # y
        BY <1>4, <3>1, TreeOrder
      <3>3. Before(rows, x, y)
        BY <1>1, <1>5, <3>1, <3>2
      <3> QED
        BY <2>2, <3>1, <3>3
    <2>4. a = b
      BY <2>1, <2>2, <2>3, SameOrderEqual
    <2> QED
      BY <2>4 DEF a, b
  <1>7. ASSUME NEW i \in DOMAIN rows, NEW j \in DOMAIN rows,
               Len(rows[i]) = Len(rows[j]), Front(rows[i]) = Front(rows[j]),
               rows[i] \in ToSet(organized), rows[j] \notin ToSet(organized)
        PROVE  i < j
    <2> DEFINE x == rows[i] y == rows[j]
    <2>1. x \in ToSet(rows) /\ y \in ToSet(rows) /\ x \in Paths /\ y \in Paths
      BY <1>1 DEF ToSet
    <2>2. x \in ToSet(e) /\ y \in ToSet(e) /\ Len(x) \in 1 .. 3
      BY <1>1, <2>1 DEF Tree
    <2>3. Beside(x, y)
      BY <1>7, <2>1, <2>2, FrontIs
    <2> HIDE DEF x, y
    <2>4. x \in ToSet(organized) /\ y \notin ToSet(organized)
      BY <1>7 DEF x, y
    <2>5. Before(e, x, y)
      BY <2>2, <2>3, <2>4 DEF Placed
    <2>6. Before(rows, x, y)
      BY <1>1, <1>5, <2>1, <2>4, <2>5
    <2>7. PICK k, l \in DOMAIN rows : k < l /\ rows[k] = x /\ rows[l] = y
      BY <2>6 DEF Before
    <2> QED
      BY <1>1, <2>7 DEF x, y, IsInjective
  <1> QED
    BY <1>6, <1>7 DEF InOrder

(* What was applied is a tree, and the settings have it in two parts; what *)
(* is being organized is a tree.                                           *)
Carried(t) ==
    LET devices == { key \in ToSet(t) : Len(key) = 1 }
    IN [devices |-> Selected(t, devices), rows |-> Selected(t, ToSet(t) \ devices)]

MarkedSets == [hidden : SUBSET RowKeys, collapsed : SUBSET RowKeys, favorites : SUBSET RowKeys]

RowOptions == [groups : BOOLEAN, favoritesOnly : BOOLEAN, scope : {"visible", "all", "favorites"},
             query : SUBSET RowKeys]

RowsInv ==
    /\ readings \in Snapshots
    /\ Tree(organizer) /\ Tree(organized) /\ order = Carried(organized)
    /\ marked \in MarkedSets /\ options \in RowOptions

LEMMA KeysAre ==
  ASSUME NEW S, NEW T, NEW key \in S \X T \X S, T \subseteq S
  PROVE  key \in Seq(S) /\ Len(key) = 3 /\ key[2] \in T
  <1>1. PICK a \in S, b \in T, c \in S : key = <<a, b, c>>
    OBVIOUS
  <1>2. a \in S /\ b \in S /\ c \in S
    BY <1>1
  <1>3. <<a, b, c>> \in Seq(S) /\ Len(<<a, b, c>>) = 3 /\ <<a, b, c>>[2] = b
    BY <1>2
  <1> QED
    BY <1>1, <1>3

LEMMA SnapshotIsSensed ==
  ASSUME NEW s \in Snapshots
  PROVE  Sensed(s) /\ ToSet(s) \subseteq AllSensors
  <1>1. Kinds \in Seq(STRING) /\ s \in Seq(STRING \X ToSet(Kinds) \X STRING) /\ IsInjective(s)
    BY RowsAssumption
  <1>2. ToSet(Kinds) \subseteq STRING
    <2>1. ASSUME NEW S, NEW t \in Seq(S) PROVE ToSet(t) \subseteq S
      BY DEF ToSet
    <2> QED
      BY <1>1, <2>1
  <1>3. \A key \in STRING \X ToSet(Kinds) \X STRING :
          key \in Paths /\ Len(key) = 3 /\ key[2] \in ToSet(Kinds)
    BY <1>2, KeysAre DEF Paths
  <1> DEFINE K == STRING \X ToSet(Kinds) \X STRING
  <1>4. s \in Seq(K) /\ \A key \in K : key \in Paths /\ Len(key) = 3 /\ key[2] \in ToSet(Kinds)
    BY <1>1, <1>3
  <1> HIDE DEF K
  <1>5. \A i \in DOMAIN s : s[i] \in K
    BY <1>4
  <1>6. \A key \in ToSet(s) : key \in K
    BY <1>5 DEF ToSet
  <1>7. s \in Seq(Paths)
    <2>1. \A i \in 1 .. Len(s) : s[i] \in Paths
      BY <1>4, <1>5
    <2> QED
      BY <1>4, <2>1
  <1>8. ToSet(s) \subseteq AllSensors
    BY DEF AllSensors
  <1> QED
    BY <1>1, <1>4, <1>6, <1>7, <1>8 DEF Sensed

LEMMA CarriedIs ==
  ASSUME NEW t, Tree(t)
  PROVE  LET o == Carried(t)
         IN /\ Positions(o.devices) /\ Positions(o.rows)
            /\ \A x, y \in ToSet(t) : Beside(x, y) /\ Before(t, x, y) =>
                  Before(IF Len(x) = 1 THEN o.devices ELSE o.rows, x, y)
            /\ \A x \in ToSet(t) : x \in ToSet(IF Len(x) = 1 THEN o.devices ELSE o.rows)
            /\ \A x : x \in ToSet(o.devices) \cup ToSet(o.rows) => x \in ToSet(t)
  <1> DEFINE D == { key \in ToSet(t) : Len(key) = 1 }
             R == ToSet(t) \ D
             a == Selected(t, D)
             b == Selected(t, R)
             o == Carried(t)
  <1>1. o.devices = a /\ o.rows = b
    BY DEF Carried
  <1>2. t \in Seq(Paths) /\ IsInjective(t)
    BY DEF Tree
  <1>3. /\ a \in Seq(Paths) /\ IsInjective(a) /\ ToSet(a) = ToSet(t) \cap D
        /\ \A x, y : Before(a, x, y) <=> Before(t, x, y) /\ x \in D /\ y \in D
    <2> HIDE DEF D
    <2> QED
      BY <1>2, SelectedIs
  <1>4. /\ b \in Seq(Paths) /\ IsInjective(b) /\ ToSet(b) = ToSet(t) \cap R
        /\ \A x, y : Before(b, x, y) <=> Before(t, x, y) /\ x \in R /\ y \in R
    <2> HIDE DEF R
    <2> QED
      BY <1>2, SelectedIs
  <1> HIDE DEF a, b, o
  <1>5. ASSUME NEW x \in ToSet(t), NEW y \in ToSet(t), Beside(x, y), Before(t, x, y)
        PROVE  Before(IF Len(x) = 1 THEN o.devices ELSE o.rows, x, y)
    <2>1. Len(x) = Len(y)
      BY <1>5 DEF Beside
    <2>2. CASE Len(x) = 1
      BY <1>1, <1>3, <1>5, <2>1, <2>2
    <2>3. CASE Len(x) # 1
      BY <1>1, <1>4, <1>5, <2>1, <2>3
    <2> QED
      BY <2>2, <2>3
  <1>6. \A x \in ToSet(t) : x \in ToSet(IF Len(x) = 1 THEN o.devices ELSE o.rows)
    BY <1>1, <1>3, <1>4
  <1>7. \A x : x \in ToSet(o.devices) \cup ToSet(o.rows) => x \in ToSet(t)
    BY <1>1, <1>3, <1>4
  <1>8. Positions(o.devices) /\ Positions(o.rows)
    BY <1>1, <1>3, <1>4 DEF Positions
  <1> QED
    BY <1>5, <1>6, <1>7, <1>8 DEF o

LEMMA RowsAreSettled ==
  ASSUME RowsInv
  PROVE  Settled(readings, order)
  <1>1. Sensed(readings)
    BY SnapshotIsSensed DEF RowsInv
  <1>2. Tree(organized) /\ order = Carried(organized)
    BY DEF RowsInv
  <1>3. Positions(order.devices) /\ Positions(order.rows)
    BY <1>2, CarriedIs
  <1> QED
    BY <1>1, <1>3 DEF Settled

(* The rows, of the window and of the log, are keys of sensors there were. *)
LEMMA RowsAreKeys ==
  ASSUME RowsInv
  PROVE  ToSet(SensorRows) \subseteq RowKeys
  <1>1. Settled(readings, order) /\ ToSet(readings) \subseteq AllSensors
    BY RowsAreSettled, SnapshotIsSensed DEF RowsInv
  <1>2. Within(SensorRows, OrderEntries(readings, order))
    BY <1>1, BuildRowsAre DEF SensorRows
  <1> SUFFICES ASSUME NEW x \in ToSet(SensorRows) PROVE x \in RowKeys
    OBVIOUS
  <1>3. x \in ToSet(OrderEntries(readings, order))
    BY <1>2 DEF Within
  <1>4. Len(x) \in 1 .. 3 /\ \E key \in ToSet(readings) : x = Up(key, Len(x))
    BY <1>1, <1>3, EntryIs
  <1>5. PICK key \in ToSet(readings), n \in 1 .. 3 : x = Up(key, n)
    BY <1>4
  <1>6. key \in AllSensors
    BY <1>1
  <1> QED
    BY <1>5, <1>6 DEF RowKeys

LEMMA RowsStart ==
  ASSUME RowsInit
  PROVE  RowsInv
  <1>1. /\ readings \in Snapshots /\ order = [devices |-> <<>>, rows |-> <<>>]
        /\ marked = [hidden |-> {}, collapsed |-> {}, favorites |-> {}]
        /\ options = [groups |-> TRUE, favoritesOnly |-> FALSE, scope |-> "visible", query |-> RowKeys]
        /\ organizer = <<>> /\ organized = <<>>
    BY DEF RowsInit, NormalOptions, NoSearch
  <1>2. \A keep : Selected(<<>>, keep) = <<>>
    <2> TAKE keep
    <2> DEFINE a == Selected(<<>>, keep)
    <2>1. a \in Seq(Paths) /\ ToSet(a) = ToSet(<<>>) \cap keep
      BY EmptyIs, SelectedIs
    <2> HIDE DEF a
    <2>2. ToSet(a) = {}
      BY <2>1, EmptyIs
    <2>3. a = <<>>
      BY <2>1, <2>2, EmptyIs
    <2> QED
      BY <2>3 DEF a
  <1>3. Carried(<<>>) = [devices |-> <<>>, rows |-> <<>>]
    BY <1>2 DEF Carried
  <1>4. marked \in MarkedSets
    BY <1>1 DEF MarkedSets
  <1>5. options \in RowOptions
    BY <1>1 DEF RowOptions
  <1> QED
    BY <1>1, <1>3, <1>4, <1>5, EmptyTree DEF RowsInv

LEMMA RowsInductive ==
  ASSUME RowsInv, [RowsNext]_rowsVars
  PROVE  RowsInv'
  <1>1. CASE UNCHANGED rowsVars
    BY <1>1 DEF rowsVars, RowsInv, Tree, Carried, MarkedSets, RowOptions
  <1>2. CASE Organize
    <2>1. Tree(OrderEntries(readings, order))
      BY RowsAreSettled, EntriesAreTree
    <2>2. Tree(organizer')
      BY <1>2, <2>1 DEF Organize
    <2>3. UNCHANGED <<readings, order, marked, options, organized>>
      BY <1>2 DEF Organize
    <2> QED
      BY <2>2, <2>3 DEF RowsInv
  <1>3. CASE MoveSelected
    <2>1. PICK start \in DOMAIN organizer, direction \in {"up", "down"} :
            organizer' = Moved(organizer, start, direction)
      BY <1>3 DEF MoveSelected
    <2>2. Tree(organizer) /\ Tree(Moved(organizer, start, direction))
      BY MovedTree DEF RowsInv
    <2>3. Tree(organizer')
      BY <2>1, <2>2
    <2>4. UNCHANGED <<readings, order, marked, options, organized>>
      BY <1>3 DEF MoveSelected
    <2> QED
      BY <2>3, <2>4 DEF RowsInv
  <1>4. CASE ApplyOrder
    <2>1. order' = Carried(organizer) /\ organized' = organizer /\ organizer' = <<>>
      BY <1>4 DEF ApplyOrder, Carried
    <2>2. Tree(organized') /\ Tree(organizer') /\ order' = Carried(organized')
      BY <2>1, EmptyTree DEF RowsInv
    <2>3. UNCHANGED <<readings, marked, options>>
      BY <1>4 DEF ApplyOrder
    <2> QED
      BY <2>2, <2>3 DEF RowsInv
  <1>5. CASE CancelOrganizing
    <2>1. organizer' = <<>> /\ UNCHANGED <<readings, order, marked, options, organized>>
      BY <1>5 DEF CancelOrganizing
    <2>2. Tree(organizer')
      BY <2>1, EmptyTree
    <2> QED
      BY <2>1, <2>2 DEF RowsInv
  <1>6. CASE ReadingsChange
    <2>1. readings' \in Snapshots /\ UNCHANGED <<order, marked, options, organizer, organized>>
      BY <1>6 DEF ReadingsChange
    <2> QED
      BY <2>1 DEF RowsInv
  <1>7. ASSUME NEW change \in MarkedSets, Mark(change)
        PROVE  RowsInv'
    <2>1. marked' = change /\ UNCHANGED <<readings, order, options, organizer, organized>>
      BY <1>7 DEF Mark
    <2> QED
      BY <1>7, <2>1 DEF RowsInv
  <1>8. marked \in MarkedSets /\ ToSet(SensorRows) \subseteq RowKeys
    BY RowsAreKeys DEF RowsInv
  <1>9. CASE HideRow
    <2>1. PICK key \in ToSet(SensorRows) : Mark([marked EXCEPT !.hidden = @ \cup {key}])
      BY <1>9 DEF HideRow
    <2>2. [marked EXCEPT !.hidden = @ \cup {key}] \in MarkedSets
      BY <1>8 DEF MarkedSets
    <2> QED
      BY <1>7, <2>1, <2>2
  <1>10. CASE ToggleCollapsed
    <2>1. PICK key \in ToSet(SensorRows) :
            Mark([marked EXCEPT !.collapsed = IF key \in @ THEN @ \ {key} ELSE @ \cup {key}])
      BY <1>10 DEF ToggleCollapsed
    <2>2. [marked EXCEPT !.collapsed = IF key \in @ THEN @ \ {key} ELSE @ \cup {key}] \in MarkedSets
      BY <1>8 DEF MarkedSets
    <2> QED
      BY <1>7, <2>1, <2>2
  <1>11. CASE SetFavorite
    <2>1. PICK key \in ToSet(SensorRows), favorite \in BOOLEAN :
            Mark([marked EXCEPT !.favorites = IF favorite THEN @ \cup {key} ELSE @ \ {key}])
      BY <1>11 DEF SetFavorite
    <2>2. [marked EXCEPT !.favorites = IF favorite THEN @ \cup {key} ELSE @ \ {key}] \in MarkedSets
      BY <1>8 DEF MarkedSets
    <2> QED
      BY <1>7, <2>1, <2>2
  <1>12. CASE ShowHiddenItems
    <2>1. PICK shown : Mark([marked EXCEPT !.hidden = @ \ shown])
      BY <1>12 DEF ShowHiddenItems
    <2>2. [marked EXCEPT !.hidden = @ \ shown] \in MarkedSets
      BY <1>8 DEF MarkedSets
    <2> QED
      BY <1>7, <2>1, <2>2
  <1>13. CASE ChangeOptions
    <2>1. \A q \in Searches : q \in SUBSET RowKeys
      BY RowsAssumption
    <2>2. NormalOptions \in RowOptions
      BY DEF NormalOptions, RowOptions, NoSearch
    <2>3. options' \in RowOptions
      <3>1. \A groups, favoritesOnly \in BOOLEAN, scope \in {"visible", "all", "favorites"} :
              \A q \in SUBSET RowKeys :
                /\ [NormalOptions EXCEPT !.groups = groups] \in RowOptions
                /\ [NormalOptions EXCEPT !.favoritesOnly = favoritesOnly] \in RowOptions
                /\ [NormalOptions EXCEPT !.scope = scope] \in RowOptions
                /\ [NormalOptions EXCEPT !.query = q] \in RowOptions
        BY <2>2 DEF RowOptions
      <3>2. options' \in { [NormalOptions EXCEPT !.groups = FALSE],
                           [NormalOptions EXCEPT !.favoritesOnly = TRUE],
                           [NormalOptions EXCEPT !.scope = "all"],
                           [NormalOptions EXCEPT !.scope = "favorites"], NormalOptions }
                         \cup { [NormalOptions EXCEPT !.query = q] : q \in Searches }
        BY <1>13 DEF ChangeOptions
      <3>3. TRUE \in BOOLEAN /\ FALSE \in BOOLEAN
        OBVIOUS
      <3> HIDE DEF NormalOptions
      <3> QED
        BY <2>1, <2>2, <3>1, <3>2, <3>3, Zenon
    <2>4. UNCHANGED <<readings, order, marked, organizer, organized>>
      BY <1>13 DEF ChangeOptions
    <2> QED
      BY <2>3, <2>4 DEF RowsInv
  <1> QED
    BY <1>1, <1>2, <1>3, <1>4, <1>5, <1>6, <1>9, <1>10, <1>11, <1>12, <1>13 DEF RowsNext

LEMMA OrderIsKept ==
  ASSUME RowsInv
  PROVE  OrderKept
  <1> DEFINE e == OrderEntries(readings, order)
  <1>1. Settled(readings, order)
    BY RowsAreSettled
  <1>2. Tree(e) /\ Placed(e, order)
    BY <1>1, EntriesAreTree, EntriesArePlaced
  <1>3. Within(SensorRows, e)
    BY <1>1, BuildRowsAre DEF SensorRows
  <1>4. Within(LoggingRows, e)
    BY <1>1, BuildRowsAre DEF LoggingRows
  <1>5. Tree(organized) /\ order = Carried(organized)
    BY DEF RowsInv
  <1>6. /\ \A x, y \in ToSet(organized) : Beside(x, y) /\ Before(organized, x, y) =>
              Before(IF Len(x) = 1 THEN order.devices ELSE order.rows, x, y)
        /\ \A x \in ToSet(organized) :
              x \in ToSet(IF Len(x) = 1 THEN order.devices ELSE order.rows)
        /\ \A x : x \in ToSet(order.devices) \cup ToSet(order.rows) => x \in ToSet(organized)
    BY <1>5, CarriedIs
  <1> HIDE DEF e
  <1>7. InOrder(SensorRows) /\ InOrder(LoggingRows)
    BY <1>2, <1>3, <1>4, <1>5, <1>6, InOrderOf
  <1> QED
    BY <1>7 DEF OrderKept

LEMMA LogIsItsScope ==
  ASSUME RowsInv
  PROVE  LogsItsScope
  <1> DEFINE m == LoggingVisibility(marked)
             show == [options EXCEPT !.query = NoSearch,
                                     !.favoritesOnly = options.scope = "favorites"]
             r == LoggingRows
  <1>1. Settled(readings, order)
    BY RowsAreSettled
  <1>2. Within(r, OrderEntries(readings, order))
    BY <1>1, BuildRowsAre DEF LoggingRows
  <1>3. \A key \in ToSet(readings) : key \in ToSet(r) <=>
                    /\ key \in Passing(readings, m, show)
                    /\ Up(key, 1) \notin m.hidden \cup m.collapsed
                    /\ Up(key, 2) \notin m.hidden
                    /\ ~ (show.groups /\ Up(key, 2) \in m.collapsed)
    BY <1>1, BuildRowsAre DEF LoggingRows
  <1>4. /\ m.collapsed = {} /\ m.hidden = IF options.scope = "visible" THEN marked.hidden ELSE {}
        /\ m.favorites = marked.favorites
    BY DEF LoggingVisibility, RowsInv, MarkedSets
  <1>5. show.query = RowKeys /\ show.favoritesOnly = (options.scope = "favorites")
    BY DEF RowsInv, RowOptions, NoSearch
  <1>6. ToSet(readings) \subseteq AllSensors /\ options.scope \in {"visible", "all", "favorites"}
    BY SnapshotIsSensed DEF RowsInv, RowOptions
  <1> HIDE DEF m, show, r
  <1>7. ASSUME NEW key \in ToSet(readings)
        PROVE  key \in ToSet(r) <=>
                  CASE options.scope = "all" -> TRUE
                    [] options.scope = "favorites" -> key \in marked.favorites
                    [] OTHER -> \A n \in 1 .. 3 : Up(key, n) \notin marked.hidden
    <2>1. key \in Paths /\ Len(key) = 3 /\ Up(key, 3) = key
      <3>1. key \in Paths /\ Len(key) = 3
        BY <1>1 DEF Settled, Sensed
      <3> QED
        BY <3>1, UpIs
    <2>2. Up(key, 1) \in RowKeys
      <3>1. key \in AllSensors /\ 1 \in 1 .. 3
        BY <1>6
      <3> QED
        BY <3>1 DEF RowKeys
    <2>3. key \in Passing(readings, m, show) <=>
            key \notin m.hidden /\ (show.favoritesOnly => key \in m.favorites)
      <3>1. \E n \in 1 .. 3 : Up(key, n) \in show.query
        BY <1>5, <2>2
      <3> QED
        BY <3>1 DEF Passing
    <2>4. key \in ToSet(r) <=>
            /\ key \notin m.hidden /\ Up(key, 1) \notin m.hidden /\ Up(key, 2) \notin m.hidden
            /\ options.scope = "favorites" => key \in marked.favorites
      BY <1>3, <1>4, <1>5, <2>3
    <2>5. (\A n \in 1 .. 3 : Up(key, n) \notin marked.hidden) <=>
            key \notin marked.hidden /\ Up(key, 1) \notin marked.hidden /\ Up(key, 2) \notin marked.hidden
      <3>1. \A n \in 1 .. 3 : n = 1 \/ n = 2 \/ n = 3
        OBVIOUS
      <3> QED
        BY <2>1, <3>1
    <2>6. CASE options.scope = "all"
      BY <1>4, <2>4, <2>6
    <2>7. CASE options.scope = "favorites"
      BY <1>4, <2>4, <2>7
    <2>8. CASE options.scope = "visible"
      BY <1>4, <2>4, <2>5, <2>8
    <2> QED
      BY <1>6, <2>6, <2>7, <2>8
  <1>8. \A key \in ToSet(r) : Len(key) = 3 => key \in ToSet(readings)
    BY <1>1, <1>2, EntryIs DEF Within
  <1>9. \A key \in ToSet(readings) : Len(key) = 3
    BY <1>1 DEF Settled, Sensed
  <1> QED
    BY <1>7, <1>8, <1>9 DEF LogsItsScope, r

LEMMA RestIsShown ==
  ASSUME RowsInv
  PROVE  ShowsTheRest
  <1> DEFINE r == SensorRows
             P == Passing(readings, marked, options)
             KeptBack(key) ==
                \/ \E n \in 1 .. 3 : Up(key, n) \in marked.hidden
                \/ options.favoritesOnly /\ key \notin marked.favorites
                \/ \A n \in 1 .. 3 : Up(key, n) \notin options.query
             Folded(key) ==
                \/ Up(key, 1) \in marked.collapsed
                \/ options.groups /\ Up(key, 2) \in marked.collapsed
  <1>1. Settled(readings, order)
    BY RowsAreSettled
  <1>2. /\ Within(r, OrderEntries(readings, order))
        /\ \A key \in ToSet(readings) : key \in ToSet(r) <=>
                /\ key \in P /\ Up(key, 1) \notin marked.hidden \cup marked.collapsed
                /\ Up(key, 2) \notin marked.hidden
                /\ ~ (options.groups /\ Up(key, 2) \in marked.collapsed)
        /\ \A k \in ToSet(readings) : Up(k, 1) \in ToSet(r) <=>
                /\ Up(k, 1) \notin marked.hidden
                /\ \E key \in P : Up(key, 1) = Up(k, 1) /\ Up(key, 2) \notin marked.hidden
    BY <1>1, BuildRowsAre DEF SensorRows
  <1> HIDE DEF r
  <1>3. \A key \in ToSet(readings) :
          ~ KeptBack(key) <=> key \in P /\ Up(key, 1) \notin marked.hidden /\ Up(key, 2) \notin marked.hidden
    <2> TAKE key \in ToSet(readings)
    <2>1. Up(key, 3) = key
      <3> HIDE DEF P, KeptBack, Folded
      <3>1. key \in Paths /\ Len(key) = 3
        BY <1>1 DEF Settled, Sensed
      <3>2. 3 \in 1 .. Len(key)
        BY <3>1
      <3> QED
        BY <3>1, <3>2, UpIs
    <2>2. (\A n \in 1 .. 3 : Up(key, n) \notin marked.hidden) <=>
            key \notin marked.hidden /\ Up(key, 1) \notin marked.hidden /\ Up(key, 2) \notin marked.hidden
      <3>1. \A n \in 1 .. 3 : n = 1 \/ n = 2 \/ n = 3
        OBVIOUS
      <3> QED
        BY <2>1, <3>1
    <2> QED
      BY <2>2 DEF Passing
  <1>4. P \subseteq ToSet(readings)
    BY DEF Passing
  <1>5. \A key \in ToSet(r) : Len(key) = 3 => key \in ToSet(readings)
    BY <1>1, <1>2, EntryIs DEF Within
  <1>6. \A x \in ToSet(r) : Len(x) = 1 => \E k \in ToSet(readings) : x = Up(k, 1)
    <2> TAKE x \in ToSet(r)
    <2>1. x \in ToSet(OrderEntries(readings, order))
      BY <1>2 DEF Within
    <2>2. \E key \in ToSet(readings) : x = Up(key, Len(x))
      BY <1>1, <2>1, EntryIs
    <2> QED
      BY <2>2
  <1>7. \A key \in ToSet(readings) : Len(key) = 3 /\ Len(Up(key, 1)) = 1
    <2> TAKE key \in ToSet(readings)
    <2>1. key \in Paths /\ Len(key) = 3 /\ 1 \in 1 .. Len(key)
      BY <1>1 DEF Settled, Sensed
    <2> HIDE DEF P, KeptBack, Folded
    <2> QED
      BY <2>1, UpIs
  <1> HIDE DEF P, KeptBack
  <1>8. { key \in ToSet(r) : Len(key) = 3 } = { key \in ToSet(readings) : ~KeptBack(key) /\ ~Folded(key) }
    BY <1>2, <1>3, <1>5, <1>7
  <1>9. { key \in ToSet(r) : Len(key) = 1 } = { Up(key, 1) : key \in { k \in ToSet(readings) : ~KeptBack(k) } }
    <2>1. ASSUME NEW x \in ToSet(r), Len(x) = 1
          PROVE  \E key \in ToSet(readings) : ~KeptBack(key) /\ x = Up(key, 1)
      <3>1. PICK k \in ToSet(readings) : x = Up(k, 1)
        BY <1>6, <2>1
      <3>2. PICK key \in P : /\ Up(key, 1) = Up(k, 1) /\ Up(key, 2) \notin marked.hidden
                             /\ Up(k, 1) \notin marked.hidden
        BY <1>2, <2>1, <3>1
      <3>3. key \in ToSet(readings) /\ ~KeptBack(key)
        BY <1>3, <1>4, <3>2
      <3> QED
        BY <3>1, <3>2, <3>3
    <2>2. ASSUME NEW key \in ToSet(readings), ~KeptBack(key)
          PROVE  Up(key, 1) \in ToSet(r) /\ Len(Up(key, 1)) = 1
      BY <1>2, <1>3, <1>7, <2>2
    <2> QED
      BY <2>1, <2>2
  <1> QED
    BY <1>8, <1>9 DEF ShowsTheRest, r, KeptBack

LEMMA RowsTrueOf == RowsInv => RowsTrue
  <1> SUFFICES ASSUME RowsInv PROVE RowsTrue
    OBVIOUS
  <1>1. OrganizerIsTree
    <2>1. Tree(organizer)
      BY DEF RowsInv
    <2> QED
      BY <2>1, TreeIsOrganized DEF OrganizerIsTree
  <1> QED
    BY <1>1, OrderIsKept, LogIsItsScope, RestIsShown DEF RowsTrue

-----------------------------------------------------------------------------
(* HardwareInventory *)

(* Functions that are laid over one another *)
LEMMA OverlayIs ==
  ASSUME NEW f, NEW g
  PROVE  /\ DOMAIN Extended(f, g) = DOMAIN f \cup DOMAIN g
         /\ \A k \in DOMAIN f : Extended(f, g)[k] = f[k]
         /\ \A k \in DOMAIN g : k \notin DOMAIN f => Extended(f, g)[k] = g[k]
  BY DEF Extended

LEMMA OptionIs ==
  ASSUME NEW k, NEW option, \A x, y \in option : x = y
  PROVE  /\ DOMAIN Option(k, option) = IF option = {} THEN {} ELSE {k}
         /\ \A x \in option : Option(k, option)[k] = x
  <1>1. DOMAIN Option(k, option) = {k : x \in option}
    BY DEF Option
  <1>2. {k : x \in option} = IF option = {} THEN {} ELSE {k}
    OBVIOUS
  <1>3. ASSUME NEW x \in option PROVE Option(k, option)[k] = x
    <2>1. k \in {k : y \in option}
      BY <1>3
    <2>2. (CHOOSE y \in option : TRUE) = x
      BY <1>3
    <2> QED
      BY <2>1, <2>2 DEF Option
  <1> QED
    BY <1>1, <1>2, <1>3

LEMMA PairIs ==
  ASSUME NEW k, NEW v
  PROVE  DOMAIN Option(k, {v}) = {k} /\ Option(k, {v})[k] = v
  <1>1. \A x, y \in {v} : x = y
    OBVIOUS
  <1> QED
    BY <1>1, OptionIs

LEMMA RenamedIs ==
  ASSUME NEW f, NEW old, NEW new, old # new
  PROVE  LET r == Renamed(f, old, new)
         IN /\ DOMAIN r = IF old \in DOMAIN f THEN (DOMAIN f \ {old}) \cup {new} ELSE DOMAIN f
            /\ \A k \in DOMAIN f \ {old} : r[k] = f[k]
            /\ old \in DOMAIN f /\ new \notin DOMAIN f => r[new] = f[old]
  <1>1. CASE old \notin DOMAIN f
    BY <1>1 DEF Renamed
  <1>2. CASE old \in DOMAIN f
    <2> DEFINE g == Without(f, {old})
               p == Option(new, {f[old]})
    <2>1. DOMAIN g = DOMAIN f \ {old} /\ \A k \in DOMAIN f \ {old} : g[k] = f[k]
      BY DEF Without
    <2>2. DOMAIN p = {new} /\ p[new] = f[old]
      BY PairIs
    <2>3. Renamed(f, old, new) = Extended(g, p)
      BY <1>2 DEF Renamed
    <2> DEFINE r == Renamed(f, old, new)
    <2> HIDE DEF g, p
    <2>4. /\ DOMAIN Extended(g, p) = DOMAIN g \cup DOMAIN p
          /\ \A k \in DOMAIN g : Extended(g, p)[k] = g[k]
          /\ \A k \in DOMAIN p : k \notin DOMAIN g => Extended(g, p)[k] = p[k]
      BY OverlayIs
    <2>5. r = Extended(g, p)
      BY <2>3
    <2> HIDE DEF r
    <2>6. DOMAIN r = (DOMAIN f \ {old}) \cup {new}
      BY <2>1, <2>2, <2>4, <2>5
    <2>7. \A k \in DOMAIN f \ {old} : r[k] = f[k]
      BY <2>1, <2>4, <2>5
    <2>8. new \notin DOMAIN f => r[new] = f[old]
      BY <2>1, <2>2, <2>4, <2>5
    <2> QED
      BY <1>2, <2>6, <2>7, <2>8 DEF r
  <1> QED
    BY <1>1, <1>2

-----------------------------------------------------------------------------
(* Devices of a machine *)

(* What is known of a device, and of it in a machine *)
DeviceIs(d) ==
    /\ d \in DeviceWith(DOMAIN d.properties)
    /\ \A x, y \in d.vendor : x = y
    /\ \A x, y \in d.model : x = y
    /\ \A x, y \in d.health : x = y
    /\ d.health # {} => d.refreshable
    /\ DOMAIN d.properties \cap {"bios_version", "bios_date", "bios_vendor"} = {}
    /\ "release_date" \in DOMAIN d.properties => d.class = "Bios"

MachineIs(devices) ==
    /\ \A d \in devices : DeviceIs(d)
    /\ \A d, e \in devices : d.id = e.id => d = e
    /\ \A d, e \in devices : d.class = "Bios" /\ e.class = "Bios" => d = e

LEMMA MachinesAre == \A devices \in Machines \cup {{}} : MachineIs(devices)
  <1> SUFFICES ASSUME NEW devices \in Machines PROVE MachineIs(devices)
    BY DEF MachineIs
  <1>1. \A d, e \in devices : d.id = e.id \/ {d.class, e.class} = {"Bios"} => d = e
    BY MachinesAssumption
  <1>2. ASSUME NEW d \in devices PROVE DeviceIs(d)
    <2>1. /\ d \in DeviceWith(DOMAIN d.properties)
          /\ \A option \in {d.vendor, d.model} : \A x, y \in option : x = y
          /\ \A x, y \in d.health : x = y
          /\ d.health # {} => d.refreshable
          /\ DOMAIN d.properties \cap {"bios_version", "bios_date", "bios_vendor"} = {}
          /\ "release_date" \in DOMAIN d.properties => d.class = "Bios"
      BY MachinesAssumption
    <2>2. d.vendor \in {d.vendor, d.model} /\ d.model \in {d.vendor, d.model}
      OBVIOUS
    <2> QED
      BY <2>1, <2>2 DEF DeviceIs
  <1>3. \A d, e \in devices : d.class = "Bios" /\ e.class = "Bios" => {d.class, e.class} = {"Bios"}
    OBVIOUS
  <1> QED
    BY <1>1, <1>2, <1>3 DEF MachineIs

(* The properties that firmware brings to its board or to its own page *)
LEMMA FirmwareProperties ==
  ASSUME NEW f, DeviceIs(f)
  PROVE  LET n == NormalizedFirmware(f)
         IN /\ "bios_version" \in DOMAIN n <=> f.model # {}
            /\ \A version \in f.model : n["bios_version"] = version
            /\ "bios_date" \in DOMAIN n <=> "release_date" \in DOMAIN f.properties
            /\ "release_date" \in DOMAIN f.properties =>
                  n["bios_date"] = f.properties["release_date"]
            /\ "bios_vendor" \notin DOMAIN n
  <1> DEFINE p == f.properties
             o == Option("bios_version", f.model)
             a == Extended(p, o)
             b == Renamed(a, "release_date", "bios_date")
             n == NormalizedFirmware(f)
  <1>1. DOMAIN p \cap {"bios_version", "bios_date", "bios_vendor"} = {}
        /\ \A x, y \in f.model : x = y
    BY DEF DeviceIs
  <1>2. /\ DOMAIN o = IF f.model = {} THEN {} ELSE {"bios_version"}
        /\ \A x \in f.model : o["bios_version"] = x
    BY <1>1, OptionIs
  <1>3. n = Renamed(b, "bios_release", "platform_firmware_revision")
    BY DEF NormalizedFirmware
  <1> HIDE DEF p, o, n
  <1>4. /\ DOMAIN a = DOMAIN p \cup DOMAIN o
        /\ \A k \in DOMAIN p : a[k] = p[k]
        /\ \A k \in DOMAIN o : k \notin DOMAIN p => a[k] = o[k]
    BY OverlayIs
  <1> HIDE DEF a
  <1>5. /\ DOMAIN b = IF "release_date" \in DOMAIN a
                      THEN (DOMAIN a \ {"release_date"}) \cup {"bios_date"} ELSE DOMAIN a
        /\ \A k \in DOMAIN a \ {"release_date"} : b[k] = a[k]
        /\ "release_date" \in DOMAIN a /\ "bios_date" \notin DOMAIN a =>
              b["bios_date"] = a["release_date"]
    <2>1. "release_date" # "bios_date"
      OBVIOUS
    <2> QED
      BY <2>1, RenamedIs
  <1> HIDE DEF b
  <1>6. /\ DOMAIN n = IF "bios_release" \in DOMAIN b
                      THEN (DOMAIN b \ {"bios_release"}) \cup {"platform_firmware_revision"}
                      ELSE DOMAIN b
        /\ \A k \in DOMAIN b \ {"bios_release"} : n[k] = b[k]
    <2> DEFINE r == Renamed(b, "bios_release", "platform_firmware_revision")
    <2>1. "bios_release" # "platform_firmware_revision"
      OBVIOUS
    <2>2. /\ DOMAIN r = IF "bios_release" \in DOMAIN b
                        THEN (DOMAIN b \ {"bios_release"}) \cup {"platform_firmware_revision"}
                        ELSE DOMAIN b
          /\ \A k \in DOMAIN b \ {"bios_release"} : r[k] = b[k]
          /\ "bios_release" \in DOMAIN b /\ "platform_firmware_revision" \notin DOMAIN b =>
                r["platform_firmware_revision"] = b["bios_release"]
      BY <2>1, RenamedIs
    <2> HIDE DEF r
    <2> QED
      BY <1>3, <2>2 DEF r
  <1>7. "release_date" \in DOMAIN a <=> "release_date" \in DOMAIN p
    BY <1>2, <1>4
  <1>8. "bios_date" \notin DOMAIN a /\ "bios_vendor" \notin DOMAIN a
    BY <1>1, <1>2, <1>4
  <1>9. "bios_version" \in DOMAIN a <=> f.model # {}
    BY <1>1, <1>2, <1>4
  <1>10. \A version \in f.model : a["bios_version"] = version
    BY <1>1, <1>2, <1>4
  <1>11. "bios_version" \in DOMAIN n <=> "bios_version" \in DOMAIN a
    BY <1>5, <1>6
  <1>12. "bios_version" \in DOMAIN a => n["bios_version"] = a["bios_version"]
    BY <1>5, <1>6
  <1>13. "bios_date" \in DOMAIN n <=> "release_date" \in DOMAIN p
    BY <1>5, <1>6, <1>7, <1>8
  <1>14. "release_date" \in DOMAIN p => n["bios_date"] = p["release_date"]
    BY <1>4, <1>5, <1>6, <1>7, <1>8
  <1>15. "bios_vendor" \notin DOMAIN n
    BY <1>5, <1>6, <1>8
  <1> QED
    BY <1>9, <1>10, <1>11, <1>12, <1>13, <1>14, <1>15 DEF n, p

LEMMA ChassisProperties ==
  ASSUME NEW d, DeviceIs(d), d.class = "Motherboard"
  PROVE  DOMAIN NormalizedChassis(d.properties)
            \cap {"bios_version", "bios_date", "bios_vendor", "release_date"} = {}
  <1> DEFINE p == d.properties
             c == NormalizedChassis(p)
             W == Without(p, {"chassis_form_factor"})
             v == Option("chassis_type", {p["chassis_form_factor"]})
  <1>1. DOMAIN p \cap {"bios_version", "bios_date", "bios_vendor", "release_date"} = {}
    BY DEF DeviceIs
  <1>2. DOMAIN W = DOMAIN p \ {"chassis_form_factor"}
    BY DEF Without
  <1>3. DOMAIN v = {"chassis_type"}
    BY PairIs
  <1>4. DOMAIN Extended(v, W) = DOMAIN v \cup DOMAIN W
    <2> HIDE DEF v, W
    <2> QED
      BY OverlayIs
  <1>5. c = Extended(v, W) \/ DOMAIN c = DOMAIN p
    <2>1. CASE "chassis_form_factor" \in DOMAIN p
      BY <2>1 DEF NormalizedChassis
    <2>2. CASE "chassis_form_factor" \notin DOMAIN p
      BY <2>2 DEF NormalizedChassis
    <2> QED
      BY <2>1, <2>2
  <1> HIDE DEF p, c, v, W
  <1>6. DOMAIN c \subseteq DOMAIN p \cup {"chassis_type"}
    BY <1>2, <1>3, <1>4, <1>5
  <1> QED
    BY <1>1, <1>6 DEF c, p

(* A board with its firmware *)
LEMMA MergedProperties ==
  ASSUME NEW c, DOMAIN c \cap {"bios_version", "bios_date", "bios_vendor", "release_date"} = {},
         NEW f, DeviceIs(f)
  PROVE  LET m == MergedFirmware(c, f)
         IN /\ "bios_version" \in DOMAIN m <=> f.model # {}
            /\ \A version \in f.model : m["bios_version"] = version
            /\ "bios_date" \in DOMAIN m <=> "release_date" \in DOMAIN f.properties
            /\ "release_date" \in DOMAIN f.properties =>
                  m["bios_date"] = f.properties["release_date"]
            /\ \A vendor \in f.vendor : "bios_vendor" \in DOMAIN m /\ m["bios_vendor"] = vendor
  <1> DEFINE n == NormalizedFirmware(f)
             o == Option("bios_vendor", f.vendor)
             b == Extended(n, o)
             m == MergedFirmware(c, f)
             p == f.properties
  <1>1. /\ "bios_version" \in DOMAIN n <=> f.model # {}
        /\ \A version \in f.model : n["bios_version"] = version
        /\ "bios_date" \in DOMAIN n <=> "release_date" \in DOMAIN p
        /\ "release_date" \in DOMAIN p => n["bios_date"] = p["release_date"]
        /\ "bios_vendor" \notin DOMAIN n
    BY FirmwareProperties
  <1>2. \A x, y \in f.vendor : x = y
    BY DEF DeviceIs
  <1>3. /\ DOMAIN o = IF f.vendor = {} THEN {} ELSE {"bios_vendor"}
        /\ \A x \in f.vendor : o["bios_vendor"] = x
    BY <1>2, OptionIs
  <1>4. m = Extended(c, b)
    BY DEF MergedFirmware
  <1> HIDE DEF n, o, m, p
  <1>5. /\ DOMAIN b = DOMAIN n \cup DOMAIN o
        /\ \A k \in DOMAIN n : b[k] = n[k]
        /\ \A k \in DOMAIN o : k \notin DOMAIN n => b[k] = o[k]
    BY OverlayIs
  <1> HIDE DEF b
  <1>6. /\ DOMAIN m = DOMAIN c \cup DOMAIN b
        /\ \A k \in DOMAIN b : k \notin DOMAIN c => m[k] = b[k]
    <2>1. /\ DOMAIN Extended(c, b) = DOMAIN c \cup DOMAIN b
          /\ \A k \in DOMAIN c : Extended(c, b)[k] = c[k]
          /\ \A k \in DOMAIN b : k \notin DOMAIN c => Extended(c, b)[k] = b[k]
      BY OverlayIs
    <2> QED
      BY <1>4, <2>1
  <1>7. "bios_version" \in DOMAIN m <=> f.model # {}
    BY <1>1, <1>3, <1>5, <1>6
  <1>8. \A version \in f.model : m["bios_version"] = version
    BY <1>1, <1>3, <1>5, <1>6
  <1>9. "bios_date" \in DOMAIN m <=> "release_date" \in DOMAIN p
    BY <1>1, <1>3, <1>5, <1>6
  <1>10. "release_date" \in DOMAIN p => m["bios_date"] = p["release_date"]
    BY <1>1, <1>3, <1>5, <1>6
  <1>11. \A vendor \in f.vendor : "bios_vendor" \in DOMAIN m /\ m["bios_vendor"] = vendor
    <2> TAKE vendor \in f.vendor
    <2>1. DOMAIN o = {"bios_vendor"} /\ o["bios_vendor"] = vendor
      BY <1>3
    <2> QED
      BY <1>1, <1>5, <1>6, <2>1
  <1> QED
    BY <1>7, <1>8, <1>9, <1>10, <1>11 DEF m, p

(* What the page makes of a device *)
LEMMA ViewedIs ==
  ASSUME NEW devices, MachineIs(devices), NEW d \in devices, NEW v \in ViewDevice(devices, d)
  PROVE  /\ v.id = d.id /\ v.class = d.class /\ v.vendor = d.vendor /\ v.health = d.health
         /\ v.refreshable = d.refreshable
         /\ \A x, y \in v.model : x = y
         /\ d.class \notin {"Motherboard", "Bios"} => v = d
         /\ d.class = "Motherboard" =>
              LET chassis == NormalizedChassis(d.properties)
                  linked == LinkedFirmware(devices, d)
              IN v.properties = IF linked = {} THEN chassis
                                ELSE MergedFirmware(chassis, CHOOSE f \in linked : TRUE)
         /\ d.class = "Bios" =>
              v.properties = NormalizedFirmware(d) /\ ~ HasVisibleMotherboard(devices, d)
  <1>1. DeviceIs(d)
    BY DEF MachineIs
  <1>2. d \in DeviceWith(DOMAIN d.properties) /\ \A x, y \in d.model : x = y
    BY <1>1 DEF DeviceIs
  <1>3. CASE d.class = "Motherboard"
    <2> DEFINE q == LET chassis == NormalizedChassis(d.properties)
                        linked == LinkedFirmware(devices, d)
                    IN IF linked = {} THEN chassis
                       ELSE MergedFirmware(chassis, CHOOSE f \in linked : TRUE)
    <2>1. v = [d EXCEPT !.properties = q]
      BY <1>3 DEF ViewDevice
    <2> HIDE DEF q
    <2>2. /\ v.id = d.id /\ v.class = d.class /\ v.vendor = d.vendor /\ v.health = d.health
          /\ v.refreshable = d.refreshable /\ v.model = d.model /\ v.properties = q
      BY <1>2, <2>1 DEF DeviceWith
    <2> QED
      BY <1>2, <1>3, <2>2 DEF q
  <1>4. CASE d.class = "Bios"
    <2> DEFINE n == NormalizedFirmware(d)
    <2>1. v = [d EXCEPT !.properties = n, !.model = {}] /\ ~ HasVisibleMotherboard(devices, d)
      BY <1>4 DEF ViewDevice
    <2> HIDE DEF n
    <2>2. /\ v.id = d.id /\ v.class = d.class /\ v.vendor = d.vendor /\ v.health = d.health
          /\ v.refreshable = d.refreshable /\ v.model = {} /\ v.properties = n
      BY <1>2, <2>1 DEF DeviceWith
    <2> QED
      BY <1>4, <2>1, <2>2 DEF n
  <1>5. CASE d.class \notin {"Motherboard", "Bios"}
    <2>1. v = d
      BY <1>5 DEF ViewDevice
    <2> QED
      BY <1>2, <1>5, <2>1
  <1> QED
    BY <1>3, <1>4, <1>5

LEMMA InventoryIs ==
  ASSUME NEW devices, NEW shown
  PROVE  shown \in BuildInventory(devices) <=>
            \E d \in devices : /\ Visible(d)
                               /\ \E v \in ViewDevice(devices, d) : shown = ProjectDevice(v)
  BY DEF BuildInventory

(* The device that the firmware's properties are shown with, and what of   *)
(* the firmware is shown there                                             *)
Holds(v, f) ==
    /\ \A version \in f.model :
          "bios_version" \in DOMAIN v.properties /\ v.properties["bios_version"] = version
    /\ "release_date" \in DOMAIN f.properties =>
          /\ "bios_date" \in DOMAIN v.properties
          /\ v.properties["bios_date"] = f.properties["release_date"]
    /\ \A vendor \in f.vendor :
          \/ "bios_vendor" \in DOMAIN v.properties /\ v.properties["bios_vendor"] = vendor
          \/ vendor \in v.vendor

LEMMA FirmwareHolder ==
  ASSUME NEW devices, MachineIs(devices), NEW f \in devices, f.class = "Bios"
  PROVE  \E h \in devices :
            /\ Visible(h)
            /\ \E v \in ViewDevice(devices, h) :
                  Holds(v, f) /\ \A w \in ViewDevice(devices, h) : w = v
            /\ \A d \in devices : \A w \in ViewDevice(devices, d) :
                  DOMAIN w.properties \cap {"bios_version", "bios_date"} # {} => d = h
  <1>0. /\ \A d \in devices : DeviceIs(d)
        /\ \A d, e \in devices : d.id = e.id => d = e
        /\ \A d, e \in devices : d.class = "Bios" /\ e.class = "Bios" => d = e
    BY DEF MachineIs
  <1>1. \A d \in devices : d.class \in {"Motherboard", "Bios"} => Visible(d)
    BY DEF Visible
  <1>2. \A d \in devices : d.class = "Motherboard" =>
          /\ LinkedFirmware(devices, d) = IF f.parent = {d.id} THEN {f} ELSE {}
          /\ DOMAIN NormalizedChassis(d.properties)
                \cap {"bios_version", "bios_date", "bios_vendor", "release_date"} = {}
    <2> TAKE d \in devices
    <2>1. LinkedFirmware(devices, d) = IF f.parent = {d.id} THEN {f} ELSE {}
      BY <1>0 DEF LinkedFirmware
    <2> QED
      BY <1>0, <2>1, ChassisProperties
  <1>3. HasVisibleMotherboard(devices, f) <=>
          \E d \in devices : f.parent = {d.id} /\ d.class = "Motherboard"
    BY <1>1 DEF HasVisibleMotherboard
  <1>4. \A d \in devices : \A w \in ViewDevice(devices, d) :
          DOMAIN w.properties \cap {"bios_version", "bios_date"} # {} =>
              \/ d.class = "Motherboard" /\ f.parent = {d.id}
              \/ d = f /\ ~ HasVisibleMotherboard(devices, f)
    <2> TAKE d \in devices
    <2> TAKE w \in ViewDevice(devices, d)
    <2>1. CASE d.class = "Motherboard"
      <3>1. f.parent # {d.id} => w.properties = NormalizedChassis(d.properties)
        BY <1>2, <2>1, ViewedIs
      <3> QED
        BY <1>2, <2>1, <3>1
    <2>2. CASE d.class = "Bios"
      <3>1. d = f
        BY <1>0, <2>2
      <3>2. ~ HasVisibleMotherboard(devices, d)
        BY <2>2, ViewedIs
      <3> QED
        BY <3>1, <3>2
    <2>3. CASE d.class \notin {"Motherboard", "Bios"}
      <3>1. w = d
        BY <2>3, ViewedIs
      <3>2. DOMAIN d.properties \cap {"bios_version", "bios_date", "bios_vendor"} = {}
        BY <1>0 DEF DeviceIs
      <3> QED
        BY <3>1, <3>2
    <2> QED
      BY <2>1, <2>2, <2>3
  <1>5. CASE \E d \in devices : f.parent = {d.id} /\ d.class = "Motherboard"
    <2>1. PICK h \in devices : f.parent = {h.id} /\ h.class = "Motherboard"
      BY <1>5
    <2> DEFINE c == NormalizedChassis(h.properties)
               linked == LinkedFirmware(devices, h)
               m == MergedFirmware(c, f)
               v == [h EXCEPT !.properties = IF linked = {} THEN c
                                             ELSE MergedFirmware(c, CHOOSE g \in linked : TRUE)]
    <2>2. linked = {f}
      BY <1>2, <2>1
    <2>3. ViewDevice(devices, h) = {v}
      BY <2>1 DEF ViewDevice
    <2>4. v.properties = m
      <3>1. v \in ViewDevice(devices, h)
        BY <2>3
      <3>2. v.properties = IF linked = {} THEN c ELSE MergedFirmware(c, CHOOSE g \in linked : TRUE)
        <4> HIDE DEF v
        <4> QED
          BY <2>1, <3>1, ViewedIs
      <3>3. (CHOOSE g \in linked : TRUE) = f /\ linked # {}
        BY <2>2
      <3> HIDE DEF v, linked, c
      <3> QED
        BY <3>2, <3>3
    <2>5. DOMAIN c \cap {"bios_version", "bios_date", "bios_vendor", "release_date"} = {}
      BY <1>2, <2>1
    <2>6. DeviceIs(f)
      BY <1>0
    <2> HIDE DEF c, linked, v
    <2>7. /\ "bios_version" \in DOMAIN m <=> f.model # {}
          /\ \A version \in f.model : m["bios_version"] = version
          /\ "bios_date" \in DOMAIN m <=> "release_date" \in DOMAIN f.properties
          /\ "release_date" \in DOMAIN f.properties =>
                m["bios_date"] = f.properties["release_date"]
          /\ \A vendor \in f.vendor : "bios_vendor" \in DOMAIN m /\ m["bios_vendor"] = vendor
      BY <2>5, <2>6, MergedProperties
    <2> HIDE DEF m
    <2>8. Holds(v, f)
      BY <2>4, <2>7 DEF Holds
    <2>9. \A d \in devices : d.class = "Motherboard" /\ f.parent = {d.id} => d = h
      <3>1. \A d \in devices : {d.id} = {h.id} => d.id = h.id
        OBVIOUS
      <3> QED
        BY <1>0, <2>1, <3>1
    <2>10. HasVisibleMotherboard(devices, f) /\ Visible(h)
      BY <1>1, <1>3, <2>1
    <2>11. \A d \in devices : \A w \in ViewDevice(devices, d) :
                  DOMAIN w.properties \cap {"bios_version", "bios_date"} # {} => d = h
      BY <1>4, <2>9, <2>10
    <2>12. \E x \in ViewDevice(devices, h) :
                  Holds(x, f) /\ \A w \in ViewDevice(devices, h) : w = x
      BY <2>3, <2>8
    <2> QED
      BY <2>10, <2>11, <2>12
  <1>6. CASE ~ \E d \in devices : f.parent = {d.id} /\ d.class = "Motherboard"
    <2> DEFINE n == NormalizedFirmware(f)
               v == [f EXCEPT !.properties = n, !.model = {}]
    <2>1. ~ HasVisibleMotherboard(devices, f) /\ Visible(f) /\ DeviceIs(f)
      BY <1>0, <1>1, <1>3, <1>6
    <2>2. ViewDevice(devices, f) = {v}
      BY <2>1 DEF ViewDevice
    <2> HIDE DEF v
    <2>3. v.properties = n /\ v.vendor = f.vendor
      BY <2>2, ViewedIs
    <2>4. /\ "bios_version" \in DOMAIN n <=> f.model # {}
          /\ \A version \in f.model : n["bios_version"] = version
          /\ "bios_date" \in DOMAIN n <=> "release_date" \in DOMAIN f.properties
          /\ "release_date" \in DOMAIN f.properties =>
                n["bios_date"] = f.properties["release_date"]
          /\ "bios_vendor" \notin DOMAIN n
      BY <2>1, FirmwareProperties
    <2> HIDE DEF n
    <2>5. Holds(v, f)
      BY <2>3, <2>4 DEF Holds
    <2>6. \A d \in devices : \A w \in ViewDevice(devices, d) :
                  DOMAIN w.properties \cap {"bios_version", "bios_date"} # {} => d = f
      BY <1>4, <1>6
    <2>7. \E x \in ViewDevice(devices, f) :
                  Holds(x, f) /\ \A w \in ViewDevice(devices, f) : w = x
      BY <2>2, <2>5
    <2> QED
      BY <2>1, <2>6, <2>7
  <1> QED
    BY <1>5, <1>6

SectionOf(key) == IF key \in AdvancedKeys THEN "Advanced" ELSE PropertySection(key)

(* What a device on the page is like *)
Viewed(v) == \A option \in {v.vendor, v.model, v.health} : \A x, y \in option : x = y

LEMMA IdentityIs ==
  ASSUME NEW v, Viewed(v)
  PROVE  LET i == Extended(Option("vendor", v.vendor), Option("model", v.model))
         IN /\ DOMAIN i \subseteq {"vendor", "model"}
            /\ \A x \in v.vendor : "vendor" \in DOMAIN i /\ i["vendor"] = x
  <1> DEFINE a == Option("vendor", v.vendor)
             b == Option("model", v.model)
             i == Extended(a, b)
  <1>1. \A x, y \in v.vendor : x = y
    BY DEF Viewed
  <1>2. \A x, y \in v.model : x = y
    BY DEF Viewed
  <1>3. /\ DOMAIN a = IF v.vendor = {} THEN {} ELSE {"vendor"}
        /\ \A x \in v.vendor : a["vendor"] = x
    BY <1>1, OptionIs
  <1>4. DOMAIN b = IF v.model = {} THEN {} ELSE {"model"}
    BY <1>2, OptionIs
  <1> HIDE DEF a, b
  <1>5. /\ DOMAIN i = DOMAIN a \cup DOMAIN b
        /\ \A k \in DOMAIN a : i[k] = a[k]
        /\ \A k \in DOMAIN b : k \notin DOMAIN a => i[k] = b[k]
    BY OverlayIs
  <1> HIDE DEF i
  <1>6. DOMAIN i \subseteq {"vendor", "model"}
    BY <1>3, <1>4, <1>5
  <1>7. \A x \in v.vendor : "vendor" \in DOMAIN i /\ i["vendor"] = x
    <2> TAKE x \in v.vendor
    <2>1. DOMAIN a = {"vendor"}
      BY <1>3
    <2> QED
      BY <1>3, <1>5, <2>1
  <1> QED
    BY <1>6, <1>7 DEF i, a, b

SummaryKeys == {"health_status", "health_availability", "health_last_checked",
                "health_last_attempt", "health_message"}

LEMMA SummaryIs ==
  ASSUME NEW health, health \subseteq Health, \A x, y \in health : x = y
  PROVE  LET s == HealthSummary(health)
         IN /\ DOMAIN s \subseteq SummaryKeys
            /\ "health_availability" \in DOMAIN s /\ s["health_availability"] = "Use Refresh as administrator"
               => \E h \in health : h.availability = "PermissionDenied"
  <1>1. CASE health = {}
    <2>1. HealthSummary(health) = Option("health_status", {"Not checked"})
      BY <1>1 DEF HealthSummary
    <2>2. DOMAIN Option("health_status", {"Not checked"}) = {"health_status"}
      BY PairIs
    <2> DEFINE s == HealthSummary(health)
    <2>3. DOMAIN s = {"health_status"}
      BY <2>1, <2>2
    <2> HIDE DEF s
    <2>4. DOMAIN s \subseteq SummaryKeys /\ "health_availability" \notin DOMAIN s
      BY <2>3 DEF SummaryKeys
    <2> QED
      BY <2>4 DEF s
  <1>2. CASE health # {}
    <2> DEFINE h == CHOOSE x \in health : TRUE
               aged == IF h.checked THEN {"health_last_checked"}
                       ELSE IF h.attempted THEN {"health_last_attempt"} ELSE {}
               noted == IF h.note THEN {"health_message"} ELSE {}
               keys == {"health_status", "health_availability"} \cup aged \cup noted
               s == HealthSummary(health)
    <2>1. h \in health /\ h \in Health
      BY <1>2
    <2>2. h.availability \in {"Current", "DriveAsleep", "PermissionDenied", "HelperMissing",
                              "Unsupported", "Error"}
      BY <2>1 DEF Health
    <2>3. s = [k \in keys |->
                CASE k = "health_status" -> h.status
                  [] k = "health_availability" ->
                        IF h.availability = "PermissionDenied"
                        THEN "Use Refresh as administrator" ELSE h.availability
                  [] k \in aged -> "age"
                  [] OTHER -> "note"]
      BY <1>2 DEF HealthSummary
    <2>4. keys \subseteq SummaryKeys
      BY DEF SummaryKeys
    <2>5. s["health_availability"] = IF h.availability = "PermissionDenied"
                                     THEN "Use Refresh as administrator" ELSE h.availability
      <3>1. "health_availability" \in keys /\ "health_availability" \notin aged
        OBVIOUS
      <3> HIDE DEF keys, h, aged, s
      <3> QED
        BY <2>3, <3>1
    <2>6. DOMAIN s = keys
      <3> HIDE DEF keys, h, aged, s
      <3> QED
        BY <2>3
    <2> HIDE DEF s, h, keys
    <2> QED
      BY <2>1, <2>2, <2>4, <2>5, <2>6 DEF s
  <1> QED
    BY <1>1, <1>2

(* The lines of the details, by where they come from *)
LEMMA LinesAre ==
  ASSUME NEW v, Viewed(v), v.health \subseteq Health
  PROVE  LET i == Extended(Option("vendor", v.vendor), Option("model", v.model))
             s == HealthSummary(v.health)
             p == v.properties
         IN /\ \A l \in AllLines(v) :
                  /\ l = [section |-> l.section, key |-> l.key, value |-> l.value]
                  /\ \/ /\ l.section = "Identity" /\ l.key \in {"vendor", "model"}
                        /\ l.value = i[l.key]
                     \/ /\ l.section = "SMART / Health" /\ l.key \in SummaryKeys
                        /\ l.key \in DOMAIN s /\ l.value = s[l.key]
                     \/ /\ l.key \in DOMAIN p /\ ~ DuplicateLocation(v, l.key)
                        /\ l.section = SectionOf(l.key) /\ l.value = p[l.key]
            /\ \A k \in DOMAIN p : ~ DuplicateLocation(v, k) =>
                  [section |-> SectionOf(k), key |-> k, value |-> p[k]] \in AllLines(v)
            /\ \A x \in v.vendor :
                  [section |-> "Identity", key |-> "vendor", value |-> x] \in AllLines(v)
  <1> DEFINE i == Extended(Option("vendor", v.vendor), Option("model", v.model))
             s == HealthSummary(v.health)
             p == v.properties
             kept == { k \in DOMAIN p : ~ DuplicateLocation(v, k) }
             values == [k \in kept |-> p[k]]
             A == Lines("Identity", i)
             B == IF HasHealthSection(v) THEN Lines("SMART / Health", s) ELSE {}
             C == { [section |-> SectionOf(k), key |-> k, value |-> values[k]] : k \in kept }
  <1>1. AllLines(v) = A \cup B \cup C
    BY DEF AllLines, SectionOf
  <1>2. /\ DOMAIN i \subseteq {"vendor", "model"}
        /\ \A x \in v.vendor : "vendor" \in DOMAIN i /\ i["vendor"] = x
    BY IdentityIs
  <1>3. DOMAIN s \subseteq SummaryKeys
    <2>1. \A x, y \in v.health : x = y
      BY DEF Viewed
    <2> QED
      BY <2>1, SummaryIs
  <1> HIDE DEF i, s
  <1>4. ASSUME NEW l \in A
        PROVE  /\ l = [section |-> l.section, key |-> l.key, value |-> l.value]
               /\ l.section = "Identity" /\ l.key \in {"vendor", "model"} /\ l.value = i[l.key]
    <2>1. PICK k \in DOMAIN i : l = [section |-> "Identity", key |-> k, value |-> i[k]]
      BY <1>4 DEF Lines
    <2> QED
      BY <1>2, <2>1
  <1>5. ASSUME NEW l \in B
        PROVE  /\ l = [section |-> l.section, key |-> l.key, value |-> l.value]
               /\ l.section = "SMART / Health" /\ l.key \in SummaryKeys
               /\ l.key \in DOMAIN s /\ l.value = s[l.key]
    <2>1. PICK k \in DOMAIN s : l = [section |-> "SMART / Health", key |-> k, value |-> s[k]]
      BY <1>5 DEF Lines
    <2> QED
      BY <1>3, <2>1
  <1> HIDE DEF p
  <1>6. \A k \in kept : values[k] = p[k]
    OBVIOUS
  <1> HIDE DEF values
  <1>7. ASSUME NEW l \in C
        PROVE  /\ l = [section |-> l.section, key |-> l.key, value |-> l.value]
               /\ l.key \in DOMAIN p /\ ~ DuplicateLocation(v, l.key)
               /\ l.section = SectionOf(l.key) /\ l.value = p[l.key]
    <2>1. PICK k \in kept : l = [section |-> SectionOf(k), key |-> k, value |-> values[k]]
      BY <1>7
    <2> QED
      BY <1>6, <2>1
  <1>8. \A k \in DOMAIN p : ~ DuplicateLocation(v, k) =>
          [section |-> SectionOf(k), key |-> k, value |-> p[k]] \in C
    <2> TAKE k \in DOMAIN p
    <2> HAVE ~ DuplicateLocation(v, k)
    <2>1. k \in kept
      OBVIOUS
    <2> QED
      BY <1>6, <2>1
  <1>9. \A x \in v.vendor : [section |-> "Identity", key |-> "vendor", value |-> x] \in A
    BY <1>2 DEF Lines
  <1> HIDE DEF A, B, C
  <1>10. \A l \in AllLines(v) :
                  /\ l = [section |-> l.section, key |-> l.key, value |-> l.value]
                  /\ \/ /\ l.section = "Identity" /\ l.key \in {"vendor", "model"}
                        /\ l.value = i[l.key]
                     \/ /\ l.section = "SMART / Health" /\ l.key \in SummaryKeys
                        /\ l.key \in DOMAIN s /\ l.value = s[l.key]
                     \/ /\ l.key \in DOMAIN p /\ ~ DuplicateLocation(v, l.key)
                        /\ l.section = SectionOf(l.key) /\ l.value = p[l.key]
    <2> TAKE l \in AllLines(v)
    <2>1. CASE l \in A
      BY <1>4, <2>1
    <2>2. CASE l \in B
      BY <1>5, <2>2
    <2>3. CASE l \in C
      BY <1>7, <2>3
    <2> QED
      BY <1>1, <2>1, <2>2, <2>3
  <1>11. \A k \in DOMAIN p : ~ DuplicateLocation(v, k) =>
          [section |-> SectionOf(k), key |-> k, value |-> p[k]] \in AllLines(v)
    BY <1>1, <1>8
  <1>12. \A x \in v.vendor : [section |-> "Identity", key |-> "vendor", value |-> x] \in AllLines(v)
    BY <1>1, <1>9
  <1> QED
    BY <1>10, <1>11, <1>12 DEF i, s, p

LEMMA KeysOfSections ==
  /\ \A k : SectionOf(k) \in {"Identity", "Firmware & platform", "Memory", "SMART / Health",
                              "Properties", "Advanced"}
  /\ \A k : SectionOf(k) = "Identity" => k = "chassis_type"
  /\ \A k : SectionOf(k) = "SMART / Health" => k \in HealthKeys
  /\ \A k : SectionOf(k) = "Memory" <=> k \in {"slot_label", "locator", "bank_locator"}
  /\ \A k \in {"bios_version", "bios_date", "bios_vendor"} : SectionOf(k) = "Firmware & platform"
  BY DEF SectionOf, PropertySection, AdvancedKeys, HealthKeys

(* Only places of memory repeat one another. *)
LEMMA DuplicateIs ==
  ASSUME NEW v, NEW k
  PROVE  DuplicateLocation(v, k) <=>
            /\ v.class = "Memory"
            /\ \/ /\ k = "locator" /\ "slot_label" \in DOMAIN v.properties
                  /\ v.properties["slot_label"] = v.properties[k]
               \/ /\ k = "bank_locator" /\ "slot_label" \in DOMAIN v.properties
                  /\ v.properties["slot_label"] = v.properties[k]
               \/ /\ k = "bank_locator" /\ "locator" \in DOMAIN v.properties
                  /\ v.properties["locator"] = v.properties[k]
  BY DEF DuplicateLocation

InventoryInv == machine \in Machines \cup {{}}

LEMMA InventoryStarts == InventoryInit => InventoryInv
  BY DEF InventoryInit, InventoryInv

LEMMA InventoryInductive ==
  ASSUME InventoryInv, [DevicesChange]_machine
  PROVE  InventoryInv'
  BY DEF InventoryInv, DevicesChange

LEMMA ViewedAre ==
  ASSUME NEW devices, MachineIs(devices), NEW d \in devices, NEW v \in ViewDevice(devices, d)
  PROVE  Viewed(v) /\ v.health \subseteq Health /\ (v.health # {} => v.refreshable)
  <1>1. DeviceIs(d)
    BY DEF MachineIs
  <1>2. /\ d.health \subseteq Health /\ \A x, y \in d.health : x = y
        /\ \A x, y \in d.vendor : x = y
        /\ d.health # {} => d.refreshable
    BY <1>1 DEF DeviceIs, DeviceWith
  <1>3. v.vendor = d.vendor /\ v.health = d.health /\ v.refreshable = d.refreshable
        /\ \A x, y \in v.model : x = y
    BY ViewedIs
  <1> QED
    BY <1>2, <1>3 DEF Viewed

LEMMA ProjectedIs ==
  ASSUME NEW v
  PROVE  LET shown == ProjectDevice(v)
         IN /\ shown.id = v.id /\ shown.lines = AllLines(v) /\ shown.refreshable = v.refreshable
            /\ shown.permission = \E h \in v.health : h.availability = "PermissionDenied"
  BY DEF ProjectDevice

(* Where the version and the date of firmware are to be seen *)
ShownWith(d, key, value) ==
    /\ Visible(d)
    /\ \E v \in ViewDevice(machine, d) :
          key \in DOMAIN v.properties /\ v.properties[key] = value

Located(key, value) ==
    \A p : p \in Places(key, value) <=>
              \E d \in machine : ShownWith(d, key, value) /\ p = <<d.id, "Firmware & platform">>

LEMMA PlacesAre ==
  ASSUME MachineIs(machine), NEW key \in {"bios_version", "bios_date"}, NEW value
  PROVE  Located(key, value)
  <1> SUFFICES ASSUME NEW p
               PROVE  p \in Places(key, value) <=>
                         \E d \in machine : /\ ShownWith(d, key, value)
                                            /\ p = <<d.id, "Firmware & platform">>
    BY DEF Located
  <1>1. SectionOf(key) = "Firmware & platform"
    BY KeysOfSections
  <1>2. key \notin {"vendor", "model"} /\ key \notin SummaryKeys
    BY DEF SummaryKeys
  <1>3. p \in Places(key, value) <=>
          \E shown \in BuildInventory(machine) : \E l \in shown.lines :
              l.key = key /\ l.value = value /\ p = <<shown.id, l.section>>
    BY DEF Places
  <1>4. \A d \in machine : \A v \in ViewDevice(machine, d) :
          /\ \A l \in AllLines(v) : l.key = key /\ l.value = value =>
                /\ l.section = "Firmware & platform"
                /\ key \in DOMAIN v.properties /\ v.properties[key] = value
          /\ key \in DOMAIN v.properties /\ v.properties[key] = value =>
                \E l \in AllLines(v) : l.key = key /\ l.value = value
    <2> TAKE d \in machine
    <2> TAKE v \in ViewDevice(machine, d)
    <2> DEFINE q == v.properties
    <2>1. Viewed(v) /\ v.health \subseteq Health
      BY ViewedAre
    <2>2. \A l \in AllLines(v) :
            \/ l.key \in {"vendor", "model"}
            \/ l.key \in SummaryKeys
            \/ l.key \in DOMAIN q /\ l.section = SectionOf(l.key) /\ l.value = q[l.key]
      BY <2>1, LinesAre
    <2>3. \A k \in DOMAIN q : ~ DuplicateLocation(v, k) =>
            [section |-> SectionOf(k), key |-> k, value |-> q[k]] \in AllLines(v)
      BY <2>1, LinesAre
    <2>4. ~ DuplicateLocation(v, key)
      BY DuplicateIs
    <2> HIDE DEF q
    <2>5. \A l \in AllLines(v) : l.key = key /\ l.value = value =>
                l.section = "Firmware & platform" /\ key \in DOMAIN q /\ q[key] = value
      BY <1>1, <1>2, <2>2
    <2>6. key \in DOMAIN q /\ q[key] = value => \E l \in AllLines(v) : l.key = key /\ l.value = value
      BY <2>3, <2>4
    <2> QED
      BY <2>5, <2>6 DEF q
  <1>5. ASSUME NEW shown \in BuildInventory(machine), NEW l \in shown.lines,
               l.key = key, l.value = value, p = <<shown.id, l.section>>
        PROVE  \E d \in machine :
                  ShownWith(d, key, value) /\ p = <<d.id, "Firmware & platform">>
    <2>1. PICK d \in machine : Visible(d) /\ \E v \in ViewDevice(machine, d) : shown = ProjectDevice(v)
      BY InventoryIs
    <2>2. PICK v \in ViewDevice(machine, d) : shown = ProjectDevice(v)
      BY <2>1
    <2>5. shown.id = v.id /\ shown.lines = AllLines(v)
      BY <2>2, ProjectedIs
    <2>3. shown.id = v.id /\ shown.lines = AllLines(v) /\ v.id = d.id
      BY <2>5, ViewedIs
    <2>4. /\ l.section = "Firmware & platform"
          /\ key \in DOMAIN v.properties /\ v.properties[key] = value
      BY <1>4, <1>5, <2>3
    <2>6. ShownWith(d, key, value)
      BY <2>1, <2>4 DEF ShownWith
    <2> QED
      BY <1>5, <2>3, <2>4, <2>6
  <1>6. ASSUME NEW d \in machine, Visible(d), p = <<d.id, "Firmware & platform">>,
               NEW v \in ViewDevice(machine, d), key \in DOMAIN v.properties,
               v.properties[key] = value
        PROVE  \E shown \in BuildInventory(machine) : \E l \in shown.lines :
                  l.key = key /\ l.value = value /\ p = <<shown.id, l.section>>
    <2> DEFINE shown == ProjectDevice(v)
    <2>1. shown \in BuildInventory(machine)
      BY <1>6, InventoryIs
    <2>5. shown.id = v.id /\ shown.lines = AllLines(v)
      BY ProjectedIs
    <2>2. shown.id = v.id /\ shown.lines = AllLines(v) /\ v.id = d.id
      BY <2>5, ViewedIs
    <2> HIDE DEF shown
    <2>3. PICK l \in AllLines(v) : l.key = key /\ l.value = value
      BY <1>4, <1>6
    <2>4. l.section = "Firmware & platform"
      BY <1>4, <2>3
    <2> QED
      BY <1>6, <2>1, <2>2, <2>3, <2>4
  <1> QED
    BY <1>3, <1>5, <1>6 DEF ShownWith

LEMMA FirmwareIsShown ==
  ASSUME MachineIs(machine)
  PROVE  FirmwareShownOnce
  <1> SUFFICES ASSUME NEW f \in machine, f.class = "Bios"
               PROVE  /\ \A version \in f.model :
                            \E p \in Places("bios_version", version) : Places("bios_version", version) = {p}
                      /\ \A k \in {"release_date", "bios_date"} \cap DOMAIN f.properties :
                            \E p \in Places("bios_date", f.properties[k]) :
                                Places("bios_date", f.properties[k]) = {p}
                      /\ \A vendor \in f.vendor :
                            Places("bios_vendor", vendor) \cup Places("vendor", vendor) # {}
    BY DEF FirmwareShownOnce
  <1>1. PICK h \in machine :
            /\ Visible(h)
            /\ \E v \in ViewDevice(machine, h) :
                  Holds(v, f) /\ \A w \in ViewDevice(machine, h) : w = v
            /\ \A d \in machine : \A w \in ViewDevice(machine, d) :
                  DOMAIN w.properties \cap {"bios_version", "bios_date"} # {} => d = h
    BY FirmwareHolder
  <1>2. PICK v \in ViewDevice(machine, h) :
            Holds(v, f) /\ \A w \in ViewDevice(machine, h) : w = v
    BY <1>1
  <1>3. DOMAIN f.properties \cap {"bios_version", "bios_date", "bios_vendor"} = {}
    BY DEF MachineIs, DeviceIs
  <1>4. ASSUME NEW key \in {"bios_version", "bios_date"}, NEW value,
               key \in DOMAIN v.properties, v.properties[key] = value
        PROVE  \E p \in Places(key, value) : Places(key, value) = {p}
    <2> DEFINE q == <<h.id, "Firmware & platform">>
    <2>1. \A p : p \in Places(key, value) <=>
            \E d \in machine : ShownWith(d, key, value) /\ p = <<d.id, "Firmware & platform">>
      <3>1. Located(key, value)
        BY <1>4, PlacesAre
      <3> QED
        BY <3>1 DEF Located
    <2>2. ShownWith(h, key, value)
      BY <1>1, <1>4 DEF ShownWith
    <2>3. \A d \in machine : ShownWith(d, key, value) => d = h
      BY <1>1, <1>4 DEF ShownWith
    <2>4. q \in Places(key, value) /\ \A p \in Places(key, value) : p = q
      BY <2>1, <2>2, <2>3
    <2> QED
      BY <2>4
  <1>5. \A version \in f.model :
          \E p \in Places("bios_version", version) : Places("bios_version", version) = {p}
    <2> TAKE version \in f.model
    <2>1. "bios_version" \in DOMAIN v.properties /\ v.properties["bios_version"] = version
      BY <1>2 DEF Holds
    <2> QED
      BY <1>4, <2>1
  <1>6. \A k \in {"release_date", "bios_date"} \cap DOMAIN f.properties :
          \E p \in Places("bios_date", f.properties[k]) : Places("bios_date", f.properties[k]) = {p}
    <2> TAKE k \in {"release_date", "bios_date"} \cap DOMAIN f.properties
    <2>1. k = "release_date"
      BY <1>3
    <2>2. "bios_date" \in DOMAIN v.properties /\ v.properties["bios_date"] = f.properties[k]
      BY <1>2, <2>1 DEF Holds
    <2> QED
      BY <1>4, <2>2
  <1>7. \A vendor \in f.vendor : Places("bios_vendor", vendor) \cup Places("vendor", vendor) # {}
    <2> TAKE vendor \in f.vendor
    <2> DEFINE shown == ProjectDevice(v)
               q == v.properties
    <2>1. shown \in BuildInventory(machine)
      BY <1>1, <1>2, InventoryIs
    <2>2. shown.lines = AllLines(v)
      BY ProjectedIs
    <2> HIDE DEF shown
    <2>3. Viewed(v) /\ v.health \subseteq Health
      BY ViewedAre
    <2>4. \/ "bios_vendor" \in DOMAIN q /\ q["bios_vendor"] = vendor
          \/ vendor \in v.vendor
      BY <1>2 DEF Holds
    <2>5. ASSUME NEW key, NEW value, NEW l \in shown.lines, l.key = key, l.value = value
          PROVE  Places(key, value) # {}
      <3>1. <<shown.id, l.section>> \in Places(key, value)
        BY <2>1, <2>5 DEF Places
      <3> QED
        BY <3>1
    <2>6. CASE "bios_vendor" \in DOMAIN q /\ q["bios_vendor"] = vendor
      <3>1. ~ DuplicateLocation(v, "bios_vendor")
        BY DuplicateIs
      <3>2. [section |-> SectionOf("bios_vendor"), key |-> "bios_vendor", value |-> q["bios_vendor"]]
               \in AllLines(v)
        BY <2>3, <2>6, <3>1, LinesAre
      <3> HIDE DEF q
      <3>3. \E l \in shown.lines : l.key = "bios_vendor" /\ l.value = vendor
        BY <2>2, <2>6, <3>2
      <3> QED
        BY <2>5, <3>3
    <2>7. CASE vendor \in v.vendor
      <3>1. [section |-> "Identity", key |-> "vendor", value |-> vendor] \in AllLines(v)
        BY <2>3, <2>7, LinesAre
      <3>2. \E l \in shown.lines : l.key = "vendor" /\ l.value = vendor
        BY <2>2, <3>1
      <3> QED
        BY <2>5, <3>2
    <2> QED
      BY <2>4, <2>6, <2>7
  <1> QED
    BY <1>5, <1>6, <1>7

LEMMA LocationsAreShown ==
  ASSUME MachineIs(machine)
  PROVE  LocationsShownOnce
  <1> SUFFICES ASSUME NEW shown \in BuildInventory(machine), NEW d \in machine,
                      shown.id = d.id, d.class = "Memory",
                      NEW k \in {"slot_label", "locator", "bank_locator"} \cap DOMAIN d.properties
               PROVE  \E line \in shown.lines : { l \in shown.lines :
                          l.section = "Memory" /\ l.value = d.properties[k] } = {line}
    BY DEF LocationsShownOnce
  <1> DEFINE p == d.properties
             value == p[k]
             K == {"slot_label", "locator", "bank_locator"}
             said == { i \in K \cap DOMAIN p : p[i] = value }
  <1>1. PICK e \in machine : Visible(e) /\ \E v \in ViewDevice(machine, e) : shown = ProjectDevice(v)
    BY InventoryIs
  <1>2. PICK v \in ViewDevice(machine, e) : shown = ProjectDevice(v)
    BY <1>1
  <1>3. shown.id = v.id /\ v.id = e.id /\ shown.lines = AllLines(v)
    <2>1. shown.id = v.id /\ shown.lines = AllLines(v)
      BY <1>2, ProjectedIs
    <2> QED
      BY <2>1, ViewedIs
  <1>4. e = d
    BY <1>3 DEF MachineIs
  <1>5. v = d
    BY <1>4, ViewedIs
  <1>6. Viewed(d) /\ d.health \subseteq Health
    BY <1>4, <1>5, ViewedAre
  <1>7. \A l \in shown.lines :
          /\ l = [section |-> l.section, key |-> l.key, value |-> l.value]
          /\ \/ l.section = "Identity" \/ l.section = "SMART / Health"
             \/ /\ l.key \in DOMAIN p /\ ~ DuplicateLocation(d, l.key)
                /\ l.section = SectionOf(l.key) /\ l.value = p[l.key]
    <2> TAKE l \in shown.lines
    <2>1. l \in AllLines(d)
      BY <1>3, <1>5
    <2>2. l = [section |-> l.section, key |-> l.key, value |-> l.value]
      BY <1>6, <2>1, LinesAre
    <2>3. \/ l.section = "Identity" \/ l.section = "SMART / Health"
          \/ /\ l.key \in DOMAIN p /\ ~ DuplicateLocation(d, l.key)
             /\ l.section = SectionOf(l.key) /\ l.value = p[l.key]
      BY <1>6, <2>1, LinesAre
    <2> QED
      BY <2>2, <2>3
  <1>8. \A i \in DOMAIN p : ~ DuplicateLocation(d, i) =>
          [section |-> SectionOf(i), key |-> i, value |-> p[i]] \in shown.lines
    BY <1>3, <1>5, <1>6, LinesAre
  <1>9. \A i : SectionOf(i) = "Memory" <=> i \in K
    BY KeysOfSections
  <1>10. \A i : DuplicateLocation(d, i) <=>
            \/ i = "locator" /\ "slot_label" \in DOMAIN p /\ p["slot_label"] = p[i]
            \/ i = "bank_locator" /\ "slot_label" \in DOMAIN p /\ p["slot_label"] = p[i]
            \/ i = "bank_locator" /\ "locator" \in DOMAIN p /\ p["locator"] = p[i]
    BY DuplicateIs
  <1>11. \E i \in said : ~ DuplicateLocation(d, i) /\ \A j \in said : ~ DuplicateLocation(d, j) => j = i
    <2>1. k \in said
      OBVIOUS
    <2>2. \A i \in said : i \in K /\ i \in DOMAIN p /\ p[i] = value
      OBVIOUS
    <2>3. \A i \in K : i \in DOMAIN p /\ p[i] = value => i \in said
      OBVIOUS
    <2> HIDE DEF p, value, said
    <2>4. CASE "slot_label" \in said
      <3>1. \A i \in said : DuplicateLocation(d, i) <=> i # "slot_label"
        BY <1>10, <2>2, <2>4
      <3> QED
        BY <2>4, <3>1
    <2>5. CASE "slot_label" \notin said /\ "locator" \in said
      <3>1. \A i \in said : DuplicateLocation(d, i) <=> i # "locator"
        BY <1>10, <2>2, <2>3, <2>5
      <3> QED
        BY <2>5, <3>1
    <2>6. CASE "slot_label" \notin said /\ "locator" \notin said
      <3>1. said = {"bank_locator"}
        BY <2>1, <2>2, <2>6
      <3>2. ~ DuplicateLocation(d, "bank_locator")
        BY <1>10, <2>2, <2>3, <2>6, <3>1
      <3> QED
        BY <3>1, <3>2
    <2> QED
      BY <2>4, <2>5, <2>6
  <1>12. PICK i \in said : ~ DuplicateLocation(d, i)
                           /\ \A j \in said : ~ DuplicateLocation(d, j) => j = i
    BY <1>11
  <1> DEFINE line == [section |-> SectionOf(i), key |-> i, value |-> p[i]]
  <1>13. line \in shown.lines /\ line.section = "Memory" /\ line.value = value
    BY <1>8, <1>9, <1>12
  <1>14. ASSUME NEW l \in shown.lines, l.section = "Memory", l.value = value
         PROVE  l = line
    <2>1. /\ l.key \in DOMAIN p /\ ~ DuplicateLocation(d, l.key)
          /\ l.section = SectionOf(l.key) /\ l.value = p[l.key]
      BY <1>7, <1>14
    <2>2. l.key \in said
      BY <1>9, <1>14, <2>1
    <2>3. l.key = i
      BY <1>12, <2>1, <2>2
    <2>4. l = [section |-> l.section, key |-> l.key, value |-> l.value]
      BY <1>7
    <2> QED
      BY <2>1, <2>3, <2>4
  <1> HIDE DEF line
  <1>15. { l \in shown.lines : l.section = "Memory" /\ l.value = value } = {line}
    BY <1>13, <1>14
  <1> QED
    BY <1>13, <1>15

LEMMA SetToSeqIs ==
  ASSUME NEW S, IsFiniteSet(S)
  PROVE  SetToSeq(S) \in Seq(S) /\ IsInjective(SetToSeq(S)) /\ ToSet(SetToSeq(S)) = S
  <1> DEFINE n == Cardinality(S)
             P(g) == g \in [1 .. n -> S] /\ IsInjective(g)
             f == SetToSeq(S)
  <1>1. n \in Nat /\ ExistsBijection(1 .. n, S)
    BY FS_CardinalityType
  <1>2. IsFiniteSet(1 .. n) /\ Cardinality(1 .. n) = n
    BY <1>1, FS_Interval
  <1>3. PICK g : g \in Bijection(1 .. n, S)
    BY <1>1 DEF ExistsBijection
  <1>4. g \in [1 .. n -> S] /\ IsInjective(g)
    BY <1>3 DEF Bijection, Injection
  <1>5. f \in [1 .. n -> S] /\ IsInjective(f)
    <2>1. f = CHOOSE h \in [1 .. n -> S] : IsInjective(h)
      BY DEF SetToSeq
    <2> HIDE DEF f, n
    <2> QED
      BY <1>4, <2>1
  <1> HIDE DEF f
  <1>6. f \in Injection(1 .. n, S)
    BY <1>5 DEF Injection
  <1>7. f \in Surjection(1 .. n, S)
    BY <1>2, <1>6, FS_Injection
  <1>8. f \in Seq(S) /\ DOMAIN f = 1 .. n
    BY <1>1, <1>5
  <1>9. \A x \in S : \E i \in 1 .. n : f[i] = x
    BY <1>7 DEF Surjection
  <1>10. ToSet(f) = S
    BY <1>5, <1>8, <1>9 DEF ToSet
  <1> QED
    BY <1>5, <1>8, <1>10 DEF f

SectionNames == {"Identity", "Firmware & platform", "Memory", "SMART / Health", "Properties", "Advanced"}

LEMMA SectionNamesFinite == \A S \in SUBSET SectionNames : IsFiniteSet(S)
  <1> DEFINE f == [i \in 1 .. 6 |->
                    CASE i = 1 -> "Identity" [] i = 2 -> "Firmware & platform" [] i = 3 -> "Memory"
                      [] i = 4 -> "SMART / Health" [] i = 5 -> "Properties" [] OTHER -> "Advanced"]
  <1>1. /\ f[1] = "Identity" /\ f[2] = "Firmware & platform" /\ f[3] = "Memory"
        /\ f[4] = "SMART / Health" /\ f[5] = "Properties" /\ f[6] = "Advanced"
    OBVIOUS
  <1>2. f \in [1 .. 6 -> SectionNames]
    BY DEF SectionNames
  <1> HIDE DEF f
  <1>3. \A x \in SectionNames : \E i \in 1 .. 6 : f[i] = x
    <2>1. 1 \in 1 .. 6 /\ 2 \in 1 .. 6 /\ 3 \in 1 .. 6 /\ 4 \in 1 .. 6 /\ 5 \in 1 .. 6 /\ 6 \in 1 .. 6
      OBVIOUS
    <2> TAKE x \in SectionNames
    <2>2. \/ x = f[1] \/ x = f[2] \/ x = f[3] \/ x = f[4] \/ x = f[5] \/ x = f[6]
      BY <1>1 DEF SectionNames
    <2> QED
      BY <2>1, <2>2
  <1>4. f \in Surjection(1 .. 6, SectionNames)
    BY <1>2, <1>3 DEF Surjection
  <1>5. IsFiniteSet(1 .. 6)
    <2>1. 1 \in Int /\ 6 \in Int
      OBVIOUS
    <2> QED
      BY <2>1, FS_Interval
  <1>6. IsFiniteSet(SectionNames)
    BY <1>4, <1>5, FS_Surjection
  <1> QED
    BY <1>6, FS_Subset

LEMMA SectionOrderIs ==
  ASSUME NEW category
  PROVE  SectionOrder(category) \in Seq(SectionNames) /\ IsInjective(SectionOrder(category))
  <1>1. \A a, b, c \in SectionNames : a # b /\ b # c /\ a # c =>
          <<a, b, c>> \in Seq(SectionNames) /\ IsInjective(<<a, b, c>>)
    BY DEF IsInjective
  <1>2. \A a, b \in SectionNames : a # b => <<a, b>> \in Seq(SectionNames) /\ IsInjective(<<a, b>>)
    BY DEF IsInjective
  <1>3. /\ "Identity" \in SectionNames /\ "Firmware & platform" \in SectionNames
        /\ "Properties" \in SectionNames /\ "Memory" \in SectionNames
        /\ "SMART / Health" \in SectionNames
    BY DEF SectionNames
  <1>4. \/ SectionOrder(category) = <<"Identity", "Firmware & platform", "Properties">>
        \/ SectionOrder(category) = <<"Identity", "Memory", "Properties">>
        \/ SectionOrder(category) = <<"Identity", "SMART / Health", "Properties">>
        \/ SectionOrder(category) = <<"Identity", "Properties">>
    BY DEF SectionOrder
  <1> QED
    BY <1>1, <1>2, <1>3, <1>4

(* The sections of a device: those of the order first, then the others *)
LEMMA SectionsAre ==
  ASSUME NEW v, Viewed(v), v.health \subseteq Health
  PROVE  /\ ProjectDevice(v).sections \in Seq(SectionNames)
         /\ IsInjective(ProjectDevice(v).sections)
         /\ ToSet(ProjectDevice(v).sections)
              = { line.section : line \in AllLines(v) } \ {"Advanced"}
  <1> DEFINE titles == { line.section : line \in AllLines(v) } \ {"Advanced"}
             order0 == SectionOrder(Category(v))
             first == Selected(order0, titles)
             rest == SetToSeq(titles \ ToSet(first))
             r == first \o rest
  <1>1. ProjectDevice(v).sections = r
    BY DEF ProjectDevice, Selected
  <1>2. titles \subseteq SectionNames
    <2>1. \A l \in AllLines(v) : \/ l.section = "Identity" \/ l.section = "SMART / Health"
                                 \/ l.section = SectionOf(l.key)
      BY LinesAre
    <2>2. \A k : SectionOf(k) \in SectionNames
      BY KeysOfSections DEF SectionNames
    <2>3. \A l \in AllLines(v) : l.section \in SectionNames
      BY <2>1, <2>2 DEF SectionNames
    <2> QED
      BY <2>3
  <1>3. order0 \in Seq(SectionNames) /\ IsInjective(order0)
    BY SectionOrderIs
  <1> HIDE DEF titles, order0
  <1>4. /\ first \in Seq(SectionNames) /\ IsInjective(first)
        /\ ToSet(first) = ToSet(order0) \cap titles
    BY <1>3, SelectedIs
  <1> HIDE DEF first
  <1> DEFINE R == titles \ ToSet(first)
  <1>5. rest \in Seq(R) /\ IsInjective(rest) /\ ToSet(rest) = R
    <2>1. IsFiniteSet(R)
      BY <1>2, SectionNamesFinite
    <2> HIDE DEF R
    <2> QED
      BY <2>1, SetToSeqIs DEF R
  <1>6. rest \in Seq(SectionNames)
    BY <1>2, <1>5
  <1> HIDE DEF rest
  <1>7. /\ r \in Seq(SectionNames) /\ ToSet(r) = ToSet(first) \cup ToSet(rest)
        /\ IsInjective(first) /\ IsInjective(rest) /\ ToSet(first) \cap ToSet(rest) = {}
              => IsInjective(r)
    BY <1>4, <1>6, ConcatIs
  <1> HIDE DEF r
  <1>8. IsInjective(r) /\ ToSet(r) = titles
    BY <1>4, <1>5, <1>7
  <1> QED
    BY <1>1, <1>7, <1>8 DEF titles

LEMMA SectionsAreConsistent ==
  ASSUME MachineIs(machine)
  PROVE  SectionsConsistent
  <1> SUFFICES ASSUME NEW shown \in BuildInventory(machine)
               PROVE  /\ \A l, m \in shown.lines : l.section = m.section /\ l.key = m.key => l = m
                      /\ IsInjective(shown.sections)
                      /\ { l.section : l \in shown.lines } \subseteq ToSet(shown.sections) \cup {"Advanced"}
                      /\ (\E l \in shown.lines : /\ l.section = "SMART / Health"
                                                 /\ l.key = "health_availability"
                                                 /\ l.value = "Use Refresh as administrator") =>
                              HealthButton(shown) = {"elevated"}
    BY DEF SectionsConsistent
  <1>1. PICK d \in machine : Visible(d) /\ \E v \in ViewDevice(machine, d) : shown = ProjectDevice(v)
    BY InventoryIs
  <1>2. PICK v \in ViewDevice(machine, d) : shown = ProjectDevice(v)
    BY <1>1
  <1>3. Viewed(v) /\ v.health \subseteq Health /\ (v.health # {} => v.refreshable)
    BY ViewedAre
  <1>4. /\ shown.lines = AllLines(v) /\ shown.refreshable = v.refreshable
        /\ shown.permission = \E h \in v.health : h.availability = "PermissionDenied"
    BY <1>2, ProjectedIs
  <1>5. /\ shown.sections \in Seq(SectionNames) /\ IsInjective(shown.sections)
        /\ ToSet(shown.sections) = { line.section : line \in shown.lines } \ {"Advanced"}
    BY <1>2, <1>3, <1>4, SectionsAre
  <1> DEFINE i == Extended(Option("vendor", v.vendor), Option("model", v.model))
             s == HealthSummary(v.health)
             p == v.properties
  <1>6. \A l \in shown.lines :
          /\ l = [section |-> l.section, key |-> l.key, value |-> l.value]
          /\ \/ l.section = "Identity" /\ l.key \in {"vendor", "model"} /\ l.value = i[l.key]
             \/ /\ l.section = "SMART / Health" /\ l.key \in SummaryKeys
                /\ l.key \in DOMAIN s /\ l.value = s[l.key]
             \/ /\ l.key \in DOMAIN p /\ ~ DuplicateLocation(v, l.key)
                /\ l.section = SectionOf(l.key) /\ l.value = p[l.key]
    BY <1>3, <1>4, LinesAre
  <1>7. /\ "health_availability" \in DOMAIN s /\ s["health_availability"] = "Use Refresh as administrator"
           => \E h \in v.health : h.availability = "PermissionDenied"
    <2>1. \A x, y \in v.health : x = y
      BY <1>3 DEF Viewed
    <2> QED
      BY <1>3, <2>1, SummaryIs
  <1> HIDE DEF i, s, p
  <1>8. ASSUME NEW l \in shown.lines, NEW m \in shown.lines, l.section = m.section, l.key = m.key
        PROVE  l = m
    <2>1. l.value = m.value
      <3>1. \A k : ~ (SectionOf(k) = "Identity" /\ k \in {"vendor", "model"})
        BY KeysOfSections
      <3>2. \A k : ~ (SectionOf(k) = "SMART / Health" /\ k \in SummaryKeys)
        BY KeysOfSections DEF SummaryKeys, HealthKeys
      <3> QED
        BY <1>6, <1>8, <3>1, <3>2
    <2>2. /\ l = [section |-> l.section, key |-> l.key, value |-> l.value]
          /\ m = [section |-> m.section, key |-> m.key, value |-> m.value]
      BY <1>6
    <2> QED
      BY <1>8, <2>1, <2>2
  <1>9. { l.section : l \in shown.lines } \subseteq ToSet(shown.sections) \cup {"Advanced"}
    BY <1>5
  <1>10. ASSUME NEW l \in shown.lines, l.section = "SMART / Health", l.key = "health_availability",
                l.value = "Use Refresh as administrator"
         PROVE  HealthButton(shown) = {"elevated"}
    <2>1. SectionOf("health_availability") # "SMART / Health"
      BY KeysOfSections DEF HealthKeys
    <2>2. l.key \in DOMAIN s /\ l.value = s[l.key]
      BY <1>6, <1>10, <2>1
    <2>3. \E h \in v.health : h.availability = "PermissionDenied"
      BY <1>7, <1>10, <2>2
    <2>4. shown.permission = TRUE /\ v.health # {}
      BY <1>4, <2>3
    <2>5. shown.refreshable
      BY <1>3, <1>4, <2>4
    <2>6. "SMART / Health" \in ToSet(shown.sections)
      BY <1>5, <1>10
    <2>7. Contains(shown.sections, "SMART / Health")
      <3> DEFINE q == shown.sections
      <3>1. PICK j \in DOMAIN q : q[j] = "SMART / Health"
        BY <2>6 DEF ToSet
      <3>2. DOMAIN q = 1 .. Len(q)
        BY <1>5
      <3>3. \E k \in 1 .. Len(q) : q[k] = "SMART / Health"
        BY <3>1, <3>2
      <3> HIDE DEF q
      <3>4. Contains(q, "SMART / Health")
        BY <3>3 DEF Contains
      <3> QED
        BY <3>4 DEF q
    <2> QED
      BY <2>4, <2>5, <2>7 DEF HealthButton
  <1> QED
    BY <1>5, <1>8, <1>9, <1>10

LEMMA InventoryTrueOf == InventoryInv => InventoryTrue
  <1>1. InventoryInv => MachineIs(machine)
    BY MachinesAre DEF InventoryInv
  <1> QED
    BY <1>1, FirmwareIsShown, LocationsAreShown, SectionsAreConsistent DEF InventoryTrue

-----------------------------------------------------------------------------
(* The composition *)

(* The parts are true of themselves, and a report that is not in use has   *)
(* had nothing found in it.                                                *)
ViewsInv ==
    /\ ViewInv /\ RowsInv /\ TableInv /\ PageInv /\ InventoryInv /\ WindowInv
    /\ part # "terminal" => ~found

LEMMA ViewsInductive ==
  ASSUME ViewsInv, [ViewsNext]_viewsVars
  PROVE  ViewsInv'
  <1>1. PICK p : /\ p # "terminal" => UNCHANGED tuiViewVars
                 /\ p # "rows" => UNCHANGED rowsVars
                 /\ p # "table" => UNCHANGED tableVars
                 /\ p # "page" => UNCHANGED pageVars
                 /\ p # "inventory" => UNCHANGED machine
                 /\ p # "window" => UNCHANGED gui
                 /\ part' = part
                 /\ p = "terminal" => TuiViewNext /\ part = "terminal"
                 /\ p = "rows" => RowsNext
                 /\ p = "table" => TableNext
                 /\ p = "page" => PageNext
                 /\ p = "inventory" => DevicesChange
                 /\ p = "window" => WindowNext
    <2>1. CASE UNCHANGED viewsVars
      <3>1. /\ UNCHANGED tuiViewVars /\ UNCHANGED rowsVars /\ UNCHANGED tableVars /\ UNCHANGED pageVars
            /\ UNCHANGED machine /\ UNCHANGED gui /\ part' = part
        BY <2>1 DEF viewsVars
      <3> WITNESS "none"
      <3> QED
        BY <3>1
    <2>2. CASE Elsewhere("terminal") /\ TuiViewNext
      <3> WITNESS "terminal"
      <3> QED
        BY <2>2 DEF Elsewhere
    <2>3. CASE Elsewhere("rows") /\ RowsNext
      <3> WITNESS "rows"
      <3> QED
        BY <2>3 DEF Elsewhere
    <2>7. CASE Elsewhere("inventory") /\ DevicesChange
      <3> WITNESS "inventory"
      <3> QED
        BY <2>7 DEF Elsewhere
    <2>4. CASE Elsewhere("table") /\ TableNext
      <3> WITNESS "table"
      <3> QED
        BY <2>4 DEF Elsewhere
    <2>5. CASE Elsewhere("page") /\ PageNext
      <3> WITNESS "page"
      <3> QED
        BY <2>5 DEF Elsewhere
    <2>6. CASE Elsewhere("window") /\ WindowNext
      <3> WITNESS "window"
      <3> QED
        BY <2>6 DEF Elsewhere
    <2> QED
      BY <2>1, <2>2, <2>3, <2>4, <2>5, <2>6, <2>7 DEF ViewsNext
  <1>2. ViewInv'
    <2>1. [TuiViewNext]_tuiViewVars
      BY <1>1
    <2> QED
      BY <2>1, ViewInductive DEF ViewsInv
  <1>3. TableInv'
    <2>1. [TableNext]_tableVars
      BY <1>1
    <2> QED
      BY <2>1, TableInductive DEF ViewsInv
  <1>4. PageInv'
    <2>1. [PageNext]_pageVars
      BY <1>1
    <2> QED
      BY <2>1, PageInductive DEF ViewsInv
  <1>5. WindowInv'
    <2>1. [WindowNext]_gui
      BY <1>1
    <2> QED
      BY <2>1, WindowInductive DEF ViewsInv
  <1>6. part' # "terminal" => ~found'
    BY <1>1 DEF ViewsInv, tuiViewVars
  <1>7. RowsInv'
    <2>1. [RowsNext]_rowsVars
      BY <1>1
    <2> QED
      BY <2>1, RowsInductive DEF ViewsInv
  <1>8. InventoryInv'
    <2>1. [DevicesChange]_machine
      BY <1>1
    <2> QED
      BY <2>1, InventoryInductive DEF ViewsInv
  <1> QED
    BY <1>2, <1>3, <1>4, <1>5, <1>6, <1>7, <1>8 DEF ViewsInv

LEMMA ViewsStart == ViewsInit => ViewsInv
  <1>1. TuiViewInit => ~found
    BY DEF TuiViewInit
  <1> QED
    BY <1>1, ViewStarts, RowsStart, TableStarts, PageStarts, InventoryStarts, WindowStarts
    DEF ViewsInit, ViewsInv

(* What is to be seen is what there is now, in every state of the parts:   *)
(* the search's marks are on the lines of the report that is drawn and on  *)
(* no other (tui/app.rs rebuild_report, reconcile_current_match), a label  *)
(* of the table says what the row it is bound to does (table.rs            *)
(* make_column, RowState::update), the list, the selection and the details *)
(* of the hardware page are of one inventory and one search (hardware.rs   *)
(* rebuild_navigation, update_or_render_device), and the window shows the  *)
(* view and the status that the session has, or knows that it is behind    *)
(* (main.rs sync_active_view, process_session_tick).                       *)
THEOREM ShownIsTrue == ViewsSpec => []ShownIsCurrent
  <1>1. ViewsInv => ShownIsCurrent
    BY TableIsTrue, PageIsTrue, WindowIsTrue DEF ViewsInv, ViewInv, ShownIsCurrent
  <1>2. ViewsInv /\ [ViewsNext]_viewsVars => ViewsInv'
    BY ViewsInductive
  <1> QED
    BY <1>1, <1>2, ViewsStart, PTL DEF ViewsSpec

(* Whatever the snapshots, the moves of the dialog, the searches and the   *)
(* settings: the rows, of the window and of the log, are in the order that *)
(* was applied last (rows.rs build_sensor_rows_with_order), an entry that  *)
(* moves takes what is below it along (preferences.rs move_order_item),    *)
(* the log has the sensors of its scope (main.rs logging_rows), and no     *)
(* sensor is kept back that nothing hides, folds or filters.               *)
THEOREM RowsAreTrue == ViewsSpec => []RowsTrue
  <1>1. ViewsInv => RowsTrue
    BY RowsTrueOf DEF ViewsInv
  <1>2. ViewsInv /\ [ViewsNext]_viewsVars => ViewsInv'
    BY ViewsInductive
  <1> QED
    BY <1>1, <1>2, ViewsStart, PTL DEF ViewsSpec

(* Whatever the machine, its page shows every device once, under a section *)
(* it belongs to, with every property, location and revision of the        *)
(* firmware once (hardware.rs project_devices, dmi_fields, location_fields *)
(* and firmware_fields).                                                   *)
THEOREM InventoryIsTrue == ViewsSpec => []InventoryTrue
  <1>1. ViewsInv => InventoryTrue
    BY InventoryTrueOf DEF ViewsInv
  <1>2. ViewsInv /\ [ViewsNext]_viewsVars => ViewsInv'
    BY ViewsInductive
  <1> QED
    BY <1>1, <1>2, ViewsStart, PTL DEF ViewsSpec

(* New rows select nothing that the user had not selected, except the      *)
(* first row when there was no selection (table.rs replace_topology,       *)
(* select_id), and the match that a search stopped at is in the part of    *)
(* the report that is drawn next, whatever the size of the terminal has    *)
(* become and however the report was scrolled (tui/app.rs find_match,      *)
(* recalculate_scroll_limits, draw).                                       *)
THEOREM FoundStaysInView == ViewsSpec => KeptInView
  <1>1. ViewsInv /\ [ViewsNext]_viewsVars => ViewsInv'
    BY ViewsInductive
  <1>2. ViewsInv /\ [ViewsNext]_viewsVars => [SelectionKept /\ MatchVisible]_viewsVars
    <2> SUFFICES ASSUME ViewsInv, ViewsNext PROVE SelectionKept /\ MatchVisible
      OBVIOUS
    <2>1. SelectionKept
      <3>1. store' = store => SelectionKept
        BY DEF SelectionKept
      <3> QED
        BY <3>1, SelectionStays DEF ViewsNext, Elsewhere, tableVars
    <2>2. MatchVisible
      <3>1. ~found => MatchVisible
        BY DEF MatchVisible
      <3>2. part = "terminal" => TuiViewNext
        BY DEF ViewsNext, Elsewhere
      <3> QED
        BY <3>1, <3>2, ViewVisible DEF ViewsInv
    <2> QED
      BY <2>1, <2>2
  <1> QED
    BY <1>1, <1>2, ViewsStart, PTL DEF ViewsSpec, KeptInView
=============================================================================
