-------------------------------- MODULE TuiView --------------------------------
(***************************************************************************)
(* What the terminal monitor shows: the report, the search in it and the   *)
(* window of it that is drawn (crates/hwall-cli/src/tui/app.rs), turn by   *)
(* turn of run_loop (tui.rs): a tick, a drawing if something changed, and  *)
(* the keys that are waiting.  A line of the report is the set of the      *)
(* queries it contains.  Horizontal scrolling is like vertical scrolling   *)
(* and left out, as are lines beyond u16::MAX.                             *)
(***************************************************************************)
EXTENDS Integers, Sequences, FiniteSetsExt

CONSTANTS
    Queries,   \* what can be searched for
    Reports,   \* reports there may be
    Heights    \* inner heights of the report's box

ASSUME ViewAssumption ==
    /\ Reports \subseteq Seq(SUBSET Queries)
    /\ Heights \subseteq Nat

Blank == "blank"   \* the empty query
TerminalViews == {"Mixed", "Sensors", "Hardware"}

VARIABLES
    turn,     \* where run_loop is
    view,     \* the view, whether diagnostics replace it, the help, the height
    report,   \* the report, its styled lines, and whether it is drawn
    search,   \* mode, search_input, search_query and current_match, an option
    scroll,   \* vertical_scroll, its limit, viewport_height
    found     \* since the last drawing, a match was found last, in a report
              \* that had been drawn, and is to be seen; for the properties

tuiViewVars == <<turn, view, report, search, scroll, found>>

TuiViewTypeOK ==
    /\ turn \in {"tick", "draw", "keys"}
    /\ view \in [shown : TerminalViews, verbose : BOOLEAN, help : BOOLEAN,
                 dirty : BOOLEAN, height : Heights]
    /\ report.lines \in Reports
    /\ search \in [mode : {"Normal", "Search"}, input : Queries \cup {Blank},
                   query : Queries \cup {Blank}, current : SUBSET DOMAIN report.lines]
    /\ scroll \in [at : Nat, max : Nat, viewport : Nat \ {0}]
    /\ found \in BOOLEAN

-----------------------------------------------------------------------------
(* Lines count from one here and from zero in the code; scroll.at counts   *)
(* the lines above the window, in both.                                    *)

Matches(lines, query) == { i \in DOMAIN lines : query \in lines[i] }

Distance(i, j) == IF i < j THEN j - i ELSE i - j

(* rebuild_styled_lines *)
Styled(lines, query, current) ==
    [i \in DOMAIN lines |->
        IF i \in current THEN "current"
        ELSE IF query \in lines[i] THEN "match" ELSE "plain"]

(* reconcile_current_match: the first of the matches nearest to the last.  *)
MatchNear(lines, query, previous) ==
    { i \in Matches(lines, query) :
        \E p \in previous : \A j \in Matches(lines, query) \ {i} :
            \/ Distance(i, p) < Distance(j, p)
            \/ Distance(i, p) = Distance(j, p) /\ i < j }

(* The neighbours in the list of matches, at whose ends it starts again.   *)
NextMatch(matches, current, reverse) ==
    LET beyond == { i \in matches : \A c \in current : IF reverse THEN i < c ELSE i > c }
        among == IF beyond = {} THEN matches ELSE beyond
    IN IF reverse THEN Max(among) ELSE Min(among)

Clamped(at, max) == IF at <= max THEN at ELSE max

(* rebuild_report, of the snapshot there is now: the limit is the old one. *)
Rebuild(from, previous) ==
    \E lines \in Reports :
        LET current == MatchNear(lines, from.query, previous)
        IN /\ report' = [lines |-> lines, styled |-> Styled(lines, from.query, current),
                         drawn |-> FALSE]
           /\ search' = [from EXCEPT !.current = current]

-----------------------------------------------------------------------------
(* The tick may apply an update of the monitor. *)
TickView ==
    /\ turn = "tick"
    /\ turn' = "draw"
    /\ \/ /\ Rebuild(search, search.current)
          /\ scroll' = [scroll EXCEPT !.at = Clamped(@, scroll.max)]
          /\ view' = [view EXCEPT !.dirty = TRUE]
          /\ found' = FALSE
       \/ UNCHANGED <<view, report, search, scroll, found>>

(* The lines that a drawing shows *)
Window(s) == s.at + 1 .. Clamped(s.at + s.viewport, Len(report.lines))

(* A mutant: the limit of the report before. *)
LimitsOfBefore(height) ==
    [scroll EXCEPT !.viewport = IF height = 0 THEN 1 ELSE height,
                   !.at = Clamped(@, scroll.max)]

Limits(height) ==
    LET lines == Len(report.lines)
        max == IF lines > height THEN lines - height ELSE 0
    IN [at |-> Clamped(scroll.at, max), max |-> max,
        viewport |-> IF height = 0 THEN 1 ELSE height]

DrawView ==
    /\ turn = "draw"
    /\ turn' = "keys"
    /\ IF view.dirty
       THEN /\ scroll' = Limits(view.height)
            /\ view' = [view EXCEPT !.dirty = FALSE]
            /\ report' = [report EXCEPT !.drawn = TRUE]
            /\ found' = FALSE
       ELSE UNCHANGED <<view, report, scroll, found>>
    /\ UNCHANGED search

(* At most MAX_INPUT_EVENTS_PER_TURN events are handled in a turn. *)
KeysEnd ==
    /\ turn = "keys"
    /\ turn' = "tick"
    /\ UNCHANGED <<view, report, search, scroll, found>>

Resize ==
    /\ turn = "keys"
    /\ \E height \in Heights : view' = [view EXCEPT !.height = height, !.dirty = TRUE]
    /\ report' = [report EXCEPT !.drawn = FALSE]
    /\ found' = FALSE
    /\ UNCHANGED <<turn, search, scroll>>

-----------------------------------------------------------------------------
(* handle_key *)

Key(mode) ==
    /\ turn = "keys" /\ ~view.help /\ search.mode = mode
    /\ UNCHANGED turn

Redraw == view' = [view EXCEPT !.dirty = TRUE]

ToggleHelp ==
    /\ turn = "keys" /\ search.mode = "Normal"
    /\ view' = [view EXCEPT !.help = ~@, !.dirty = TRUE]
    /\ UNCHANGED <<turn, report, search, scroll, found>>

Page == IF scroll.viewport > 2 THEN scroll.viewport - 1 ELSE 1

Scroll ==
    /\ Key("Normal")
    /\ \E amount \in {1, Page, Page \div 2} :
          scroll' \in { [scroll EXCEPT !.at = IF @ > amount THEN @ - amount ELSE 0],
                        [scroll EXCEPT !.at = Clamped(@ + amount, scroll.max)],
                        [scroll EXCEPT !.at = 0],
                        [scroll EXCEPT !.at = scroll.max] }
    /\ Redraw
    /\ found' = FALSE
    /\ UNCHANGED <<report, search>>

OpenSearch ==
    /\ Key("Normal")
    /\ search' = [search EXCEPT !.mode = "Search", !.input = search.query]
    /\ Redraw
    /\ UNCHANGED <<report, scroll, found>>

TypeSearch ==
    /\ Key("Search")
    /\ \E input \in Queries \cup {Blank} : search' = [search EXCEPT !.input = input]
    /\ Redraw
    /\ UNCHANGED <<report, scroll, found>>

CancelSearch ==
    /\ Key("Search")
    /\ search' = [search EXCEPT !.mode = "Normal", !.input = Blank]
    /\ Redraw
    /\ UNCHANGED <<report, scroll, found>>

(* find_match, after a new query or from the current match *)
Find(from, reverse) ==
    LET matches == Matches(report.lines, from.query)
        selected == NextMatch(matches, from.current, reverse)
        current == IF matches = {} THEN {} ELSE {selected}
    IN /\ search' = [from EXCEPT !.current = current]
       /\ report' = [report EXCEPT !.styled = Styled(report.lines, from.query, current)]
       /\ scroll' = IF matches = {} THEN scroll
                    ELSE [scroll EXCEPT !.at = Clamped(selected - 1, scroll.max)]
       /\ found' = (matches # {} /\ report.drawn)

EnterSearch ==
    /\ Key("Search")
    /\ Find([search EXCEPT !.mode = "Normal", !.query = search.input, !.current = {}], FALSE)
    /\ Redraw

(* n and N *)
FindMatch(reverse) ==
    /\ Key("Normal")
    /\ search.query # Blank
    /\ Find(search, reverse)
    /\ Redraw

(* Tab, 1, 2, 3 and v: the report is another one, from its top. *)
Turned(shown, verbose) ==
    /\ Rebuild([search EXCEPT !.current = {}], {})
    /\ scroll' = [scroll EXCEPT !.at = 0]
    /\ view' = [view EXCEPT !.shown = shown, !.verbose = verbose, !.dirty = TRUE]
    /\ found' = FALSE

SwitchTerminalView(shown) ==
    /\ Key("Normal")
    /\ IF shown = view.shown /\ ~view.verbose
       THEN Redraw /\ UNCHANGED <<report, search, scroll, found>>
       ELSE Turned(shown, FALSE)

ToggleVerbose == Key("Normal") /\ Turned(view.shown, ~view.verbose)

(* x: the same report with other statistics. *)
ResetLiveStatistics ==
    /\ Key("Normal")
    /\ Rebuild(search, search.current)
    /\ scroll' = [scroll EXCEPT !.at = Clamped(@, scroll.max)]
    /\ Redraw
    /\ found' = FALSE

-----------------------------------------------------------------------------
TuiViewInit ==
    /\ turn = "tick"
    /\ view \in [shown : TerminalViews, verbose : BOOLEAN, help : {FALSE},
                 dirty : {TRUE}, height : Heights]
    /\ \E lines \in Reports :
          report = [lines |-> lines, styled |-> Styled(lines, Blank, {}), drawn |-> FALSE]
    /\ search = [mode |-> "Normal", input |-> Blank, query |-> Blank, current |-> {}]
    /\ scroll = [at |-> 0, max |-> 0, viewport |-> 1]
    /\ found = FALSE

TuiViewNext ==
    \/ TickView \/ DrawView \/ KeysEnd \/ Resize
    \/ ToggleHelp \/ Scroll
    \/ OpenSearch \/ TypeSearch \/ CancelSearch \/ EnterSearch
    \/ \E reverse \in BOOLEAN : FindMatch(reverse)
    \/ \E shown \in TerminalViews : SwitchTerminalView(shown)
    \/ ToggleVerbose \/ ResetLiveStatistics

TuiViewSpec == TuiViewInit /\ [][TuiViewNext]_tuiViewVars

-----------------------------------------------------------------------------
(* Properties *)

(* What is marked is what matches: through new snapshots, views and        *)
(* queries, the current match is a line of this report with this query,    *)
(* and each line is styled accordingly.                                    *)
MatchIsReal ==
    /\ search.current \subseteq Matches(report.lines, search.query)
    /\ report.styled = Styled(report.lines, search.query, search.current)

(* A match that was found in a drawn report is in the part of it that is   *)
(* drawn next.  (In a report that has not been drawn, because the key came *)
(* in the same turn as one that changed it, it need not be.)               *)
MatchVisible ==
    turn = "draw" /\ found /\ view.dirty => search.current \subseteq Window(scroll')
=============================================================================
