----------------------------- MODULE FdTerminal -----------------------------
(***************************************************************************)
(* An interactive session of the terminal client: run_control_loop and     *)
(* apply_control of control_model.hpp, the callbacks interactive_render,   *)
(* interactive_pass and ensure_audit of main.cpp, and what the frames of   *)
(* ascii_renderer.cpp show of the world's map and of the attempts that     *)
(* led to it.                                                              *)
(*                                                                         *)
(* The world is the number of decisions it has accepted; its history is    *)
(* what World::build_replay tells.  Pane focus, scale and the inspecting   *)
(* flag are written by apply_control and read by nothing; they and all     *)
(* wording are left out.                                                   *)
(***************************************************************************)
EXTENDS Integers, Sequences, FiniteSets

CONSTANTS
  Width, Height,           \* of the map
  MinColumns, MinRows,     \* 80 and 24 in the code
  MaxColumns, MaxRows,
  PageSize,                \* 10 in the code
  Filters,                 \* texts after "/"; "" is no filter
  Matches(_, _),           \* Matches(f, kind): f occurs in such a line
  Options,                 \* command-line options a session may start with
  Started,                 \* decisions and audits it may start with
  MaxAccepted,             \* decisions that fit a replay of max_file_bytes
  MaxPasses,               \* bound: decisions a session gets to
  NoReplay, NoFrame

MapViews == {"local", "strategic", "hash"}
AuditViews == {"messages", "replay"}
Views == MapViews \cup AuditViews \cup {"help"}
Endings == {"quit", "eof", "OUT_OF_MEMORY", "CAPACITY", "OUT_OF_RANGE"}

(* A replay: its records, and the attempts its audits are of.              *)
Replays == [records : Nat, audits : Seq(Nat)]
Attempts(r) == r.records + Len(r.audits)

ASSUME MapAssumption == Width \in Nat \ {0} /\ Height \in Nat \ {0}
ASSUME PageAssumption == PageSize \in Nat \ {0}
ASSUME FilterAssumption == "" \in Filters
(* The map's frame leaves 32 columns and 9 rows to the rest.               *)
ASSUME SizeAssumption ==
  /\ MinColumns \in Nat /\ MinColumns > 32 /\ MinRows \in Nat /\ MinRows > 9
  /\ MaxColumns \in Nat /\ MaxRows \in Nat
ASSUME OptionsAssumption ==
  \A o \in Options :
    /\ o.columns \in Nat /\ o.rows \in Nat /\ o.view \in Views \ {"help"}
    /\ o.selected_x \in Nat /\ o.selected_y \in Nat
    /\ o.viewport_x \in Nat /\ o.viewport_y \in Nat
(* fd_replay_open takes audits of attempts there are, in their order only. *)
ASSUME StartedAssumption ==
  /\ MaxPasses \in Nat
  /\ \A start \in Started :
       /\ start.verified \in BOOLEAN
       /\ start.records \in 0 .. MaxPasses /\ start.audits \in Seq(Nat)
       /\ \A i, j \in 1 .. Len(start.audits) :
            i < j => start.audits[i] < start.audits[j]
       /\ \A i \in 1 .. Len(start.audits) :
            start.audits[i] < start.records + Len(start.audits)

VARIABLES
  options,    \* columns and rows of the session
  accepted,   \* decisions in the history of the session's world
  replay,     \* session.replay: [records, audits], or NoReplay
  control,    \* ControlState
  phase,      \* "render", "read" or how the loop ended
  frame,      \* the last frame written, or NoFrame
  commanded   \* history: whether apply_control has run

vars == <<options, accepted, replay, control, phase, frame, commanded>>

Controls ==
  [view : Views, before_help : Views \ {"help"}, filter : Filters,
   selected_x : Nat, selected_y : Nat, viewport_x : Nat, viewport_y : Nat,
   audit_count : Nat, first_log_record : Nat, replay_record : Nat]

TypeOK ==
  /\ options \in Options
  /\ accepted \in 0 .. MaxPasses
  /\ replay # NoReplay => replay \in Replays
  /\ control \in Controls
  /\ phase \in {"render", "read"} \cup Endings
  /\ commanded \in BOOLEAN

(* main: a generated world stepped --steps times, or the world of a        *)
(* verified replay played to its end and the replay itself.                *)
Init ==
  /\ options \in Options
  /\ \E start \in Started :
       /\ accepted = start.records
       /\ replay = IF start.verified
                   THEN [records |-> start.records, audits |-> start.audits]
                   ELSE NoReplay
  /\ control = [view |-> options.view, before_help |-> "local",
                selected_x |-> options.selected_x,
                selected_y |-> options.selected_y,
                viewport_x |-> options.viewport_x,
                viewport_y |-> options.viewport_y,
                audit_count |-> 0, first_log_record |-> 0,
                replay_record |-> 0, filter |-> ""]
  /\ phase = "render" /\ frame = NoFrame /\ commanded = FALSE

AtMost(n, bound) == IF n < bound THEN n ELSE bound

-----------------------------------------------------------------------------
(* ensure_audit: with no replay at hand the history is built into one and  *)
(* opened; the two places in it that the screens keep are brought inside.  *)
Audited == IF replay # NoReplay THEN replay
           ELSE [records |-> accepted, audits |-> <<>>]
AuditFails ==
  IF replay # NoReplay THEN {}
  ELSE {"OUT_OF_MEMORY"}
         \cup (IF accepted > MaxAccepted THEN {"CAPACITY"} ELSE {})
AuditSucceeds == replay # NoReplay \/ accepted <= MaxAccepted

Clamped(c, count) ==
  [c EXCEPT !.audit_count = count,
            !.first_log_record =
              IF count = 0 THEN 0 ELSE AtMost(@, count - 1),
            !.replay_record =
              IF count = 0 THEN 0 ELSE AtMost(@, count - 1)]

-----------------------------------------------------------------------------
(* Frames. *)

SizeVerdict ==
  IF options.columns = 0 \/ options.rows = 0 THEN "OUT_OF_RANGE"
  ELSE IF options.columns > MaxColumns \/ options.rows > MaxRows
  THEN "CAPACITY"
  ELSE IF options.columns < MinColumns \/ options.rows < MinRows
  THEN "notice"
  ELSE "full"

(* render_local: as much of the map as fits, its origin brought inside.    *)
LocalWindow ==
  LET width == AtMost(options.columns - 32, Width)
      height == AtMost(options.rows - 9, Height)
      x == AtMost(control.viewport_x, Width - width)
      y == AtMost(control.viewport_y, Height - height)
  IN  [columns |-> x .. x + width - 1, rows |-> y .. y + height - 1]

(* The audits, told in order, that come before an attempt. *)
AuditsBefore(audits, attempt) ==
  CHOOSE n \in 0 .. Len(audits) :
    /\ \A i \in 1 .. n : audits[i] < attempt
    /\ n < Len(audits) => audits[n + 1] >= attempt

(* render_message_log_ascii walks the attempts from `first`: an audit if   *)
(* the next one has the attempt's index, else the next record; an audit    *)
(* that it has gone past is an error (here a line of its own).             *)
LogStep(audits, state, attempt) ==
  LET more == state.audit < Len(audits)
      next == audits[state.audit + 1]
  IN  IF more /\ next = attempt
      THEN [audit |-> state.audit + 1, accepted |-> state.accepted,
            lines |-> Append(state.lines, <<"reject", state.audit>>)]
      ELSE IF more /\ next < attempt
      THEN [audit |-> state.audit, accepted |-> state.accepted,
            lines |-> Append(state.lines, <<"not ordered", state.audit>>)]
      ELSE [audit |-> state.audit, accepted |-> state.accepted + 1,
            lines |-> Append(state.lines, <<"accept", state.accepted>>)]
LogWalk(r, first, accepted_index) ==
  LET at[n \in 0 .. Attempts(r) - first] ==
        IF n = 0
        THEN [audit |-> AuditsBefore(r.audits, first),
              accepted |-> accepted_index, lines |-> <<>>]
        ELSE LogStep(r.audits, at[n - 1], first + n - 1)
  IN  at
(* Variant (FrameTellsAttempts): audits before `first` not taken off. *)
LogLinesUncounted(r, first) ==
  LogWalk(r, first, first)[Attempts(r) - first].lines
LogLines(r, first) ==
  LogWalk(r, first, first - AuditsBefore(r.audits, first))
    [Attempts(r) - first].lines

(* The lines the filter keeps, as many as the rows leave room for. *)
Page(lines, filter, rows) ==
  LET kept == SelectSeq(lines,
                LAMBDA line : filter = "" \/ Matches(filter, line[1]))
  IN  SubSeq(kept, 1, AtMost(Len(kept), rows - 7))

(* render_replay_inspector_ascii: the audit of this attempt, else the      *)
(* record after the audits before it.                                      *)
InspectorShown(r, attempt) ==
  IF Attempts(r) = 0 THEN <<>>
  ELSE LET before == AuditsBefore(r.audits, attempt)
       IN  IF before < Len(r.audits) /\ r.audits[before + 1] = attempt
           THEN << <<"reject", before>> >>
           ELSE << <<"accept", attempt - before>> >>

(* The place an audit screen starts at against the attempts there are. *)
PlaceVerdict(r, c) ==
  IF SizeVerdict # "full" THEN SizeVerdict
  ELSE IF \/ c.view = "messages" /\ c.first_log_record > Attempts(r)
          \/ c.view = "replay" /\ Attempts(r) = 0 /\ c.replay_record # 0
          \/ c.view = "replay" /\ Attempts(r) # 0
               /\ c.replay_record >= Attempts(r)
  THEN "OUT_OF_RANGE"
  ELSE "full"

Lines(r, c) ==
  IF PlaceVerdict(r, c) # "full" THEN <<>>
  ELSE IF c.view = "messages"
  THEN Page(LogLines(r, c.first_log_record), c.filter, options.rows)
  ELSE InspectorShown(r, c.replay_record)

End(how) ==
  /\ phase' = how
  /\ UNCHANGED <<options, accepted, replay, control, frame, commanded>>

-----------------------------------------------------------------------------
(* The loop: a frame, a line, a command. *)

RenderHelp ==
  /\ phase = "render" /\ control.view = "help"
  /\ phase' = "read"
  /\ frame' = [view |-> "help"]
  /\ UNCHANGED <<options, accepted, replay, control, commanded>>

(* A snapshot is taken for the map, the region and the hash screens. *)
RenderWorld ==
  /\ phase = "render" /\ control.view \in MapViews
  /\ \/ End("OUT_OF_MEMORY")
     \/ SizeVerdict \in {"OUT_OF_RANGE", "CAPACITY"} /\ End(SizeVerdict)
     \/ /\ SizeVerdict \in {"notice", "full"}
        /\ phase' = "read"
        /\ frame' = IF control.view = "local" /\ SizeVerdict = "full"
                    THEN [view |-> "local", window |-> LocalWindow,
                          selected |-> <<AtMost(control.selected_x, Width - 1),
                                         AtMost(control.selected_y, Height - 1)>>]
                    ELSE [view |-> control.view]
        /\ UNCHANGED <<options, accepted, replay, control, commanded>>

RenderAudit ==
  /\ phase = "render" /\ control.view \in AuditViews
  /\ \/ \E code \in AuditFails : End(code)
     \/ LET r == Audited
            c == Clamped(control, Attempts(r))
        IN  /\ AuditSucceeds
            /\ replay' = r /\ control' = c
            /\ IF PlaceVerdict(r, c) \in {"notice", "full"}
               THEN /\ phase' = "read"
                    /\ frame' = [view |-> c.view, lines |-> Lines(r, c),
                                 full |-> PlaceVerdict(r, c) = "full"]
               ELSE phase' = PlaceVerdict(r, c) /\ UNCHANGED frame
            /\ UNCHANGED <<options, accepted, commanded>>

EndOfInput == phase = "read" /\ End("eof")

(* A token that does not parse changes the message only. *)
UnknownToken ==
  /\ phase = "read"
  /\ phase' = "render"
  /\ UNCHANGED <<options, accepted, replay, control, frame, commanded>>

(* Variant (AuditIsCurrent): the replay kept across a PASS. *)
PassKeepingReplay ==
  /\ phase = "read" /\ accepted < MaxPasses
  /\ \/ End("OUT_OF_MEMORY")
     \/ LET r == [records |-> accepted + 1, audits |-> <<>>]
        IN  /\ accepted' = accepted + 1
            /\ replay' = IF replay = NoReplay THEN r ELSE replay
            /\ control' = Clamped(control, Attempts(replay'))
            /\ phase' = "render"
            /\ UNCHANGED <<options, frame, commanded>>

(* interactive_pass: the world is stepped, the replay at hand dropped and  *)
(* the history built and opened again.  If that fails the step has been    *)
(* made all the same, and the session ends.                                *)
Pass ==
  /\ phase = "read" /\ accepted < MaxPasses
  /\ \/ End("OUT_OF_MEMORY")
     \/ LET r == [records |-> accepted + 1, audits |-> <<>>]
        IN  /\ accepted' = accepted + 1
            /\ \/ /\ replay' = NoReplay
                  /\ phase' = "OUT_OF_MEMORY"
                  /\ UNCHANGED control
               \/ /\ accepted + 1 > MaxAccepted
                  /\ replay' = NoReplay
                  /\ phase' = "CAPACITY"
                  /\ UNCHANGED control
               \/ /\ accepted + 1 <= MaxAccepted
                  /\ replay' = r
                  /\ control' = Clamped(control, Attempts(r))
                  /\ phase' = "render"
            /\ UNCHANGED <<options, frame, commanded>>

Quit == phase = "read" /\ End("quit")

-----------------------------------------------------------------------------
(* apply_control: the selection is brought inside the map, the command     *)
(* done, the viewport moved just enough to hold the selection.             *)

SelectionInside(c) ==
  [c EXCEPT !.selected_x = AtMost(@, Width - 1),
            !.selected_y = AtMost(@, Height - 1)]

MapColumns == IF options.columns > 32 THEN options.columns - 32 ELSE 1
MapRows == IF options.rows > 9 THEN options.rows - 9 ELSE 1

(* Variant (CursorInFrame): one column short. *)
HeldOffByOne(origin, selected, extent) ==
  IF selected < origin THEN selected
  ELSE IF selected - origin > extent THEN selected - extent
  ELSE origin
Held(origin, selected, extent) ==
  IF selected < origin THEN selected
  ELSE IF selected - origin >= extent THEN selected - extent + 1
  ELSE origin
KeepCursorVisible(c) ==
  [c EXCEPT !.viewport_x = Held(@, c.selected_x, MapColumns),
            !.viewport_y = Held(@, c.selected_y, MapRows)]

Moves(c) ==
  {[c EXCEPT !.selected_y = IF @ # 0 THEN @ - 1 ELSE @],
   [c EXCEPT !.selected_y = IF @ + 1 < Height THEN @ + 1 ELSE @],
   [c EXCEPT !.selected_x = IF @ # 0 THEN @ - 1 ELSE @],
   [c EXCEPT !.selected_x = IF @ + 1 < Width THEN @ + 1 ELSE @]}

ToggleMap(c) ==
  [c EXCEPT !.view = IF @ = "local" THEN "strategic" ELSE "local"]
ToggleHelp(c) ==
  IF c.view = "help" THEN [c EXCEPT !.view = c.before_help]
  ELSE [c EXCEPT !.before_help = c.view, !.view = "help"]
Cancel(c) ==
  [c EXCEPT !.filter = "",
            !.view = IF @ = "help" THEN c.before_help ELSE @]

PageUp(c) ==
  IF c.view = "replay"
  THEN [c EXCEPT !.replay_record = IF @ # 0 THEN @ - 1 ELSE @]
  ELSE [c EXCEPT !.first_log_record =
                   IF @ > PageSize THEN @ - PageSize ELSE 0]
PageDown(c) ==
  IF c.audit_count = 0 THEN c
  ELSE LET last == c.audit_count - 1
       IN  IF c.view = "replay"
           THEN [c EXCEPT !.replay_record = IF @ < last THEN @ + 1 ELSE @]
           ELSE [c EXCEPT !.first_log_record =
                            IF @ > last - AtMost(last, PageSize) THEN last
                            ELSE @ + PageSize]

Applied(c) ==
  Moves(c)
    \cup {c, ToggleMap(c), ToggleHelp(c), Cancel(c), PageUp(c), PageDown(c)}
    \cup {[c EXCEPT !.filter = f] : f \in Filters}
    \cup {[c EXCEPT !.view = v] : v \in Views \ {"help"}}

ApplyControl ==
  /\ phase = "read"
  /\ \E c \in Applied(SelectionInside(control)) :
       control' = KeepCursorVisible(c)
  /\ commanded' = TRUE
  /\ phase' = "render"
  /\ UNCHANGED <<options, accepted, replay, frame>>

Next ==
  \/ RenderHelp \/ RenderWorld \/ RenderAudit
  \/ EndOfInput \/ UnknownToken \/ Pass \/ Quit \/ ApplyControl

Spec == Init /\ [][Next]_vars

-----------------------------------------------------------------------------
(* Properties. *)

(* The replay behind the message log and the inspector holds every         *)
(* decision the session's world has accepted: interactive_pass leaves no   *)
(* screen on an older history.                                             *)
AuditIsCurrent == replay # NoReplay => replay.records = accepted

(* No sequence of commands takes a screen outside what it shows: paging,   *)
(* passing (which may leave fewer attempts than before), toggling help and *)
(* switching views end the session only for memory or a full replay.       *)
FrameIsInside ==
  phase = "OUT_OF_RANGE" => options.columns = 0 \/ options.rows = 0

(* What an attempt is, told from the audits' indexes alone. *)
Told(r, attempt) ==
  LET before == {j \in 1 .. Len(r.audits) : r.audits[j] < attempt}
  IN  IF \E j \in 1 .. Len(r.audits) : r.audits[j] = attempt
      THEN <<"reject", Cardinality(before)>>
      ELSE <<"accept", attempt - Cardinality(before)>>
ToldFrom(r, first) ==
  [i \in 1 .. Attempts(r) - first |-> Told(r, first + i - 1)]

(* A line of the message log or of the inspector is the attempt it is      *)
(* numbered with, whatever page, filter and mixture of rejections: the     *)
(* log shows the attempts from its first on that match, none skipped, and  *)
(* none is looked for in a record or an audit that the replay has not, or  *)
(* found out of order.                                                     *)
FrameTellsAttempts ==
  phase = "read" /\ frame.view \in AuditViews /\ frame.full =>
    /\ frame.view = "messages" =>
         frame.lines = Page(ToldFrom(replay, control.first_log_record),
                            control.filter, options.rows)
    /\ frame.view = "replay" =>
         frame.lines = IF Attempts(replay) = 0 THEN <<>>
                       ELSE << Told(replay, control.replay_record) >>
    /\ \A attempt \in 0 .. Attempts(replay) - 1 :
         LET line == Told(replay, attempt)
         IN  line[2] \in 0 .. (IF line[1] = "accept" THEN replay.records
                               ELSE Len(replay.audits)) - 1

(* A screen of the replay, whenever one is shown, tells attempts it has.   *)
ScreenTellsAttempts == TypeOK /\ FrameIsInside /\ FrameTellsAttempts

(* After any command the map shows the selected tile, wherever options put *)
(* the viewport: the window keep_cursor_visible reckons with is the one    *)
(* render_local draws.                                                     *)
CursorInFrame ==
  phase = "read" /\ commanded /\ frame.view = "local"
    /\ SizeVerdict = "full" =>
  /\ frame.selected[1] \in frame.window.columns
  /\ frame.selected[2] \in frame.window.rows
=============================================================================
