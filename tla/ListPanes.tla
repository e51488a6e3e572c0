----------------------------- MODULE ListPanes -----------------------------
(***************************************************************************)
(* The tabs that are a list and what keys do to the row of it that is      *)
(* highlighted: the order book, the disputes to take, the disputes taken,  *)
(* the trades with their chat, and the messages.  Background tasks insert, *)
(* move and remove rows of the shared lists at any moment; a key is        *)
(* handled against the lists as they are then, while the user pressed it   *)
(* looking at the last frame.                                              *)
(*                                                                         *)
(* A turn of the main loop is one branch of its select! (a key, a result,  *)
(* a chat update, the timer), then the repairs of the selections, then the *)
(* queued results, then the frame.  The lists may change between any two.  *)
(***************************************************************************)
EXTENDS Attachments, SequencesExt

CONSTANTS
  Rowable,    \* of each tab, the items it may come to list
  Hidden,     \* listings whose currency the currency filter excludes
  Mine,       \* own pending listings
  WithSolver  \* trades whose solver is known

Panes == {"Orders", "DisputesPending", "DisputesInProgress", "MyTrades", "Messages"}

\* These keep the id of the selected row; the other two keep its position.
ById == {"Orders", "DisputesPending", "DisputesInProgress"}

ASSUME PanesAssumption ==
  /\ Items \subseteq Nat
  /\ Rowable \in [Panes -> SUBSET Items]
  /\ Hidden \subseteq Items /\ Mine \subseteq Items /\ WithSolver \subseteq Items

VARIABLES
  pane,       \* active_tab
  list,       \* the rows behind it; for the disputes taken, admin_disputes_in_progress
  ended,      \* disputes that are no longer initiated or, when taken, that are over, by the relay
  stored,     \* taken disputes that are over in the database
  shut,       \* taken disputes that are over in memory
  filtered,   \* the currency filter is on, or the disputes tab shows the finalized ones
  sel,        \* selected_order_id, selected_pending_dispute_id or selected_dispute_id
  idx,        \* selected_order_chat_idx or selected_message_idx, from 1
  to,         \* active_user_chat_channel or active_chat_party
  mode,       \* app.mode, and the item it is about
  asked,      \* work of spawned tasks about items: finalizing or deleting
  did,        \* what the key of this turn opened, sent or started
  frame,      \* what the last frame showed
  turn        \* where the main loop is

listVars == <<list, ended, stored>>
paneVars == <<pane, filtered, sel, idx, to>>
vars == <<pane, list, ended, stored, shut, filtered, sel, idx, to, mode, asked, did,
          frame, turn, attachVars>>

Home == [name |-> "Home", item |-> None]
Asking == [name |-> "Ask", item |-> None]
AdminNormal == [name |-> "AdminNormal", item |-> None]
Popup == [name |-> "OperationResult", item |-> None]
Nothing == [what |-> "nothing", item |-> None, to |-> "Peer"]

-----------------------------------------------------------------------------
\* The rows a tab shows of its list.

\* The rows that are in a set, in their order: SelectSeq, with a set in the place of
\* the test, so that equal sets make equal lists.
Only(rows, set) ==
  LET upto[n \in 0 .. Len(rows)] ==
        IF n = 0 THEN << >>
        ELSE IF rows[n] \in set THEN Append(upto[n - 1], rows[n]) ELSE upto[n - 1]
  IN  upto[Len(rows)]

order_passes_currency_filter(i) == ~(filtered /\ i \in Hidden)

IsInitiated(i) == i \notin ended

\* A selected dispute stays among the open ones when it is closed.
PassesDisputeFilter(i) == IF filtered THEN i \in shut ELSE i \notin shut \/ i = sel

IsShown(i) ==
  CASE pane = "Orders" -> order_passes_currency_filter(i)
    [] pane = "DisputesPending" -> IsInitiated(i)
    [] pane = "DisputesInProgress" -> PassesDisputeFilter(i)
    [] OTHER -> TRUE

ShownRows == Only(list, {i \in Items : IsShown(i)})

\* The row a selected id stands at, or the first.
IdRow(rows) == IF sel \in Range(rows) THEN CHOOSE k \in DOMAIN rows : rows[k] = sel ELSE 1

\* The row a selected position stands at in a frame, and in Messages also in a key.
ClampedRow(rows) == IF idx > Len(rows) THEN Len(rows) ELSE idx

\* The row a frame would highlight.
Highlighted ==
  LET rows == ShownRows IN
  IF rows = << >> THEN None
  ELSE IF pane \in ById THEN rows[IdRow(rows)] ELSE rows[ClampedRow(rows)]

\* Mutated: the row of the list, and not of the shown rows, at the position of
\* the highlighted one.
Target_raw ==
  LET rows == ShownRows IN
  IF rows = << >> THEN None
  ELSE IF pane \in ById THEN list[IdRow(rows)] ELSE Highlighted

\* The row a key acts on: the position in My Trades is not clamped.
Target ==
  IF pane = "MyTrades" /\ idx \notin DOMAIN ShownRows THEN None ELSE Highlighted

-----------------------------------------------------------------------------
\* Background tasks, between any two steps of the main loop.

Background == UNCHANGED <<paneVars, shut, mode, asked, did, frame, turn, attachVars>>

\* A row arrives.  Trades are sorted by index, messages have the newest in
\* front (a message about a listed order moves its row), the others arrive
\* anywhere.
Arrives(i) ==
  LET rest == Only(list, Items \ {i}) IN
  /\ pane # "DisputesInProgress"
  /\ i \in Rowable[pane]
  /\ pane = "Messages" \/ i \notin Range(list)
  /\ \E k \in 1 .. Len(list) + 1 :
       /\ pane = "Messages" => k = 1
       /\ pane = "MyTrades" => \A n \in DOMAIN list : n < k <=> list[n] > i
       /\ list' = InsertAt(rest, k, i)
  /\ UNCHANGED <<ended, stored>> /\ Background

\* A row goes: the listing expired or was taken, the dispute's event is gone,
\* the messages of the trade were dropped.
Leaves(i) ==
  /\ pane # "DisputesInProgress"
  /\ i \in Range(list)
  /\ list' = Only(list, Items \ {i})
  /\ UNCHANGED <<ended, stored>> /\ Background

\* The dispute's event has another status.
Ends(i) ==
  /\ pane \in {"DisputesPending", "DisputesInProgress"}
  /\ i \in Rowable[pane] \ ended
  /\ ended' = ended \cup {i}
  /\ UNCHANGED <<list, stored>> /\ Background

\* The reconciliation writes a closed dispute's status to its row.
Stores(i) ==
  /\ pane = "DisputesInProgress"
  /\ i \in (ended \cap Range(list)) \ stored
  /\ stored' = stored \cup {i}
  /\ UNCHANGED <<list, ended>> /\ Background

UploadTask ==
  /\ Task
  /\ UNCHANGED <<listVars, paneVars, shut, mode, asked, did, frame, turn>>

-----------------------------------------------------------------------------
\* Keys.

Key == turn = "input" /\ turn' = "settle" /\ UNCHANGED <<listVars, shut, frame, pane>>

\* What a key opens, sends or starts.
Does(what, i, m) ==
  /\ i # None
  /\ did' = [what |-> what, item |-> i, to |-> to]
  /\ mode' = m

\* Up and Down, from the row at `from` among `n`.
UpFrom(from, n) == IF from > 1 THEN from - 1 ELSE from
DownFrom(from, n) == IF from < n THEN from + 1 ELSE from

Move(StepFrom(_, _)) ==
  LET rows == ShownRows
      from == IF pane \in ById THEN IdRow(rows)
              ELSE IF pane = "Messages" THEN ClampedRow(rows) ELSE idx
      next == StepFrom(from, Len(rows))
  IN
  /\ Key /\ mode \in {Home, AdminNormal}
  /\ IF rows = << >>
       THEN /\ sel' = IF pane \in {"Orders", "DisputesPending"} THEN None ELSE sel
            /\ idx' = IF pane = "Messages" THEN 1 ELSE idx
       ELSE IF pane \in ById THEN sel' = rows[next] /\ UNCHANGED idx
                              ELSE idx' = next /\ UNCHANGED sel
  /\ UNCHANGED <<filtered, to, mode, asked, did, attachVars>>

handle_up_key == Move(UpFrom)
handle_down_key == Move(DownFrom)

Other(t) == CASE t = "Peer" -> "Solver" [] t = "Solver" -> "Peer"
              [] t = "Buyer" -> "Seller" [] OTHER -> "Buyer"

\* Tab: the other party of the dispute, in any mode that lets the key through;
\* the other channel of the trade, when it has one.
TabKey ==
  /\ Key /\ mode.name \notin {"Save", "Picker", "UserSave"}
  /\ \/ pane = "DisputesInProgress"
     \/ pane = "MyTrades" /\ Target \in WithSolver
  /\ to' = Other(to)
  /\ UNCHANGED <<filtered, sel, idx, mode, asked, did, attachVars>>

\* Shift+C in the disputes taken; a currency set or cleared in the settings.
Filter ==
  /\ Key
  /\ \/ pane = "DisputesInProgress" /\ mode.name # "Save" /\ sel' = None
     \/ pane = "Orders" /\ mode = Home /\ UNCHANGED sel
  /\ filtered' = ~filtered
  /\ UNCHANGED <<idx, to, mode, asked, did, attachVars>>

Steady == UNCHANGED <<filtered, sel, to, attachVars>>

\* Enter on a listing takes it or, when it is one's own, cancels it.
is_my_pending_book_order(i) == i \in Mine

EnterOrder ==
  /\ Key /\ mode = Home /\ pane = "Orders"
  /\ Does(IF is_my_pending_book_order(Target) THEN "Cancel" ELSE "Take", Target, Asking)
  /\ Steady /\ UNCHANGED <<idx, asked>>

EnterPendingDispute ==
  /\ Key /\ mode = Home /\ pane = "DisputesPending"
  /\ Does("TakeDispute", Target, Asking)
  /\ Steady /\ UNCHANGED <<idx, asked>>

\* Enter on a message, to answer it or to read it.
EnterMessage ==
  /\ Key /\ mode = Home /\ pane = "Messages"
  /\ Does("Ask", Target, Asking) \/ Does("Read", Target, Popup)
  /\ idx' = ClampedRow(ShownRows)
  /\ Steady /\ UNCHANGED asked

\* Enter on typed text: kept in the transcript and sent by a task.
EnterChat ==
  /\ Key /\ mode = Home
  /\ pane \in {"DisputesInProgress", "MyTrades"}
  /\ Does("Send", Target, mode)
  /\ Steady /\ UNCHANGED <<idx, asked>>

\* A trade's transcript could not be written: nothing is sent.
EnterChatFails ==
  /\ Key /\ mode = Home /\ pane = "MyTrades" /\ Target # None
  /\ mode' = Popup
  /\ Steady /\ UNCHANGED <<idx, asked, did>>

\* Shift+F on a dispute, its Enter and Esc.  What is finalized is what the
\* popup was opened for.
Review ==
  /\ Key /\ mode = Home /\ pane = "DisputesInProgress"
  /\ Does("Review", Target, [name |-> "Reviewing", item |-> Target])
  /\ Steady /\ UNCHANGED <<idx, asked>>

EnterReview ==
  /\ Key /\ mode.name = "Reviewing"
  /\ mode' = IF mode.item \in shut THEN Popup ELSE [mode EXCEPT !.name = "ConfirmFinalize"]
  /\ Steady /\ UNCHANGED <<idx, asked, did>>

Finalize ==
  /\ Key /\ mode.name = "ConfirmFinalize"
  /\ Does("Finalize", mode.item, [name |-> "Waiting", item |-> None])
  /\ asked' = asked \cup {mode.item}
  /\ Steady /\ UNCHANGED idx

BackToReview ==
  /\ Key /\ mode.name = "ConfirmFinalize"
  /\ mode' = [mode EXCEPT !.name = "Reviewing"]
  /\ Steady /\ UNCHANGED <<idx, asked, did>>

\* Ctrl+S, when there are files: of a dispute the popup is not about one
\* dispute, and its Enter saves from the one highlighted by then; of a trade
\* the popup names it.
OpenSave ==
  /\ Key /\ mode = Home
  /\ \/ /\ pane = "DisputesInProgress"
        /\ Does("Open", Target, [name |-> "Save", item |-> None])
     \/ /\ pane = "MyTrades" /\ to = "Peer"
        /\ Does("Open", Target, [name |-> "UserSave", item |-> Target])
  /\ Steady /\ UNCHANGED <<idx, asked>>

EnterSave ==
  /\ Key
  /\ \/ mode.name = "Save" /\ Does("Save", Target, Home)
     \/ mode.name = "UserSave" /\ Does("UserSave", mode.item, Home)
  /\ Steady /\ UNCHANGED <<idx, asked>>

\* Ctrl+O, Ctrl+Shift+O and Enter on a file of the picker.
OpenPicker ==
  /\ Key /\ mode = Home /\ pane = "MyTrades" /\ to = "Peer"
  /\ sending = None
  /\ Does("Open", Target, [name |-> "Picker", item |-> Target])
  /\ Steady /\ UNCHANGED <<idx, asked>>

PickFile ==
  /\ Key /\ mode.name = "Picker"
  /\ FromPath(mode.item)
  /\ mode' = Home
  /\ UNCHANGED <<filtered, sel, to, idx, asked, did>>

RetryFile ==
  /\ Key /\ mode = Home /\ pane = "MyTrades" /\ to = "Peer"
  /\ Does("Retry", Target, mode)
  /\ RetryPrepared(Target)
  /\ UNCHANGED <<filtered, sel, to, idx, asked>>

\* Shift+C, F, R, D on a trade need the normal mode; Shift+V and Delete replace
\* whatever mode lets the key through.
AskTrade ==
  /\ Key /\ mode = Home /\ pane = "MyTrades"
  /\ Does("Ask", Target, Asking)
  /\ Steady /\ UNCHANGED <<idx, asked>>

RateTrade ==
  /\ Key /\ pane = "MyTrades" /\ mode.name \notin {"Picker", "UserSave"}
  /\ Does("Rate", Target, Asking)
  /\ Steady /\ UNCHANGED <<idx, asked>>

DeleteTrade ==
  /\ Key /\ pane = "MyTrades" /\ mode.name \notin {"Picker", "UserSave"}
  /\ Does("Delete", Target, [name |-> "ConfirmDelete", item |-> Target])
  /\ Steady /\ UNCHANGED <<idx, asked>>

ConfirmDelete ==
  /\ Key /\ mode.name = "ConfirmDelete"
  /\ Does("Deleting", mode.item, Popup)
  /\ asked' = asked \cup {mode.item}
  /\ Steady /\ UNCHANGED idx

\* Enter or Esc ends any other popup.  Enter while a finalization is awaited
\* leaves the tab without its keys until it is entered again or a result comes.
Close ==
  /\ Key /\ mode # Home /\ mode.name # "ConfirmFinalize"
  /\ mode' = IF mode.name = "Waiting" THEN AdminNormal ELSE Home
  /\ Steady /\ UNCHANGED <<idx, asked, did>>

KeyStep ==
  \/ handle_up_key \/ handle_down_key \/ TabKey \/ Filter
  \/ EnterOrder \/ EnterPendingDispute \/ EnterMessage \/ EnterChat \/ EnterChatFails
  \/ Review \/ EnterReview \/ Finalize \/ BackToReview \/ OpenSave \/ EnterSave
  \/ OpenPicker \/ PickFile \/ RetryFile
  \/ AskTrade \/ RateTrade \/ DeleteTrade \/ ConfirmDelete \/ Close

-----------------------------------------------------------------------------
\* The rest of the main loop.

\* The timer.
Idle ==
  /\ turn = "input" /\ turn' = "settle"
  /\ UNCHANGED <<listVars, paneVars, shut, mode, asked, did, frame, attachVars>>

\* A chat update with a file in a dispute selects that dispute and that party.
FileArrives(i) ==
  /\ turn = "input" /\ turn' = "settle"
  /\ pane = "DisputesInProgress" /\ i \in Range(list)
  /\ sel' = i /\ to' \in {"Buyer", "Seller"}
  /\ UNCHANGED <<pane, filtered, idx, listVars, shut, mode, asked, did, frame, attachVars>>

\* Results are taken as an event or from the queue before the frame.
Result ==
  /\ turn \in {"input", "draw"}
  /\ turn' = IF turn = "input" THEN "settle" ELSE turn
  /\ mode' = Popup
  /\ UNCHANGED <<pane, filtered, to, ended, did, frame>>

\* A dispute was taken, or one was finalized: the rows are read again, the
\* latest taken first, with their stored status.
DisputeResult ==
  /\ Result /\ pane = "DisputesInProgress"
  /\ \/ \E i \in Rowable[pane] \ Range(list) : list' = <<i>> \o list /\ UNCHANGED <<asked, stored>>
     \/ \E i \in asked : asked' = asked \ {i} /\ stored' = stored \cup {i} /\ UNCHANGED list
  /\ shut' = stored'
  /\ UNCHANGED <<sel, idx, attachVars>>

\* A finalization failed or any other result came.
OtherResult ==
  /\ Result
  /\ \/ \E i \in asked : asked' = asked \ {i}
     \/ asked' = asked
  /\ UNCHANGED <<list, stored, shut, sel, idx, attachVars>>

\* The history of a trade was deleted: its row goes and the position is clamped.
DeleteResult(i) ==
  /\ Result /\ pane = "MyTrades" /\ i \in asked
  /\ asked' = asked \ {i}
  /\ list' = Only(list, Items \ {i})
  /\ idx' = IF list' = << >> THEN 1 ELSE IF idx > Len(list') THEN Len(list') ELSE idx
  /\ UNCHANGED <<stored, shut, sel, attachVars>>

UploadResult(job) ==
  /\ Result
  /\ AttachmentResult(job)
  /\ UNCHANGED <<list, stored, shut, sel, idx, asked>>

\* Mutated: only a dispute that is selected by its id stays.
Retained_selected(closed) == sel

\* The highlighted dispute that was just closed stays selected.
Retained(closed) == IF Highlighted \in closed THEN Highlighted ELSE sel

\* The selections are repaired, and the relay's verdicts copied to the disputes
\* in memory.
Settle ==
  /\ turn = "settle" /\ turn' = "draw"
  /\ LET closed == IF pane = "DisputesInProgress" THEN (ended \cap Range(list)) \ shut ELSE {} IN
     /\ shut' = shut \cup closed
     /\ sel' = CASE pane = "Orders" -> IF sel \in Range(list) THEN sel ELSE None
                 [] pane = "DisputesPending" -> Highlighted
                 [] pane = "DisputesInProgress" -> Retained(closed)
                 [] OTHER -> sel
  /\ did' = Nothing
  /\ UNCHANGED <<listVars, pane, filtered, idx, to, mode, asked, frame, attachVars>>

\* Drawing a trade without solver goes back to the channel of its peer.
DrawnChannel ==
  IF pane = "MyTrades" /\ list # << >> /\ Highlighted \notin WithSolver THEN "Peer" ELSE to

\* Drawing the messages, and many handlers, clamp their position.
strip_new_order_messages_and_clamp_selected ==
  IF pane = "Messages" /\ idx > Len(list) THEN IF list = << >> THEN 1 ELSE Len(list) ELSE idx

\* The frame.
Draw ==
  /\ turn = "draw" /\ turn' = "input"
  /\ to' = DrawnChannel
  /\ idx' = strip_new_order_messages_and_clamp_selected
  /\ frame' = [rows |-> ShownRows, at |-> Highlighted, to |-> to', byId |-> sel = Highlighted]
  /\ UNCHANGED <<listVars, pane, shut, filtered, sel, mode, asked, did, attachVars>>

-----------------------------------------------------------------------------
Init ==
  /\ pane \in Panes
  /\ list = << >> /\ ended = {} /\ stored = {} /\ shut = {}
  /\ filtered = FALSE /\ sel = None /\ idx = 1
  /\ to = IF pane = "DisputesInProgress" THEN "Buyer" ELSE "Peer"
  /\ mode = Home /\ asked = {} /\ did = Nothing
  /\ frame = [rows |-> << >>, at |-> None, to |-> to, byId |-> TRUE]
  /\ turn = "input"
  /\ NoAttachments

Next ==
  \/ \E i \in Items : Arrives(i) \/ Leaves(i) \/ Ends(i) \/ Stores(i)
  \/ UploadTask
  \/ KeyStep
  \/ Idle \/ \E i \in Items : FileArrives(i)
  \/ DisputeResult \/ OtherResult \/ \E i \in Items : DeleteResult(i)
  \/ \E job \in jobs : UploadResult(job)
  \/ Settle \/ Draw

Spec == Init /\ [][Next]_vars

-----------------------------------------------------------------------------
(* Properties.                                                             *)

\* What a key opens, sends or starts for a row is about the row that the last
\* frame highlighted, and a message goes to the party the frame named, when the
\* shown rows are still the same, and when the highlighted row was selected by
\* its id also when rows came and went around it.  (disputes: never a row the
\* filter hides, handlers and sidebar agree on the projection.)
ActsOnShown ==
  [][did' \in {Nothing, did} \/ did'.what \in {"Finalize", "UserSave", "Deleting"}
     \/ /\ ShownRows = frame.rows => did'.item = frame.at
        /\ pane \in ById /\ frame.byId /\ frame.at \in Range(ShownRows) => did'.item = frame.at
        /\ did'.to = frame.to]_vars

\* What the main loop does by itself never moves the highlight off the row of a
\* dispute that is open or being looked at: not the repairs of the selections,
\* when the relay closes the dispute that is selected or only shown first, and
\* not the rows read again, when the dispute is selected.
HighlightStays ==
  [][(Settle \/ (DisputeResult /\ sel = Highlighted)) /\ ~filtered /\ Highlighted # None
     => Highlighted' = Highlighted]_vars

=============================================================================
