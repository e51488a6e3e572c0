---------------------------- MODULE TradeDmProofs ----------------------------
(***************************************************************************)
(* What holds of the trade-DM listener for every conversation, every bound *)
(* on restarts, respawns and undelivered messages; and, first, what the    *)
(* status guard it stores by makes of any stream of candidates.            *)
(***************************************************************************)
EXTENDS TradeCard, StatusHistory, SequenceTheorems, TLAPS

-----------------------------------------------------------------------------
(* The status guard is a preorder on the statuses whose only exits from a  *)
(* terminal status are to itself, and a stored status it protects never    *)
(* returns to a phase it has left.                                         *)

\* A position in the life of a trade is a small integer, or unknown.
LEMMA RankType ==
  ASSUME NEW s, NEW k
  PROVE  status_phase_rank_for_actor(s, k) \in -1 .. 5
  BY DEF status_phase_rank_for_actor, FirstPhase, NoRank

\* The guard composes: what may be reached through an intermediate status may
\* be reached directly (should_apply_status_transition).
THEOREM TransitionTransitive ==
  ASSUME NEW k, NEW a, NEW b \in Statuses, NEW c,
         should_apply_status_transition(a, b, k),
         should_apply_status_transition(b, c, k)
  PROVE  should_apply_status_transition(a, c, k)
<1>1. b # NoStatus
  BY DEF Statuses, TerminalTradeStatuses, PreActiveStatuses, NoStatus
<1>2. CASE a = NoStatus \/ a = b \/ b = c
  BY <1>1, <1>2 DEF should_apply_status_transition
<1>3. CASE ~(a = NoStatus \/ a = b \/ b = c)
  <2>1. ~is_terminal_trade_status(a) /\ ~is_terminal_trade_status(b)
    BY <1>1, <1>3 DEF should_apply_status_transition
  <2>2. RankAllows(a, b, k)
    BY <1>3, <2>1 DEF should_apply_status_transition
  <2>3. CASE is_terminal_trade_status(c)
    BY <2>1, <2>3 DEF should_apply_status_transition
  <2>4. CASE RankAllows(b, c, k)
    <3>1. RankAllows(a, c, k)
      BY <2>2, <2>4, RankType DEF RankAllows
    <3> QED BY <2>1, <3>1 DEF should_apply_status_transition
  <2> QED BY <1>1, <1>3, <2>3, <2>4 DEF should_apply_status_transition
<1> QED BY <1>2, <1>3

\* A terminal status is never replaced by a different one.
THEOREM TerminalIsFinal ==
  ASSUME NEW k, NEW s \in TerminalTradeStatuses, NEW c,
         should_apply_status_transition(s, c, k)
  PROVE  c = s
  BY DEF should_apply_status_transition, is_terminal_trade_status, TerminalTradeStatuses, NoStatus

\* Between two phases whose positions are known, the guard never goes back,
\* except to a terminal status.
THEOREM NoEarlierPhase ==
  ASSUME NEW k, NEW a \in Statuses, NEW c,
         should_apply_status_transition(a, c, k),
         status_phase_rank_for_actor(a, k) # NoRank,
         c \notin TerminalTradeStatuses
  PROVE  status_phase_rank_for_actor(c, k) >= status_phase_rank_for_actor(a, k)
<1>1. a # NoStatus
  BY DEF Statuses, TerminalTradeStatuses, PreActiveStatuses, NoStatus
<1>2. CASE a = c  BY <1>2, RankType
<1>3. CASE RankAllows(a, c, k)  BY <1>3 DEF RankAllows
<1> QED BY <1>1, <1>2, <1>3 DEF should_apply_status_transition, is_terminal_trade_status

-----------------------------------------------------------------------------

\* The variables of the stored status keep their types.
THEOREM HistoryTyped == HistorySpec => []HistoryTypeOK
<1>1. HistoryInit => HistoryTypeOK  BY MaxWritesAssumption DEF HistoryInit, HistoryTypeOK
<1>2. HistoryTypeOK /\ [HistoryNext]_historyVars => HistoryTypeOK'
  <2> SUFFICES ASSUME HistoryTypeOK, [HistoryNext]_historyVars PROVE HistoryTypeOK'
    OBVIOUS
  <2>1. ASSUME NEW c \in Statuses, Offer(c) PROVE HistoryTypeOK'
    BY <2>1, MaxWritesAssumption DEF Offer, HistoryTypeOK
  <2>2. CASE UNCHANGED historyVars
    BY <2>2 DEF historyVars, HistoryTypeOK
  <2> QED BY <2>1, <2>2 DEF HistoryNext
<1> QED BY <1>1, <1>2, PTL DEF HistorySpec

\* What was stored last is part of the history, which holds statuses only.
HistoryIsTyped ==
  /\ past \subseteq Statuses
  /\ past # {} => current \in past

\* For every number of candidates and in every order they may come, whatever
\* was stored earlier could have led directly to what is stored now.
THEOREM HistoryForward == HistorySpec => [](HistoryIsTyped /\ HistoryOnlyMovesForward)
<1>1. HistoryInit => HistoryIsTyped /\ HistoryOnlyMovesForward
  BY DEF HistoryInit, HistoryIsTyped, HistoryOnlyMovesForward
<1>2. ASSUME HistoryIsTyped, HistoryOnlyMovesForward, [HistoryNext]_historyVars
      PROVE  HistoryIsTyped' /\ HistoryOnlyMovesForward'
  <2>1. ASSUME NEW c \in Statuses, Offer(c)
        PROVE  HistoryIsTyped' /\ HistoryOnlyMovesForward'
    <3>1. HistoryIsTyped'
      BY <1>2, <2>1 DEF Offer, HistoryIsTyped
    <3>2. ASSUME NEW s \in past' PROVE should_apply_status_transition(s, c, kind)
      <4>1. CASE s = c
        BY <4>1 DEF should_apply_status_transition
      <4>2. CASE s \in past
        <5>1. current \in Statuses
          BY <1>2, <4>2 DEF HistoryIsTyped
        <5>2. should_apply_status_transition(s, current, kind)
          BY <1>2, <4>2 DEF HistoryOnlyMovesForward
        <5>3. should_apply_status_transition(current, c, kind)
          BY <2>1 DEF Offer
        <5> QED BY <5>1, <5>2, <5>3, TransitionTransitive
      <4> QED BY <2>1, <4>1, <4>2 DEF Offer
    <3> QED BY <2>1, <3>1, <3>2 DEF HistoryOnlyMovesForward, Offer
  <2>2. CASE UNCHANGED historyVars
    BY <1>2, <2>2 DEF historyVars, HistoryIsTyped, HistoryOnlyMovesForward
  <2> QED BY <1>2, <2>1, <2>2 DEF HistoryNext
<1> QED BY <1>1, <1>2, PTL DEF HistorySpec

\* A terminal outcome, once stored, is the one stored for good.
THEOREM OutcomeStays == HistorySpec => []OutcomeIsFinal
<1>1. HistoryIsTyped /\ HistoryOnlyMovesForward => OutcomeIsFinal
  BY TerminalIsFinal DEF HistoryIsTyped, HistoryOnlyMovesForward, OutcomeIsFinal
<1> QED BY <1>1, HistoryForward, PTL

-----------------------------------------------------------------------------
(* Types.                                                                  *)

\* A message referred to by a valid index is a direct message.
LEMMA DmTyped ==
  ASSUME trade \in Trades, published \in 0 .. Len(trade.dms), NEW i \in 1 .. published
  PROVE  trade.dms[i] \in Dms
  BY TradesAssumption DEF TradeType

\* The conversation itself is of the declared type.
LEMMA TradeTyped ==
  ASSUME trade \in Trades
  PROVE  /\ trade.dms \in Seq(Dms) /\ Len(trade.dms) \in Nat
         /\ trade.kind \in Kinds /\ trade.maker \in BOOLEAN
         /\ trade.saved \in Statuses /\ trade.early \in Nat
         /\ trade.reply \in {"created", "addInvoice", "payment"}
  BY TradesAssumption DEF TradeType

LEMMA NowTyped ==
  ASSUME TypeOK
  PROVE  Now \in Nat
<1>1. CASE published = 0  BY <1>1 DEF Now
<1>2. CASE published # 0
  <2>1. published \in 1 .. published
    BY <1>2, TradeTyped DEF TypeOK
  <2>2. trade.dms[published] \in Dms
    BY <2>1, DmTyped DEF TypeOK
  <2> QED BY <1>2, <2>2 DEF Now, Dms
<1> QED BY <1>1, <1>2

\* What the listener handles is a direct message.
LEMMA HandledTyped ==
  ASSUME TypeOK, pc # "idle"
  PROVE  dm \in Dms
  BY DmTyped, TradeTyped DEF TypeOK, dm

LEMMA CandidateTyped ==
  ASSUME NEW d \in Dms
  PROVE  resolved_status_candidate(d) \in StatusOpt
  BY DEF resolved_status_candidate, map_action_to_status, inferred_status_from_trade_action,
         StatusOpt, Statuses, TerminalTradeStatuses, PreActiveStatuses, Dms, NoStatus


LEMMA SavedRowTyped ==
  ASSUME TypeOK, NEW s \in StatusOpt, NEW m \in BOOLEAN
  PROVE  SavedRow(s, m) \in Rows
  BY NowTyped DEF SavedRow, Rows

\* Each update of a row the listener makes leaves a row.
LEMMA RowUpdates ==
  ASSUME NEW r \in Rows
  PROVE  /\ \A s \in StatusOpt : [r EXCEPT !.status = s] \in Rows
         /\ \A t \in Nat : [r EXCEPT !.seen = t] \in Rows
         /\ \A p, q \in BOOLEAN : [r EXCEPT !.dispute = p, !.solver = q] \in Rows
         /\ \A d \in Dms : build_order_from_small_order(d, r) \in Rows
<1>1. ASSUME NEW d \in Dms PROVE build_order_from_small_order(d, r) \in Rows
  <2>1. (d.peer \/ r.peer) \in BOOLEAN /\ d.status \in StatusOpt
    BY DEF Dms, Rows
  <2>2. \A s \in StatusOpt, p \in BOOLEAN : [r EXCEPT !.status = s, !.peer = p] \in Rows
    BY DEF Rows
  <2> QED BY <2>1, <2>2 DEF build_order_from_small_order
<1> QED BY <1>1 DEF Rows

\* Locals of handle_trade_dm_for_order.
LEMMA LocalsTyped ==
  ASSUME TypeOK, pc # "idle"
  PROVE  /\ effective_order_kind \in Kinds \cup {NoKind}
         /\ status_candidate \in StatusOpt
         /\ status_from_db \in StatusOpt
         /\ baseline_status \in StatusOpt
         /\ StatusToWrite \in StatusOpt
         /\ order_message \in Msgs
<1> USE DEF StatusOpt
<1>1. dm \in Dms /\ trade.kind \in Kinds
  BY HandledTyped, TradeTyped DEF TypeOK
<1>2. snap \in Rows \cup {NoRow} /\ prior \in Msgs \cup {NoMsg} /\ row \in Rows \cup {NoRow}
  BY DEF TypeOK
<1>3. effective_order_kind \in Kinds \cup {NoKind}
  BY <1>1, <1>2 DEF effective_order_kind, Msgs, Kinds
<1>4. status_candidate \in StatusOpt
  BY <1>1, CandidateTyped DEF status_candidate
<1>5. status_from_db \in StatusOpt
  BY <1>2 DEF status_from_db, Rows
<1>6. baseline_status \in StatusOpt
  BY <1>2, <1>5 DEF baseline_status, Msgs
<1>7. StatusToWrite \in StatusOpt
  BY <1>4, <1>5 DEF StatusToWrite
<1>8. effective_order_status \in StatusOpt
  BY <1>4, <1>6 DEF effective_order_status
<1>9. effective_is_mine \in {"maker", "taker", "unknown"}
  BY <1>2 DEF effective_is_mine, Msgs
<1>10. /\ (dm.payload \in {"invoice", "invoiceOrder"} \/ (prior # NoMsg /\ prior.invoice)) \in BOOLEAN
       /\ (prior # NoMsg /\ prior.popup /\ prior.action = dm.action) \in BOOLEAN
  OBVIOUS
<1>11. dm.ts \in Nat /\ dm.action \in Actions
  BY <1>1 DEF Dms
<1>12. order_message \in Msgs
  BY <1>3, <1>8, <1>9, <1>10, <1>11 DEF order_message, Msgs
<1> QED BY <1>3, <1>4, <1>5, <1>6, <1>7, <1>12

LEMMA InitTyped == ASSUME Init PROVE TypeOK
<1>1. trade.dms \in Seq(Dms) /\ Len(trade.dms) \in Nat /\ trade.maker \in BOOLEAN
  BY TradeTyped DEF Init
<1>2. notes \in Seq(1 .. published)
  BY DEF Init
<1>3. tracked \in BOOLEAN /\ published \in 0 .. Len(trade.dms) /\ cur \in 0 .. published
  BY <1>1 DEF Init
<1>4. restarts \in 0 .. MaxRestarts /\ reloads \in 0 .. MaxReloads
  BY BoundsAssumption DEF Init
<1> QED BY <1>2, <1>3, <1>4 DEF Init, TypeOK, Pcs, NoTs

\* Starting to handle a published message, and being done with it.
LEMMA StartTyped ==
  ASSUME TypeOK, NEW i \in 1 .. published, NEW b \in BOOLEAN, StartHandling(i, b)
  PROVE  /\ pc' \in Pcs /\ cur' \in 1 .. published /\ notify' \in BOOLEAN
         /\ snap' = NoRow /\ base' = NoRow /\ prior' = NoMsg
         /\ before' \in Rows \cup {NoRow} /\ handled' \subseteq 1 .. published
  BY DEF TypeOK, StartHandling, Pcs

LEMMA HandlingTyped ==
  ASSUME TypeOK, Handling
  PROVE  TypeOK'
<1> USE DEF TypeOK, Goto, world, ui, locals, history
<1>1. pc # "idle"
  BY DEF Handling, NewOrderLookup, DropTake, Forget, RevertStatus, SaveChild, ReadForUpsert,
         WriteUpsert, Snapshot, RecordDispute, TrackChat, StatusWrite, PublishRow,
         AdvanceCursor, Cleanup
<1>2. dm \in Dms /\ trade.kind \in Kinds
  BY <1>1, HandledTyped, TradeTyped
<1>3. CASE NewOrderLookup
  BY <1>1, <1>3 DEF NewOrderLookup, Pcs
<1>4. CASE DropTake
  BY <1>1, <1>4 DEF DropTake, Pcs
<1>5. CASE Forget
  BY <1>1, <1>5 DEF Forget, Pcs
<1>6. CASE RevertStatus
  <2>1. row' \in Rows \cup {NoRow}
    BY <1>6, RowUpdates DEF RevertStatus, StatusOpt, Statuses, PreActiveStatuses
  <2> QED BY <1>1, <1>6, <2>1 DEF RevertStatus, Pcs
<1>7. CASE SaveChild
  <2>1. row' \in Rows
    BY <1>7, SavedRowTyped DEF SaveChild, StatusOpt, Statuses, PreActiveStatuses
  <2>2. pc' = "seen" /\ inbox' \subseteq {"track", "result", "deleted"}
    BY <1>7 DEF SaveChild
  <2>3. UNCHANGED <<world, fresh, msg, ui, chats, tracked, dropped, flow, locals, history>>
    BY <1>7 DEF SaveChild
  <2> QED BY <1>1, <2>1, <2>2, <2>3 DEF Pcs
<1>8. ASSUME NEW from, NEW to \in Pcs \ {"idle"}, ReadForUpsert(from, to) PROVE TypeOK'
  BY <1>1, <1>8 DEF ReadForUpsert
<1>9. ASSUME NEW from, NEW to \in Pcs \ {"idle"}, WriteUpsert(from, to) PROVE TypeOK'
  <2>1. row' \in Rows \cup {NoRow}
    BY <1>2, <1>9, RowUpdates DEF WriteUpsert
  <2> QED BY <1>1, <1>9, <2>1 DEF WriteUpsert
<1>10. CASE Snapshot
  BY <1>1, <1>10 DEF Snapshot, Pcs
<1>11. CASE RecordDispute
  <2>1. row' \in Rows \cup {NoRow}
    <3> DEFINE announced == /\ dm.action \in {"DisputeInitiatedByYou", "DisputeInitiatedByPeer"}
                            /\ dm.payload = "dispute"
               taken == dm.action = "AdminTookDispute" /\ dm.payload = "solver"
    <3>1. row' = IF row = NoRow THEN NoRow
                 ELSE [row EXCEPT !.dispute = @ \/ announced, !.solver = @ \/ taken]
      BY <1>11 DEF RecordDispute
    <3>2. (row.dispute \/ announced) \in BOOLEAN /\ (row.solver \/ taken) \in BOOLEAN
      OBVIOUS
    <3> HIDE DEF announced, taken
    <3> QED BY <3>1, <3>2, RowUpdates
  <2>2. chats' \subseteq {"order", "dispute"}
    BY <1>11 DEF RecordDispute
  <2> QED BY <1>1, <1>11, <2>1, <2>2 DEF RecordDispute, Pcs
<1>12. CASE TrackChat
  BY <1>1, <1>12 DEF TrackChat, Pcs
<1>13. CASE StatusWrite
  <2>1. row' \in Rows \cup {NoRow}
    BY <1>1, <1>13, RowUpdates, LocalsTyped DEF StatusWrite
  <2> QED BY <1>1, <1>13, <2>1 DEF StatusWrite, Pcs
<1>14. CASE PublishRow
  <2>1. msg' \in Msgs \cup {NoMsg}
    BY <1>1, <1>14, LocalsTyped DEF PublishRow
  <2>2. notes' \in Seq(1 .. published)
    <3>1. cur \in 1 .. published
      BY <1>1, TradeTyped
    <3> QED BY <1>14, <3>1, AppendProperties DEF PublishRow
  <2> QED BY <1>1, <1>14, <2>1, <2>2 DEF PublishRow, Pcs
<1>15. CASE AdvanceCursor
  <2>1. row' \in Rows \cup {NoRow}
    BY <1>2, <1>15, RowUpdates DEF AdvanceCursor, Dms
  <2> QED BY <1>1, <1>15, <2>1 DEF AdvanceCursor, Pcs
<1>16. CASE Cleanup
  <2>1. chats' \subseteq {"order", "dispute"} /\ tracked' \in BOOLEAN /\ fresh' \subseteq 1 .. published
    BY <1>16 DEF Cleanup
  <2>2. cur' \in 0 .. published /\ handled' \subseteq 1 .. published
    BY <1>1, <1>16, TradeTyped DEF Cleanup, Finish
  <2> QED BY <1>1, <1>16, <2>1, <2>2 DEF Cleanup, Finish, Pcs
<1> QED BY <1>3, <1>4, <1>5, <1>6, <1>7, <1>8, <1>9, <1>10, <1>11, <1>12, <1>13, <1>14,
           <1>15, <1>16 DEF Handling, Pcs

\* The silent replay and the fresh subscription name published messages only.
LEMMA ListenerStartTyped ==
  ASSUME TypeOK, StartListener
  PROVE  /\ tracked' \in BOOLEAN /\ fresh' \subseteq 1 .. published
         /\ floor' \in Nat \cup {NoTs}
         /\ pc' \in Pcs /\ cur' \in 0 .. published /\ (pc' # "idle" => cur' # 0)
         /\ notify' \in BOOLEAN
         /\ snap' = NoRow /\ base' = NoRow /\ prior' = NoMsg
         /\ before' \in Rows \cup {NoRow} /\ handled' \subseteq 1 .. published
<1>1. published \in Nat
  BY TradeTyped DEF TypeOK
<1>2. tracked' \in BOOLEAN /\ floor' \in Nat \cup {NoTs}
  BY DEF StartListener, IsStartupActive, TypeOK, Rows
<1>3. fresh' \subseteq 1 .. published
  BY <1>1 DEF StartListener, Redelivered
<1>4. CASE Finish /\ UNCHANGED handled
  <2>1. pc' = "idle" /\ cur' = 0 /\ cur' \in 0 .. published /\ notify' = FALSE
    BY <1>1, <1>4 DEF Finish
  <2>2. snap' = NoRow /\ base' = NoRow /\ prior' = NoMsg /\ before' = NoRow
    BY <1>4 DEF Finish
  <2>3. handled' \subseteq 1 .. published
    BY <1>4 DEF TypeOK
  <2> QED BY <1>2, <1>3, <2>1, <2>2, <2>3 DEF Pcs
<1>5. ASSUME NEW i \in 1 .. published, StartHandling(i, FALSE)
      PROVE  /\ pc' \in Pcs /\ cur' \in 1 .. published /\ notify' \in BOOLEAN
             /\ snap' = NoRow /\ base' = NoRow /\ prior' = NoMsg
             /\ before' \in Rows \cup {NoRow} /\ handled' \subseteq 1 .. published
  BY <1>5, StartTyped
<1>6. CASE \E i \in 1 .. published : StartHandling(i, FALSE)
  <2>1. PICK i \in 1 .. published : StartHandling(i, FALSE)
    BY <1>6
  <2>2. /\ pc' \in Pcs /\ cur' \in 1 .. published /\ notify' \in BOOLEAN
        /\ snap' = NoRow /\ base' = NoRow /\ prior' = NoMsg
        /\ before' \in Rows \cup {NoRow} /\ handled' \subseteq 1 .. published
    BY <2>1, <1>5
  <2>3. cur' \in 0 .. published /\ cur' # 0
    BY <1>1, <2>2
  <2> QED BY <1>2, <1>3, <2>2, <2>3
<1> QED BY <1>4, <1>6 DEF StartListener

\* Messages rows made outside the listener.
LEMMA OutsideRowsTyped ==
  ASSUME TypeOK
  PROVE  /\ \A r \in Rows : db_order_to_history_message(r) \in Msgs
         /\ \A a \in Actions, b \in BOOLEAN : ResultRow(a, b) \in Msgs
         /\ \A m \in Msgs : [m EXCEPT !.popup = TRUE] \in Msgs
<1>1. trade.kind \in Kinds /\ trade.saved \in StatusOpt
  BY TradeTyped DEF TypeOK, StatusOpt
<1>2. ASSUME NEW r \in Rows PROVE db_order_to_history_message(r) \in Msgs
  <2>1. (r.status \notin {"WaitingBuyerInvoice", "WaitingMakerBond", "WaitingTakerBond"}) \in BOOLEAN
    OBVIOUS
  <2>2. (IF r.seen # NoTs THEN r.seen ELSE r.created) \in Nat /\ r.status \in StatusOpt
    BY DEF Rows
  <2>3. (IF ~r.mine THEN IF trade.kind = "buy" THEN "TakeBuy" ELSE "TakeSell"
         ELSE IF r.status = "WaitingMakerBond" THEN "PayBondInvoice" ELSE "NewOrder") \in Actions
    BY DEF Actions
  <2> QED BY <1>1, <2>1, <2>2, <2>3 DEF db_order_to_history_message, Msgs
<1>3. ASSUME NEW a \in Actions, NEW b \in BOOLEAN PROVE ResultRow(a, b) \in Msgs
  BY <1>1, NowTyped DEF ResultRow, Msgs
<1>4. ASSUME NEW m \in Msgs PROVE [m EXCEPT !.popup = TRUE] \in Msgs
  BY DEF Msgs
<1> QED BY <1>2, <1>3, <1>4

LEMMA StepTyped ==
  ASSUME TypeOK, [Next]_vars
  PROVE  TypeOK'
<1> USE DEF TypeOK, world, ui, locals, history, listener
<1>1. published \in Nat /\ Len(trade.dms) \in Nat
  BY TradeTyped
<1>2. CASE Handling
  BY <1>2, HandlingTyped
<1>3. CASE TrackOrder
  BY <1>3 DEF TrackOrder
<1>4. ASSUME NEW i \in fresh, Receive(i) PROVE TypeOK'
  <2>1. CASE dropped
    BY <1>4, <2>1 DEF Receive
  <2>2. CASE ~dropped
    <3>1. i \in 1 .. published
      BY <1>4
    <3>2. StartHandling(i, TRUE)
      BY <1>4, <2>2 DEF Receive
    <3>3. /\ pc' \in Pcs /\ cur' \in 1 .. published /\ notify' \in BOOLEAN
          /\ snap' = NoRow /\ base' = NoRow /\ prior' = NoMsg
          /\ before' \in Rows \cup {NoRow} /\ handled' \subseteq 1 .. published
      BY <3>1, <3>2, StartTyped
    <3> QED BY <1>1, <1>4, <3>3 DEF Receive
  <2> QED BY <2>1, <2>2
<1>5. CASE Publish
  <2>1. published' \in 1 .. Len(trade.dms) /\ published' = published + 1
    BY <1>1, <1>5 DEF Publish
  <2>2. fresh' \subseteq 1 .. published' /\ opened \subseteq (1 .. published') \X StatusOpt
          /\ handled \subseteq 1 .. published' /\ cur \in 0 .. published'
    BY <1>1, <1>5, <2>1 DEF Publish
  <2>3. notes \in Seq(1 .. published')
    BY <1>1, <2>1, SeqMonotonic
  <2> QED BY <1>5, <2>1, <2>2, <2>3 DEF Publish
<1>6. CASE SaveOrder
  <2>1. row' \in Rows
    BY <1>6, SavedRowTyped, TradeTyped DEF SaveOrder, StatusOpt
  <2>2. flow' \in {"done", "untracked"} /\ inbox' \subseteq {"track", "result", "deleted"}
    BY <1>6 DEF SaveOrder
  <2>3. UNCHANGED <<world, fresh, msg, ui, chats, tracked, dropped, listener>>
    BY <1>6 DEF SaveOrder
  <2> QED BY <2>1, <2>2, <2>3
<1>7. CASE ShowResult
  <2>1. msg' \in Msgs \cup {NoMsg}
    <3>1. \A b \in BOOLEAN : ResultRow("NewOrder", b) \in Msgs /\ ResultRow("AddInvoice", b) \in Msgs
      BY OutsideRowsTyped DEF Actions
    <3> QED BY <1>7, <3>1, OutsideRowsTyped, TradeTyped DEF ShowResult
  <2>2. inbox' \subseteq inbox
    BY <1>7 DEF ShowResult
  <2>3. UNCHANGED <<world, fresh, row, ui, chats, tracked, dropped, flow, listener>>
    BY <1>7 DEF ShowResult
  <2> QED BY <2>1, <2>2, <2>3
<1>8. CASE HandleNotification
  <2>1. Head(notes) \in 1 .. published /\ Tail(notes) \in Seq(1 .. published)
    BY <1>8, HeadTailProperties DEF HandleNotification
  <2>2. opened' \subseteq (1 .. published) \X StatusOpt
    <3>1. msg # NoMsg => <<Head(notes), msg.status>> \in (1 .. published) \X StatusOpt
      BY <2>1 DEF Msgs
    <3>2. opened' = opened \/ (msg # NoMsg /\ opened' = opened \cup {<<Head(notes), msg.status>>})
      BY <1>8 DEF HandleNotification
    <3> QED BY <3>1, <3>2
  <2>3. /\ msg' \in Msgs \cup {NoMsg}
        /\ reopened' \in BOOLEAN /\ panicked' \in BOOLEAN
    BY <1>8, OutsideRowsTyped DEF HandleNotification
  <2> QED BY <1>8, <2>1, <2>2, <2>3 DEF HandleNotification
<1>9. CASE Restart
  <2>1. msg' \in Msgs \cup {NoMsg}
    BY <1>9, OutsideRowsTyped DEF Restart
  <2>2. chats' \subseteq {"order", "dispute"}
    BY <1>9 DEF Restart, track_startup_chats
  <2>3. notes' \in Seq(1 .. published) /\ opened' = {} /\ reopened' = FALSE /\ panicked' = FALSE
    BY <1>9 DEF Restart
  <2>4. restarts' \in 0 .. MaxRestarts
    BY <1>9, BoundsAssumption DEF Restart
  <2>5. StartListener
    BY <1>9 DEF Restart
  <2>6. /\ flow' \in {"done", "untracked", "orphaned"} /\ inbox' = {} /\ dropped' = FALSE
        /\ UNCHANGED <<trade, published, reloads, row>>
    BY <1>9 DEF Restart
  <2> HIDE DEF world, ui, locals, history, listener
  <2> QED BY <2>1, <2>2, <2>3, <2>4, <2>5, <2>6, ListenerStartTyped
<1>10. CASE Reload
  <2>1. chats' \subseteq {"order", "dispute"} /\ dropped' \in BOOLEAN
    BY <1>10 DEF Reload, track_startup_chats
  <2>2. reloads' \in 0 .. MaxReloads
    BY <1>10, BoundsAssumption DEF Reload
  <2>3. StartListener
    BY <1>10 DEF Reload
  <2>4. /\ flow' \in {"saving", "detached", "done", "untracked", "orphaned"}
        /\ inbox' \subseteq inbox
        /\ UNCHANGED <<trade, published, restarts, row, msg, notes, opened, reopened, panicked>>
    BY <1>10 DEF Reload
  <2> HIDE DEF world, ui, locals, history, listener
  <2> QED BY <2>1, <2>2, <2>3, <2>4, ListenerStartTyped
<1>11. CASE DeleteOrder
  BY <1>11 DEF DeleteOrder
<1>12. CASE ForgetDeleted
  <2>1. msg' \in Msgs \cup {NoMsg}
    BY <1>12, OutsideRowsTyped DEF ForgetDeleted
  <2>2. inbox' \subseteq inbox /\ dropped' = TRUE
    BY <1>12 DEF ForgetDeleted
  <2>3. UNCHANGED <<world, fresh, row, ui, chats, tracked, flow, listener>>
    BY <1>12 DEF ForgetDeleted
  <2> QED BY <2>1, <2>2, <2>3
<1>13. CASE UNCHANGED vars
  BY <1>13 DEF vars
<1> QED BY <1>2, <1>3, <1>4, <1>5, <1>6, <1>7, <1>8, <1>9, <1>10, <1>11, <1>12, <1>13
        DEF Next, ListenerNext

\* The variables of the listener keep their types: in particular, indices of
\* messages (being handled, to be shown, shown) never run ahead of what Mostro
\* has published, and the listener never works on a message it does not have.
THEOREM TypeCorrect == Spec => []TypeOK
<1> QED BY InitTyped, StepTyped, PTL DEF Spec

-----------------------------------------------------------------------------
(* The inductive invariant.                                                *)

\* The reply of Mostro is not stored yet.
Awaited == flow \in {"saving", "detached"}

\* Until it is, there is no row, and no listing comes back to the book.
NothingStoredYet == Awaited => row = NoRow /\ published <= trade.early

\* The NewOrder special cases are for republished listings.
ListingPcs == {"lookup", "revertRead", "revertWrite", "revertStatus", "revertForget", "saveChild"}
ListingsOnly == pc \in ListingPcs => is_pending_listing(dm)

\* No Messages row has the wrong kind.
KindsAgree ==
  /\ msg # NoMsg => msg.kind \in {trade.kind, NoKind}
  /\ prior # NoMsg => prior.kind \in {trade.kind, NoKind}

\* While a message for a stored order is handled nobody else saves the row.
StoredBefore == pc # "idle" /\ before # NoRow => ~Awaited

\* The subscription a message came from lasts until its handling ends.
SubscribedWhileHandling == pc # "idle" => tracked

\* A row that appears while a message is handled is about to be tracked.
NewRowIsQueued ==
  pc # "idle" /\ flow = "done" /\ "track" \notin inbox /\ row # NoRow => before # NoRow

\* How far the handling of a message for a stored order has changed its row:
\* not at all, by the unguarded upsert, or for good.
RowUpserted ==
  \/ row.status = before.status
  \/ Upserts(dm) /\ row.status = dm.status

RowDecided ==
  /\ ~MayRegress(dm) => should_apply_status_transition(before.status, row.status, trade.kind)
  /\ trade_message_is_terminal(dm) => row.status \notin Statuses \ TerminalTradeStatuses

\* A row that is deleted meanwhile, by the listener or the user, stays so.
Progress ==
  before # NoRow /\ row # NoRow /\ ~is_pending_listing(dm) =>
    /\ pc = "snapshot" => row = before
    /\ pc # "forgetTake"
    /\ pc \in {"upsertRead", "upsertWrite"} => snap = before /\ row = before /\ Upserts(dm)
    /\ pc = "upsertWrite" => base = before
    /\ pc \in {"dispute", "trackChat", "statusWrite"} => snap = before /\ RowUpserted
    /\ pc \in {"publish", "seen", "cleanup"} => RowDecided

Control ==
  /\ NothingStoredYet /\ ListingsOnly /\ KindsAgree /\ StoredBefore
  /\ SubscribedWhileHandling /\ NewRowIsQueued

IInv == TypeOK /\ Control /\ Progress /\ LiveOrderIsTracked

LEMMA InitIInv == ASSUME Init PROVE IInv
<1>1. TypeOK
  BY InitTyped
<1>2. trade.early \in Nat
  BY TradeTyped DEF Init
<1>3. Control
  BY <1>2 DEF Init, Control, Awaited, NothingStoredYet, ListingPcs, ListingsOnly, KindsAgree,
              StoredBefore, SubscribedWhileHandling, NewRowIsQueued
<1>4. Progress /\ LiveOrderIsTracked
  BY DEF Init, Progress, LiveOrderIsTracked
<1> QED BY <1>1, <1>3, <1>4 DEF IInv

\* The guard on a message that ends the trade always ends in a stored end.
LEMMA TerminalCandidate ==
  ASSUME TypeOK, pc # "idle", trade_message_is_terminal(dm)
  PROVE  status_candidate \in TerminalTradeStatuses
<1>1. dm \in Dms /\ cur \in 1 .. Len(trade.dms) /\ trade \in Trades
  BY HandledTyped, TradeTyped DEF TypeOK
<1>2. /\ dm.action \in ClosingActions /\ small_order_ref_from_payload(dm)
           => dm.status \in TerminalTradeStatuses
      /\ dm.action = "CantDo" => dm.payload # "order"
  BY <1>1, ClosingOrderHasEnded DEF dm
<1>3. CASE dm.action \in ClosingActions /\ small_order_ref_from_payload(dm)
  BY <1>2, <1>3 DEF status_candidate, resolved_status_candidate, map_action_to_status,
     ClosingActions, TerminalTradeStatuses, NoStatus
<1>4. CASE dm.action \in ClosingActions /\ ~small_order_ref_from_payload(dm)
  BY <1>4 DEF status_candidate, resolved_status_candidate, inferred_status_from_trade_action,
     ClosingActions, TerminalTradeStatuses
<1>5. CASE dm.payload = "order" /\ is_terminal_trade_status(dm.status)
  <2>1. dm.action # "CantDo" /\ small_order_ref_from_payload(dm) /\ dm.status # NoStatus
    BY <1>2, <1>5 DEF small_order_ref_from_payload, is_terminal_trade_status,
       TerminalTradeStatuses, NoStatus
  <2> QED BY <1>5, <2>1 DEF status_candidate, resolved_status_candidate, map_action_to_status,
             is_terminal_trade_status
<1> QED BY <1>3, <1>4, <1>5 DEF trade_message_is_terminal

\* For a stored order the guard compares positions by the kind of the listing.
LEMMA KindKnown ==
  ASSUME TypeOK, KindsAgree, pc # "idle", snap # NoRow
  PROVE  effective_order_kind = trade.kind
<1>1. dm \in Dms
  BY HandledTyped
<1> QED BY <1>1 DEF effective_order_kind, KindsAgree, Dms

\* What the status step leaves behind is what the guard decided.
LEMMA StatusDecides ==
  ASSUME IInv, StatusWrite, before # NoRow, row # NoRow, ~is_pending_listing(dm)
  PROVE  RowDecided'
<1>1. /\ pc = "statusWrite" /\ pc # "idle" /\ snap = before /\ RowUpserted
      /\ dm \in Dms /\ before \in Rows /\ row \in Rows /\ snap # NoRow
  BY HandledTyped DEF IInv, Progress, StatusWrite, TypeOK
<1>2. effective_order_kind = trade.kind
  BY <1>1, KindKnown DEF IInv, Control
<1>3. dm' = dm /\ trade' = trade /\ before' = before
  BY DEF StatusWrite, Goto, locals, history, world, dm
<1>4. CASE row # NoRow
  <2>1. row' = IF StatusToWrite = NoStatus THEN row ELSE [row EXCEPT !.status = StatusToWrite]
    BY <1>4 DEF StatusWrite
  <2>2. row'.status = IF StatusToWrite = NoStatus THEN row.status ELSE StatusToWrite
    BY <1>1, <1>4, <2>1 DEF Rows
  <2>3. status_from_db = before.status /\ before.status \in StatusOpt /\ status_candidate \in StatusOpt
    BY <1>1, LocalsTyped DEF status_from_db, IInv, Rows
  <2>4. row.status = before.status \/ (Upserts(dm) /\ row.status = dm.status)
    BY <1>1, <1>4 DEF RowUpserted
  <2>5. ASSUME ~MayRegress(dm)
        PROVE  should_apply_status_transition(before.status, row'.status, trade.kind)
    <3>1. CASE before.status = NoStatus
      BY <3>1 DEF should_apply_status_transition
    <3>2. CASE before.status # NoStatus
      <4>1. baseline_status = before.status
        BY <2>3, <3>2 DEF baseline_status
      <4>2. Upserts(dm) => status_candidate = dm.status /\ dm.status # NoStatus
        BY <1>1, <2>5 DEF Upserts, MayRegress, status_candidate, resolved_status_candidate,
           map_action_to_status, small_order_ref_from_payload
      <4>3. CASE should_accept_candidate /\ status_candidate # baseline_status
        BY <1>2, <2>2, <4>1, <4>3 DEF should_accept_candidate, StatusToWrite
      <4>4. CASE should_accept_candidate /\ status_candidate = baseline_status
        <5>1. row'.status = before.status
          BY <2>2, <2>4, <4>1, <4>2, <4>4 DEF StatusToWrite
        <5> QED BY <5>1 DEF should_apply_status_transition
      <4>5. CASE ~should_accept_candidate
        <5>1. row'.status = before.status
          BY <2>2, <2>3, <2>4, <3>2, <4>2, <4>5 DEF StatusToWrite
        <5> QED BY <5>1 DEF should_apply_status_transition
      <4> QED BY <4>3, <4>4, <4>5
    <3> QED BY <3>1, <3>2
  <2>6. ASSUME trade_message_is_terminal(dm)
        PROVE  row'.status \notin Statuses \ TerminalTradeStatuses
    <3>1. status_candidate \in TerminalTradeStatuses
      BY <1>1, <2>6, TerminalCandidate DEF IInv
    <3>2. status_candidate # NoStatus /\ NoStatus \notin Statuses
      BY <3>1 DEF TerminalTradeStatuses, PreActiveStatuses, Statuses, NoStatus
    <3>3. ASSUME Upserts(dm) PROVE dm.status = status_candidate
      <4>1. dm.action \notin ClosingActions /\ dm.action # "CantDo"
        BY <3>3 DEF Upserts, ClosingActions
      <4>2. small_order_ref_from_payload(dm) /\ dm.status \in TerminalTradeStatuses
        BY <2>6, <4>1 DEF trade_message_is_terminal, is_terminal_trade_status,
           small_order_ref_from_payload
      <4>3. dm.status # NoStatus
        BY <3>2, <4>2 DEF Statuses
      <4> QED BY <4>1, <4>2, <4>3 DEF status_candidate, resolved_status_candidate,
                 map_action_to_status
    <3>4. CASE should_accept_candidate /\ status_candidate # baseline_status
      BY <2>2, <3>1, <3>2, <3>4 DEF StatusToWrite
    <3>5. CASE should_accept_candidate /\ status_candidate = baseline_status
      <4>1. row'.status = row.status
        BY <2>2, <3>5 DEF StatusToWrite
      <4>2. before.status \in {status_candidate, NoStatus}
        BY <2>3, <3>5 DEF baseline_status
      <4> QED BY <2>4, <3>1, <3>2, <3>3, <4>1, <4>2
    <3>6. CASE ~should_accept_candidate
      <4>1. row'.status = IF before.status = NoStatus THEN row.status ELSE before.status
        BY <2>2, <2>3, <3>2, <3>6 DEF StatusToWrite
      <4>2. before.status # NoStatus => before.status \in TerminalTradeStatuses
        BY <2>3, <3>1, <3>2, <3>6 DEF should_accept_candidate, should_apply_status_transition,
           is_terminal_trade_status, baseline_status
      <4> QED BY <2>4, <3>1, <3>2, <3>3, <4>1, <4>2
    <3> QED BY <3>4, <3>5, <3>6
  <2>7. ~MayRegress(dm)' <=> ~MayRegress(dm)
    BY <1>3
  <2> QED BY <1>3, <2>5, <2>6 DEF RowDecided
<1> QED BY <1>4

\* A step inside the handling of a message keeps the control part when it makes
\* no row before the reply is stored, and queues every row it makes.
LEMMA ControlKept ==
  ASSUME IInv, pc # "idle", pc' # "idle",
         UNCHANGED <<trade, published, cur, before, flow, tracked>>,
         pc' \in ListingPcs => pc \in ListingPcs,
         inbox \subseteq inbox',
         Awaited => row' = NoRow,
         row = NoRow => row' = NoRow \/ "track" \in inbox',
         KindsAgree'
  PROVE  Control' /\ LiveOrderIsTracked'
<1>1. dm' = dm /\ is_pending_listing(dm)' = is_pending_listing(dm)
  BY DEF dm
<1>2. ListingsOnly'
  BY <1>1 DEF IInv, Control, ListingsOnly
<1>3. NothingStoredYet' /\ StoredBefore' /\ SubscribedWhileHandling'
  BY DEF IInv, Control, NothingStoredYet, Awaited, StoredBefore, SubscribedWhileHandling
<1>4. NewRowIsQueued'
  BY DEF IInv, Control, NewRowIsQueued
<1> QED BY <1>2, <1>3, <1>4 DEF Control, LiveOrderIsTracked, AtRest

\* No listing is handled while the reply is awaited.
LEMMA NoListingWhileAwaited ==
  ASSUME IInv, pc # "idle", is_pending_listing(dm)
  PROVE  ~Awaited
<1>1. trade \in Trades /\ cur \in 1 .. Len(trade.dms) /\ cur <= published
  BY TradeTyped DEF IInv, TypeOK
<1>2. ~(cur <= trade.early)
  BY <1>1, ReplyComesFirst DEF dm
<1>3. trade.early \in Nat /\ published \in Nat /\ cur \in Nat
  BY <1>1, TradeTyped DEF IInv, TypeOK
<1> QED BY <1>1, <1>2, <1>3 DEF IInv, Control, NothingStoredYet

LEMMA HandlingStep ==
  ASSUME IInv, Handling
  PROVE  Control' /\ Progress' /\ LiveOrderIsTracked'
<1> USE DEF Goto, locals, history, world, ui
<1>1. /\ pc # "idle" /\ TypeOK /\ Progress /\ KindsAgree /\ ListingsOnly
      /\ before # NoRow => ~Awaited
      /\ Awaited => row = NoRow
  BY DEF IInv, Control, StoredBefore, NothingStoredYet, Handling, NewOrderLookup, DropTake,
         Forget, RevertStatus, SaveChild, ReadForUpsert, WriteUpsert, Snapshot, RecordDispute,
         TrackChat, StatusWrite, PublishRow, AdvanceCursor, Cleanup
<1>2. ASSUME UNCHANGED <<trade, cur, before>>
      PROVE  dm' = dm /\ is_pending_listing(dm)' = is_pending_listing(dm)
             /\ MayRegress(dm)' = MayRegress(dm) /\ Upserts(dm)' = Upserts(dm)
             /\ trade_message_is_terminal(dm)' = trade_message_is_terminal(dm)
  BY <1>2 DEF dm
<1>3. ASSUME UNCHANGED <<trade, cur, before, row>> PROVE RowDecided' <=> RowDecided
  BY <1>2, <1>3 DEF RowDecided
<1>4. CASE NewOrderLookup
  <2>1. Control' /\ LiveOrderIsTracked'
    BY <1>1, <1>4, ControlKept DEF NewOrderLookup, ListingPcs, KindsAgree
  <2>2. is_pending_listing(dm)'
    BY <1>1, <1>2, <1>4 DEF NewOrderLookup, ListingsOnly, ListingPcs
  <2> QED BY <2>1, <2>2 DEF Progress
<1>5. CASE DropTake
  <2>1. Control' /\ LiveOrderIsTracked'
    BY <1>1, <1>5, ControlKept DEF DropTake, ListingPcs, KindsAgree
  <2>2. pc' = "forgetTake" /\ row' = NoRow
    BY <1>5 DEF DropTake
  <2> QED BY <2>1, <2>2 DEF Progress
<1>6. CASE Forget
  <2>1. Control' /\ LiveOrderIsTracked'
    BY <1>1, <1>6, ControlKept DEF Forget, ListingPcs, KindsAgree
  <2>2. pc' = "seen" /\ UNCHANGED <<trade, cur, before, row>>
    BY <1>6 DEF Forget
  <2>3. before # NoRow /\ ~is_pending_listing(dm) => row = NoRow
    BY <1>1, <1>6 DEF Forget, Progress, ListingsOnly, ListingPcs
  <2> QED BY <1>2, <2>1, <2>2, <2>3 DEF Progress
<1>7. CASE RevertStatus \/ SaveChild
  <2>1. is_pending_listing(dm)
    BY <1>1, <1>7 DEF RevertStatus, SaveChild, ListingsOnly, ListingPcs
  <2>2. ~Awaited
    BY <1>1, <2>1, NoListingWhileAwaited
  <2>3. UNCHANGED <<trade, cur, before>>
    BY <1>7 DEF RevertStatus, SaveChild
  <2>4. Control' /\ LiveOrderIsTracked'
    BY <1>1, <1>7, <2>2, ControlKept DEF RevertStatus, SaveChild, ListingPcs, KindsAgree
  <2> QED BY <1>2, <2>1, <2>3, <2>4 DEF Progress
<1>8. CASE ReadForUpsert("revertRead", "revertWrite") \/ WriteUpsert("revertWrite", "revertStatus")
  <2>1. is_pending_listing(dm)
    BY <1>1, <1>8 DEF ReadForUpsert, WriteUpsert, ListingsOnly, ListingPcs
  <2>2. UNCHANGED <<trade, cur, before>>
    BY <1>8 DEF ReadForUpsert, WriteUpsert
  <2>3. Control' /\ LiveOrderIsTracked'
    BY <1>1, <1>8, ControlKept DEF ReadForUpsert, WriteUpsert, ListingPcs, KindsAgree
  <2> QED BY <1>2, <2>1, <2>2, <2>3 DEF Progress
<1>9. CASE ReadForUpsert("upsertRead", "upsertWrite")
  <2>1. Control' /\ LiveOrderIsTracked'
    BY <1>1, <1>9, ControlKept DEF ReadForUpsert, ListingPcs, KindsAgree
  <2>2. pc' = "upsertWrite" /\ base' = row /\ UNCHANGED <<trade, cur, before, row, snap>>
    BY <1>9 DEF ReadForUpsert
  <2> QED BY <1>1, <1>2, <1>9, <2>1, <2>2 DEF ReadForUpsert, Progress
<1>10. CASE WriteUpsert("upsertWrite", "dispute")
  <2>1. Control' /\ LiveOrderIsTracked'
    BY <1>1, <1>10, ControlKept DEF WriteUpsert, ListingPcs, KindsAgree
  <2>2. pc' = "dispute" /\ UNCHANGED <<trade, cur, before, snap>>
    BY <1>10 DEF WriteUpsert
  <2>3. ASSUME before # NoRow, row # NoRow, ~is_pending_listing(dm)
        PROVE  snap = before /\ RowUpserted'
    <3>1. snap = before /\ row = before /\ base = before /\ Upserts(dm)
      BY <1>1, <1>10, <2>3 DEF WriteUpsert, Progress
    <3>2. row' = build_order_from_small_order(dm, before)
      BY <1>10, <2>3, <3>1 DEF WriteUpsert
    <3>3. row'.status = dm.status
      BY <1>1, <2>3, <3>1, <3>2 DEF build_order_from_small_order, TypeOK, Rows
    <3> QED BY <1>2, <2>2, <3>1, <3>3 DEF RowUpserted
  <2>4. row = NoRow => row' = NoRow
    BY <1>10 DEF WriteUpsert
  <2> QED BY <1>2, <2>1, <2>2, <2>3, <2>4 DEF Progress
<1>11. CASE Snapshot
  <2>1. Control' /\ LiveOrderIsTracked'
    BY <1>1, <1>11, ControlKept DEF Snapshot, ListingPcs, KindsAgree
  <2>2. /\ pc' \in {"dropTake", "upsertRead", "dispute"}
        /\ pc' = "upsertRead" => Upserts(dm)
        /\ snap' = row /\ UNCHANGED <<trade, cur, before, row>>
    BY <1>11 DEF Snapshot
  <2>3. before # NoRow /\ row # NoRow /\ ~is_pending_listing(dm) => row = before
    BY <1>1, <1>11 DEF Snapshot, Progress
  <2> QED BY <1>2, <2>1, <2>2, <2>3 DEF Progress, RowUpserted
<1>12. CASE RecordDispute
  <2>1. Control' /\ LiveOrderIsTracked'
    BY <1>1, <1>12, ControlKept DEF RecordDispute, ListingPcs, KindsAgree
  <2>2. pc = "dispute" /\ pc' = "trackChat" /\ UNCHANGED <<trade, cur, before, snap>>
    BY <1>12 DEF RecordDispute
  <2>3. row' # NoRow => row # NoRow /\ row'.status = row.status
    BY <1>1, <1>12 DEF RecordDispute, TypeOK, Rows
  <2> QED BY <1>1, <1>2, <2>1, <2>2, <2>3 DEF Progress, RowUpserted
<1>13. CASE TrackChat
  <2>1. /\ prior' = msg /\ pc = "trackChat" /\ pc' \in {"seen", "statusWrite"}
        /\ UNCHANGED <<trade, cur, before, row, snap, msg>>
        /\ pc' = "seen" => IsInvoice(dm) /\ ~is_actionable_notification(dm)
    BY <1>13 DEF TrackChat
  <2>2. Control' /\ LiveOrderIsTracked'
    BY <1>1, <1>13, <2>1, ControlKept DEF TrackChat, ListingPcs, KindsAgree
  <2>3. ASSUME before # NoRow, row # NoRow, ~is_pending_listing(dm)
        PROVE  snap = before /\ RowUpserted
    BY <1>1, <2>1, <2>3 DEF Progress
  <2>4. ASSUME before # NoRow, row # NoRow, ~is_pending_listing(dm), pc' = "seen"
        PROVE  RowDecided
    <3>1. IsInvoice(dm) /\ dm.payload \notin {"invoice", "invoiceOrder"}
      BY <2>1, <2>4 DEF is_actionable_notification, IsInvoice
    <3>2. Upserts(dm) => dm.payload = "emptyInvoice" /\ MayRegress(dm)
      BY <3>1 DEF Upserts, IsInvoice, MayRegress
    <3>3. dm.payload # "order"
      BY <1>1, <3>1, ClosingOrderHasEnded, TradeTyped DEF TypeOK, dm
    <3>4. ~trade_message_is_terminal(dm)
      BY <3>1, <3>3 DEF trade_message_is_terminal, IsInvoice, ClosingActions
    <3> QED BY <2>3, <2>4, <3>2, <3>4 DEF RowDecided, RowUpserted, should_apply_status_transition
  <2>5. RowUpserted' <=> RowUpserted
    BY <1>2, <2>1 DEF RowUpserted
  <2> QED BY <1>2, <1>3, <2>1, <2>2, <2>3, <2>4, <2>5 DEF Progress
<1>14. CASE StatusWrite
  <2>1. Control' /\ LiveOrderIsTracked'
    BY <1>1, <1>14, ControlKept DEF StatusWrite, ListingPcs, KindsAgree
  <2>2. pc' = "publish" /\ (row = NoRow => row' = NoRow) /\ UNCHANGED <<trade, cur, before>>
    BY <1>14 DEF StatusWrite
  <2> QED BY <1>2, <1>14, <2>1, <2>2, StatusDecides DEF Progress
<1>15. CASE PublishRow
  <2>1. effective_order_kind \in {trade.kind, NoKind}
    BY <1>1, HandledTyped DEF effective_order_kind, KindsAgree, Dms
  <2>2. KindsAgree'
    BY <1>1, <1>15, <2>1 DEF PublishRow, order_message, KindsAgree
  <2>3. Control' /\ LiveOrderIsTracked'
    BY <1>1, <1>15, <2>2, ControlKept DEF PublishRow, ListingPcs
  <2>4. pc = "publish" /\ pc' = "seen" /\ UNCHANGED <<trade, cur, before, row>>
    BY <1>15 DEF PublishRow
  <2> QED BY <1>1, <1>2, <1>3, <2>3, <2>4 DEF Progress
<1>16. CASE AdvanceCursor
  <2>1. Control' /\ LiveOrderIsTracked'
    BY <1>1, <1>16, ControlKept DEF AdvanceCursor, ListingPcs, KindsAgree
  <2>2. pc = "seen" /\ pc' = "cleanup" /\ UNCHANGED <<trade, cur, before>>
    BY <1>16 DEF AdvanceCursor
  <2>3. row' # NoRow => row # NoRow /\ row'.status = row.status
    BY <1>1, <1>16 DEF AdvanceCursor, TypeOK, Rows
  <2>4. RowDecided /\ row' # NoRow => RowDecided'
    BY <1>2, <2>2, <2>3 DEF RowDecided
  <2> QED BY <1>1, <1>2, <2>1, <2>2, <2>3, <2>4 DEF Progress
<1>17. CASE Cleanup
  <2>1. /\ pc = "cleanup" /\ pc' = "idle" /\ before' = NoRow /\ prior' = NoMsg
        /\ tracked' = (tracked /\ ~trade_message_is_terminal(dm))
        /\ UNCHANGED <<trade, published, row, msg, flow, inbox>>
    BY <1>17 DEF Cleanup, Finish
  <2>2. Control'
    BY <1>1, <2>1 DEF IInv, Control, NothingStoredYet, Awaited, ListingsOnly, ListingPcs, KindsAgree,
       StoredBefore, SubscribedWhileHandling, NewRowIsQueued
  <2>3. LiveOrderIsTracked'
    <3> SUFFICES ASSUME flow = "done", "track" \notin inbox, row # NoRow,
                        row.status \in Statuses \ TerminalTradeStatuses
                 PROVE  tracked'
      BY <2>1 DEF LiveOrderIsTracked
    <3>1. before # NoRow /\ tracked
      BY <2>1 DEF IInv, Control, NewRowIsQueued, SubscribedWhileHandling
    <3>2. CASE is_pending_listing(dm)
      <4>1. ~trade_message_is_terminal(dm)
        BY <3>2 DEF is_pending_listing, trade_message_is_terminal, ClosingActions,
           is_terminal_trade_status, TerminalTradeStatuses
      <4> QED BY <2>1, <3>1, <4>1
    <3>3. CASE ~is_pending_listing(dm)
      BY <1>1, <2>1, <3>1, <3>3 DEF Progress, RowDecided
    <3> QED BY <3>2, <3>3
  <2> QED BY <2>1, <2>2, <2>3 DEF Progress
<1> QED BY <1>4, <1>5, <1>6, <1>7, <1>8, <1>9, <1>10, <1>11, <1>12, <1>13, <1>14, <1>15, <1>16,
           <1>17 DEF Handling

\* The hydrated subscription and the silent replay.
LEMMA ListenerStartStep ==
  ASSUME IInv, StartListener, UNCHANGED <<trade, published, row>>,
         flow \in {"saving", "detached"} \/ ~(flow' \in {"saving", "detached"}),
         msg' # NoMsg => msg'.kind \in {trade.kind, NoKind}
  PROVE  Control' /\ Progress' /\ LiveOrderIsTracked'
<1>1. TypeOK /\ NothingStoredYet /\ row' = row
  BY DEF IInv, Control
<1>2. tracked' = IsStartupActive(row) /\ prior' = NoMsg
  BY DEF StartListener, Finish, StartHandling
<1>3. NothingStoredYet' /\ KindsAgree'
  BY <1>1, <1>2 DEF NothingStoredYet, Awaited, KindsAgree
<1>4. LiveOrderIsTracked'
  BY <1>1, <1>2 DEF LiveOrderIsTracked, IsStartupActive, TerminalDmStatuses
<1>5. CASE pc' = "idle" /\ before' = NoRow
  <2>1. ListingsOnly' /\ StoredBefore' /\ SubscribedWhileHandling' /\ NewRowIsQueued' /\ Progress'
    BY <1>5 DEF ListingsOnly, ListingPcs, StoredBefore, SubscribedWhileHandling, NewRowIsQueued,
       Progress
  <2> QED BY <1>3, <1>4, <2>1 DEF Control
<1>6. CASE IsStartupActive(row) /\ \E i \in 1 .. published : StartHandling(i, FALSE)
  <2>1. PICK i \in 1 .. published : StartHandling(i, FALSE)
    BY <1>6
  <2>2. /\ cur' = i /\ before' = row /\ row # NoRow
        /\ pc' = IF is_pending_listing(trade.dms[i]) THEN "lookup" ELSE "snapshot"
    BY <1>6, <2>1 DEF StartHandling, IsStartupActive
  <2>3. dm' = trade.dms[i]
    BY <2>2 DEF dm
  <2>4. ListingsOnly' /\ Progress'
    BY <1>1, <2>2, <2>3 DEF ListingsOnly, ListingPcs, Progress
  <2>5. StoredBefore' /\ SubscribedWhileHandling' /\ NewRowIsQueued'
    BY <1>1, <1>2, <1>6, <2>2 DEF StoredBefore, SubscribedWhileHandling, NewRowIsQueued, Awaited,
       NothingStoredYet
  <2> QED BY <1>3, <1>4, <2>4, <2>5 DEF Control
<1> QED BY <1>5, <1>6 DEF StartListener, Finish

LEMMA StepIInv ==
  ASSUME IInv, [Next]_vars
  PROVE  IInv'
<1> USE DEF world, ui, locals, history, listener
<1>1. TypeOK' /\ TypeOK /\ Control /\ Progress /\ LiveOrderIsTracked
  BY StepTyped DEF IInv
<1>2. trade.early \in Nat /\ published \in Nat
  BY <1>1, TradeTyped DEF TypeOK
<1>3. CASE Handling
  BY <1>1, <1>3, HandlingStep DEF IInv
<1>4. CASE TrackOrder
  <2>1. Control' /\ Progress'
    BY <1>1, <1>4 DEF TrackOrder, Control, Awaited, NothingStoredYet, ListingPcs, ListingsOnly,
       KindsAgree, StoredBefore, SubscribedWhileHandling, NewRowIsQueued, Progress
  <2> QED BY <1>1, <1>4, <2>1 DEF TrackOrder, IInv, LiveOrderIsTracked
<1>5. ASSUME NEW i \in fresh, Receive(i) PROVE IInv'
  <2>1. CASE dropped
    BY <1>1, <1>5, <2>1 DEF Receive, IInv, Control, Awaited, NothingStoredYet, ListingPcs,
       ListingsOnly, KindsAgree, StoredBefore, SubscribedWhileHandling, NewRowIsQueued, Progress,
       LiveOrderIsTracked, AtRest
  <2>2. CASE ~dropped
    <3>1. /\ cur' = i /\ before' = row /\ prior' = NoMsg /\ tracked
          /\ pc' = IF is_pending_listing(trade.dms[i]) THEN "lookup" ELSE "snapshot"
          /\ UNCHANGED <<trade, published, row, msg, flow, tracked, inbox>>
      BY <1>5, <2>2 DEF Receive, StartHandling
    <3>2. dm' = trade.dms[i]
      BY <3>1 DEF dm
    <3>3. ListingsOnly' /\ Progress' /\ LiveOrderIsTracked'
      BY <3>1, <3>2 DEF ListingsOnly, ListingPcs, Progress, LiveOrderIsTracked, AtRest
    <3>4. NothingStoredYet' /\ KindsAgree'
      BY <1>1, <3>1 DEF Control, NothingStoredYet, Awaited, KindsAgree
    <3>5. StoredBefore' /\ SubscribedWhileHandling' /\ NewRowIsQueued'
      BY <1>1, <3>1 DEF Control, NothingStoredYet, Awaited, StoredBefore, SubscribedWhileHandling,
         NewRowIsQueued
    <3> QED BY <1>1, <3>3, <3>4, <3>5 DEF IInv, Control
  <2> QED BY <2>1, <2>2
<1>6. ASSUME UNCHANGED <<trade, row, tracked, flow, listener>>,
             "track" \in inbox <=> "track" \in inbox',
             NothingStoredYet', KindsAgree'
      PROVE  IInv'
  <2>1. dm' = dm
    BY <1>6 DEF dm
  <2>2. Control'
    BY <1>1, <1>6, <2>1 DEF Control, Awaited, ListingPcs, ListingsOnly, StoredBefore,
       SubscribedWhileHandling, NewRowIsQueued
  <2>3. Progress'
    BY <1>1, <1>6, <2>1 DEF Progress, RowUpserted, RowDecided
  <2>4. LiveOrderIsTracked'
    BY <1>1, <1>6 DEF LiveOrderIsTracked, AtRest
  <2> QED BY <1>1, <2>2, <2>3, <2>4 DEF IInv
<1>7. CASE Publish
  <2>1. NothingStoredYet'
    BY <1>1, <1>2, <1>7 DEF Publish, Control, NothingStoredYet, Awaited
  <2>2. KindsAgree'
    BY <1>1, <1>7 DEF Publish, Control, KindsAgree
  <2> QED BY <1>6, <1>7, <2>1, <2>2 DEF Publish
<1>8. CASE SaveOrder
  <2>1. /\ Awaited /\ flow' \in {"done", "untracked"}
        /\ flow' = "done" => "track" \in inbox'
        /\ UNCHANGED <<trade, published, msg, tracked, listener>>
    BY <1>8 DEF SaveOrder, Awaited
  <2>2. pc # "idle" => before = NoRow
    BY <1>1, <2>1 DEF Control, StoredBefore
  <2>3. dm' = dm
    BY <2>1 DEF dm
  <2>4. Control'
    BY <1>1, <2>1, <2>2, <2>3 DEF Control, Awaited, NothingStoredYet, ListingPcs, ListingsOnly,
       KindsAgree, StoredBefore, SubscribedWhileHandling, NewRowIsQueued
  <2>5. Progress'
    BY <1>1, <2>1, <2>2 DEF Progress, TypeOK
  <2>6. LiveOrderIsTracked'
    BY <2>1 DEF LiveOrderIsTracked
  <2> QED BY <1>1, <2>4, <2>5, <2>6 DEF IInv
<1>9. CASE ShowResult
  <2>1. msg' # NoMsg => msg'.kind \in {trade.kind, NoKind}
    BY <1>1, <1>9, TradeTyped DEF ShowResult, ResultRow, Control, KindsAgree, TypeOK, Msgs
  <2>2. KindsAgree' /\ NothingStoredYet'
    BY <1>1, <1>9, <2>1 DEF ShowResult, Control, KindsAgree, NothingStoredYet, Awaited
  <2> QED BY <1>6, <1>9, <2>2 DEF ShowResult
<1>10. CASE HandleNotification
  <2>1. msg' # NoMsg => msg'.kind \in {trade.kind, NoKind}
    BY <1>1, <1>10 DEF HandleNotification, Control, KindsAgree, TypeOK, Msgs
  <2>2. KindsAgree' /\ NothingStoredYet'
    BY <1>1, <1>10, <2>1 DEF HandleNotification, Control, KindsAgree, NothingStoredYet, Awaited
  <2> QED BY <1>6, <1>10, <2>2 DEF HandleNotification
<1>11. CASE Restart
  <2>1. msg' # NoMsg => msg'.kind \in {trade.kind, NoKind}
    BY <1>11 DEF Restart, db_order_to_history_message
  <2>2. StartListener /\ UNCHANGED <<trade, published, row>>
        /\ ~(flow' \in {"saving", "detached"})
    BY <1>1, <1>11 DEF Restart
  <2> QED BY <1>1, <2>1, <2>2, ListenerStartStep DEF IInv
<1>12. CASE Reload
  <2>1. msg' # NoMsg => msg'.kind \in {trade.kind, NoKind}
    BY <1>1, <1>12 DEF Reload, Control, KindsAgree
  <2>2. StartListener /\ UNCHANGED <<trade, published, row>>
        /\ (flow \in {"saving", "detached"} \/ ~(flow' \in {"saving", "detached"}))
    BY <1>12 DEF Reload
  <2> QED BY <1>1, <2>1, <2>2, ListenerStartStep DEF IInv
<1>13. CASE DeleteOrder
  <2>1. /\ row # NoRow /\ row' = NoRow
        /\ UNCHANGED <<trade, published, msg, tracked, flow, listener>>
    BY <1>13 DEF DeleteOrder
  <2>2. dm' = dm
    BY <2>1 DEF dm
  <2>3. Control'
    BY <1>1, <2>1, <2>2 DEF Control, Awaited, NothingStoredYet, ListingPcs, ListingsOnly,
       KindsAgree, StoredBefore, SubscribedWhileHandling, NewRowIsQueued
  <2> QED BY <1>1, <2>1, <2>3 DEF IInv, Progress, LiveOrderIsTracked
<1>14. CASE ForgetDeleted
  <2>1. msg' # NoMsg => msg'.kind \in {trade.kind, NoKind}
    BY <1>14 DEF ForgetDeleted, db_order_to_history_message
  <2>2. KindsAgree' /\ NothingStoredYet'
    BY <1>1, <1>14, <2>1 DEF ForgetDeleted, Control, KindsAgree, NothingStoredYet, Awaited
  <2> QED BY <1>6, <1>14, <2>2 DEF ForgetDeleted
<1>15. CASE UNCHANGED vars
  <2>1. NothingStoredYet' /\ KindsAgree'
    BY <1>1, <1>15 DEF vars, Control, NothingStoredYet, Awaited, KindsAgree
  <2> QED BY <1>6, <1>15, <2>1 DEF vars
<1> QED BY <1>3, <1>4, <1>5, <1>7, <1>8, <1>9, <1>10, <1>11, <1>12, <1>13, <1>14, <1>15
        DEF Next, ListenerNext

LEMMA Invariance == Spec => []IInv
<1> QED BY InitIInv, StepIInv, PTL DEF Spec

\* For every conversation, every interleaving with the other tasks and every
\* crash or respawn: a message leaves a stored order in a status the guard
\* allows from the one it had (the restore after the unguarded upsert).
THEOREM NeverBackwardHolds == Spec => []NeverBackward
<1>1. IInv => NeverBackward
  <2> SUFFICES ASSUME IInv, pc = "cleanup", before # NoRow, row # NoRow, ~MayRegress(dm)
               PROVE  should_apply_status_transition(before.status, row.status, trade.kind)
    BY DEF NeverBackward
  <2>1. ~is_pending_listing(dm)
    BY DEF MayRegress
  <2> QED BY <2>1 DEF IInv, Progress, RowDecided
<1> QED BY <1>1, Invariance, PTL

\* For every conversation: a stored order that has not ended is subscribed to
\* whenever the listener rests, through every crash, respawn and cancel.
THEOREM LiveOrderIsTrackedHolds == Spec => []LiveOrderIsTracked
<1>1. IInv => LiveOrderIsTracked
  BY DEF IInv
<1> QED BY <1>1, Invariance, PTL

-----------------------------------------------------------------------------
(* The end of a trade, for conversations that say it last.                 *)

\* The conversation ends the trade with anything but success.
Fails == \E i \in 1 .. Len(trade.dms) :
           resolved_status_candidate(trade.dms[i]) \in TerminalDmStatuses

\* Its last message ends the trade; it puts somebody else's listing back on the book.
Ends == Len(trade.dms) > 0 /\ trade_message_is_terminal(trade.dms[Len(trade.dms)])
Loses == /\ ~trade.maker /\ Len(trade.dms) > 0
         /\ is_pending_listing(trade.dms[Len(trade.dms)])

AllPublished == published = Len(trade.dms)
HandlesLast == pc # "idle" /\ cur = Len(trade.dms)

Dead(r) == r # NoRow /\ r.status \in TerminalDmStatuses

\* What the last messages are, and that the others are not like them.
LEMMA LastWords ==
  ASSUME EndComesLast, TypeOK, NEW i \in 1 .. Len(trade.dms)
  PROVE  /\ Len(trade.dms) \in Nat /\ trade.dms[i] \in Dms
         /\ trade.saved \in Statuses \ TerminalTradeStatuses
         /\ trade_message_is_terminal(trade.dms[i]) => i = Len(trade.dms) /\ i > trade.early /\ Ends
         /\ is_pending_listing(trade.dms[i]) =>
              /\ ~trade_message_is_terminal(trade.dms[i])
              /\ ~trade.maker => i = Len(trade.dms) /\ i > trade.early /\ Loses
         /\ trade.dms[i].status \in TerminalTradeStatuses =>
              /\ trade_message_is_terminal(trade.dms[i])
              /\ resolved_status_candidate(trade.dms[i]) = trade.dms[i].status
         /\ resolved_status_candidate(trade.dms[i]) \in TerminalDmStatuses =>
              trade_message_is_terminal(trade.dms[i]) /\ Fails
<1> DEFINE d == trade.dms[i]
<1>1. trade \in Trades /\ Len(trade.dms) \in Nat /\ d \in Dms /\ trade.saved \in Statuses
  BY TradeTyped, TradesAssumption DEF TypeOK, TradeType
<1>2. /\ trade.saved \notin TerminalTradeStatuses
      /\ LastWord(trade, i) => i = Len(trade.dms) /\ i > trade.early
      /\ d.status \in TerminalTradeStatuses => d.payload = "order"
  BY <1>1 DEF EndComesLast
<1>3. d.action = "CantDo" => d.payload # "order"
  BY <1>1, ClosingOrderHasEnded
<1>4. trade_message_is_terminal(d) => i = Len(trade.dms) /\ i > trade.early /\ Ends
  BY <1>1, <1>2 DEF LastWord, EndsTrade, trade_message_is_terminal, is_terminal_trade_status, Ends
<1>5. is_pending_listing(d) => ~trade_message_is_terminal(d)
  BY DEF is_pending_listing, trade_message_is_terminal, ClosingActions,
     is_terminal_trade_status, TerminalTradeStatuses
<1>6. is_pending_listing(d) /\ ~trade.maker => i = Len(trade.dms) /\ i > trade.early /\ Loses
  BY <1>1, <1>2 DEF LastWord, EndsTrade, trade_message_is_terminal, is_terminal_trade_status, Loses
<1>7. ASSUME d.status \in TerminalTradeStatuses
      PROVE  trade_message_is_terminal(d) /\ resolved_status_candidate(d) = d.status
  <2>1. d.payload = "order" /\ d.action # "CantDo" /\ d.status # NoStatus
    BY <1>2, <1>3, <1>7 DEF TerminalTradeStatuses, NoStatus
  <2> QED BY <1>7, <2>1 DEF trade_message_is_terminal, is_terminal_trade_status,
             resolved_status_candidate, small_order_ref_from_payload, map_action_to_status
<1>8. ASSUME resolved_status_candidate(d) \in TerminalDmStatuses
      PROVE  trade_message_is_terminal(d) /\ Fails
  <2>1. Fails
    BY <1>8 DEF Fails
  <2>2. CASE small_order_ref_from_payload(d) /\ d.status # NoStatus
    <3>1. d.status \in TerminalTradeStatuses
      BY <1>8, <2>2 DEF resolved_status_candidate, map_action_to_status, TerminalDmStatuses,
         TerminalTradeStatuses, NoStatus
    <3> QED BY <1>7, <2>1, <3>1
  <2>3. CASE ~(small_order_ref_from_payload(d) /\ d.status # NoStatus)
    <3>1. inferred_status_from_trade_action(d.action) \in TerminalDmStatuses
      BY <1>8, <2>3 DEF resolved_status_candidate, map_action_to_status, TerminalDmStatuses,
         TerminalTradeStatuses, NoStatus
    <3>2. d.action \in ClosingActions
      BY <3>1 DEF inferred_status_from_trade_action, ClosingActions, TerminalDmStatuses,
         TerminalTradeStatuses, NoStatus
    <3> QED BY <2>1, <3>2 DEF trade_message_is_terminal
  <2> QED BY <2>2, <2>3
<1> QED BY <1>1, <1>2, <1>4, <1>5, <1>6, <1>7, <1>8

\* A trade that fails does so in its last message, and never succeeds.
LEMMA FailingTrade ==
  ASSUME EndComesLast, OneOutcome, TypeOK, Fails
  PROVE  /\ Ends /\ Len(trade.dms) \in 1 .. Len(trade.dms) /\ Len(trade.dms) > trade.early
         /\ resolved_status_candidate(trade.dms[Len(trade.dms)]) \in TerminalDmStatuses
         /\ \A i \in 1 .. Len(trade.dms) :
              /\ resolved_status_candidate(trade.dms[i]) # "Success"
              /\ trade.dms[i].status # "Success"
              /\ ~trade.maker => ~is_pending_listing(trade.dms[i])
<1>1. PICK i \in 1 .. Len(trade.dms) : resolved_status_candidate(trade.dms[i]) \in TerminalDmStatuses
  BY DEF Fails
<1>2. i = Len(trade.dms) /\ i > trade.early /\ Ends /\ ~is_pending_listing(trade.dms[i])
  BY <1>1, LastWords
<1>3. ASSUME NEW j \in 1 .. Len(trade.dms)
      PROVE  /\ resolved_status_candidate(trade.dms[j]) # "Success"
             /\ trade.dms[j].status # "Success"
             /\ ~trade.maker => ~is_pending_listing(trade.dms[j])
  <2>1. resolved_status_candidate(trade.dms[j]) # "Success"
    BY <1>1 DEF OneOutcome, TypeOK
  <2>2. trade.dms[j].status = "Success" => resolved_status_candidate(trade.dms[j]) = "Success"
    BY LastWords DEF TerminalTradeStatuses
  <2>3. ~trade.maker => ~is_pending_listing(trade.dms[j])
    BY <1>2, LastWords
  <2> QED BY <2>1, <2>2, <2>3
<1> QED BY <1>1, <1>2, <1>3

\* A cancel is one that fails.
LEMMA ClosingFails ==
  ASSUME EndComesLast, OneOutcome, TypeOK, NEW i \in 1 .. Len(trade.dms),
         trade.dms[i].action \in ClosingActions
  PROVE  Fails /\ i = Len(trade.dms)
<1> DEFINE d == trade.dms[i]
<1>1. trade_message_is_terminal(d) /\ i = Len(trade.dms) /\ trade \in Trades
  BY LastWords DEF trade_message_is_terminal, TypeOK
<1>2. resolved_status_candidate(d) \in TerminalTradeStatuses
  <2>1. CASE small_order_ref_from_payload(d)
    <3>1. d.status \in TerminalTradeStatuses
      BY <1>1, <2>1, ClosingOrderHasEnded
    <3> QED BY <3>1, LastWords
  <2>2. CASE ~small_order_ref_from_payload(d)
    BY <2>2 DEF resolved_status_candidate, inferred_status_from_trade_action, ClosingActions,
       TerminalTradeStatuses
  <2> QED BY <2>1, <2>2
<1>3. resolved_status_candidate(d) # "Success"
  BY <1>1 DEF OneOutcome
<1>4. resolved_status_candidate(d) \in TerminalDmStatuses
  BY <1>2, <1>3 DEF TerminalDmStatuses
<1> QED BY <1>1, <1>4, LastWords

\* Where the listener may be when the row says that the trade has ended.
DeadPcs == {"dispute", "trackChat", "statusWrite", "publish", "seen", "cleanup"}

\* A maker's row is the maker's own, and drops of takes are not for makers; a row
\* that is read is written back to the order it was read from.
OwnRows ==
  /\ trade.maker /\ row # NoRow => row.mine
  /\ base # NoRow => pc \in {"revertWrite", "upsertWrite"} /\ ~Awaited
  /\ base # NoRow /\ row # NoRow => base.mine = row.mine
  /\ pc \in {"dropTake", "forgetTake"} /\ trade.maker => trade_message_is_terminal(dm)

\* Nothing tracks the order again behind the message that ends it.
NothingQueued ==
  Ends /\ (Fails \/ ~trade.maker) =>
    /\ AllPublished => "track" \notin inbox
    /\ pc # "saveChild"

\* Only the last message makes a row dead, and its handling ends the subscription;
\* what was read before it is alive.
DeadAtEnd ==
  /\ Dead(row) => /\ Fails /\ AllPublished
                  /\ ~tracked \/ (cur = Len(trade.dms) /\ pc \in DeadPcs)
  /\ ~Dead(snap)

\* A maker's row is missing before it is stored, and after the last message.
MissingIsUntracked ==
  Fails /\ trade.maker /\ row = NoRow => "track" \notin inbox /\ (~tracked \/ HandlesLast)

NoSuccess ==
  Fails => /\ row # NoRow => row.status # "Success"
           /\ snap # NoRow => snap.status # "Success"

EndInv == OwnRows /\ NothingQueued /\ DeadAtEnd /\ MissingIsUntracked /\ NoSuccess

\* Each update of a row keeps what it does not write.
LEMMA RowKept ==
  ASSUME NEW r \in Rows
  PROVE  /\ r # NoRow
         /\ \A s \in StatusOpt : LET q == [r EXCEPT !.status = s] IN
              q # NoRow /\ q.status = s /\ q.mine = r.mine
         /\ \A t \in Nat : LET q == [r EXCEPT !.seen = t] IN
              q # NoRow /\ q.status = r.status /\ q.mine = r.mine
         /\ \A d \in Dms : LET q == build_order_from_small_order(d, r) IN
              q # NoRow /\ q.status = d.status /\ q.mine = r.mine
<1>1. /\ \A s \in StatusOpt : [r EXCEPT !.status = s] \in Rows
      /\ \A t \in Nat : [r EXCEPT !.seen = t] \in Rows
      /\ \A d \in Dms : build_order_from_small_order(d, r) \in Rows
  BY RowUpdates
<1>2. \A s : LET q == [r EXCEPT !.status = s] IN q.status = s /\ q.mine = r.mine
  BY DEF Rows
<1>3. \A t : LET q == [r EXCEPT !.seen = t] IN q.status = r.status /\ q.mine = r.mine
  BY DEF Rows
<1>4. \A d : LET q == build_order_from_small_order(d, r) IN q.status = d.status /\ q.mine = r.mine
  BY DEF Rows, build_order_from_small_order
<1> QED BY <1>1, <1>2, <1>3, <1>4, AbsentAssumption

LEMMA SameConversation ==
  ASSUME UNCHANGED trade
  PROVE  /\ Fails' = Fails /\ Ends' = Ends /\ Loses' = Loses
         /\ UNCHANGED published => AllPublished' = AllPublished
         /\ UNCHANGED cur => dm' = dm /\ trade_message_is_terminal(dm)' = trade_message_is_terminal(dm)
  BY DEF Fails, Ends, Loses, AllPublished, dm

\* What the message being handled can be.
LEMMA HandledWords ==
  ASSUME EndComesLast, TypeOK, pc # "idle"
  PROVE  /\ cur \in 1 .. Len(trade.dms) /\ cur <= published
         /\ trade_message_is_terminal(dm) => HandlesLast /\ AllPublished /\ Ends
         /\ is_pending_listing(dm) => ~trade_message_is_terminal(dm)
         /\ dm.status \in TerminalTradeStatuses =>
              trade_message_is_terminal(dm) /\ resolved_status_candidate(dm) = dm.status
         /\ resolved_status_candidate(dm) \in TerminalDmStatuses =>
              trade_message_is_terminal(dm) /\ Fails
<1>1. /\ cur \in 1 .. Len(trade.dms) /\ cur <= published /\ published <= Len(trade.dms)
      /\ published \in Nat /\ Len(trade.dms) \in Nat
  BY TradeTyped DEF TypeOK
<1> QED BY <1>1, LastWords DEF dm, HandlesLast, AllPublished

\* A step inside the handling of a message.
LEMMA EndStepInside ==
  ASSUME EndComesLast, OneOutcome, IInv, EndInv, pc # "idle", pc' # "idle",
         UNCHANGED <<trade, published, cur, inbox, tracked, flow>>,
         base' # NoRow => pc' \in {"revertWrite", "upsertWrite"} /\ ~Awaited,
         base' # NoRow /\ row' # NoRow => base'.mine = row'.mine,
         row' # NoRow => row # NoRow /\ row'.mine = row.mine
                         /\ (Fails => row'.status # "Success"),
         row' = NoRow => row = NoRow \/ ~trade.maker \/ trade_message_is_terminal(dm),
         Dead(row)' => (Dead(row) \/ (trade_message_is_terminal(dm) /\ Fails)) /\ pc' \in DeadPcs,
         snap' # NoRow => snap' = snap \/ (snap' = row /\ ~Dead(row)),
         pc' = "saveChild" => row = NoRow /\ pc = "lookup",
         pc' \in {"dropTake", "forgetTake"} =>
           pc \in {"dropTake", "forgetTake"} \/ ~trade.maker \/ trade_message_is_terminal(dm)
  PROVE  EndInv'
<1>1. TypeOK /\ tracked /\ (pc = "lookup" => is_pending_listing(dm))
  BY DEF IInv, Control, SubscribedWhileHandling, ListingsOnly, ListingPcs
<1>2. /\ Fails' = Fails /\ Ends' = Ends /\ AllPublished' = AllPublished
      /\ trade_message_is_terminal(dm)' = trade_message_is_terminal(dm)
      /\ HandlesLast' = HandlesLast
  BY SameConversation DEF HandlesLast
<1>3. /\ trade_message_is_terminal(dm) => HandlesLast /\ AllPublished /\ Ends
      /\ is_pending_listing(dm) => ~trade_message_is_terminal(dm)
      /\ cur \in 1 .. Len(trade.dms)
  BY <1>1, HandledWords
<1>4. OwnRows'
  BY <1>2 DEF EndInv, OwnRows, Awaited
<1>5. NothingQueued'
  <2> SUFFICES ASSUME Ends, Fails \/ ~trade.maker, pc' = "saveChild" PROVE FALSE
    BY <1>2 DEF EndInv, NothingQueued
  <2>1. row = NoRow /\ is_pending_listing(dm)
    BY <1>1
  <2>2. trade.maker
    BY <1>1, <1>3, <2>1, LastWords DEF dm, Ends
  <2>3. HandlesLast
    BY <1>1, <2>1, <2>2 DEF EndInv, MissingIsUntracked
  <2> QED BY <1>1, <1>3, <2>1, <2>3, LastWords DEF HandlesLast, Ends, dm
<1>6. DeadAtEnd'
  <2>1. Dead(row)' => Fails /\ AllPublished /\ cur = Len(trade.dms) /\ pc' \in DeadPcs
    BY <1>1, <1>3 DEF EndInv, DeadAtEnd, HandlesLast
  <2>2. ~Dead(snap)'
    BY DEF EndInv, DeadAtEnd, Dead
  <2> QED BY <1>2, <2>1, <2>2 DEF DeadAtEnd
<1>7. MissingIsUntracked'
  BY <1>1, <1>2, <1>3 DEF EndInv, MissingIsUntracked, NothingQueued
<1>8. NoSuccess'
  BY <1>2 DEF EndInv, NoSuccess
<1> QED BY <1>4, <1>5, <1>6, <1>7, <1>8 DEF EndInv

LEMMA EndStepHandling ==
  ASSUME EndComesLast, OneOutcome, IInv, EndInv, Handling
  PROVE  EndInv'
<1> USE DEF Goto, locals, history, world, ui
<1>1. /\ pc # "idle" /\ TypeOK /\ Progress /\ ListingsOnly /\ tracked /\ dm \in Dms
      /\ (row # NoRow => row \in Rows)
  BY HandledTyped DEF IInv, Control, SubscribedWhileHandling, TypeOK, Handling, NewOrderLookup,
         DropTake, Forget, RevertStatus, SaveChild, ReadForUpsert, WriteUpsert, Snapshot,
         RecordDispute, TrackChat, StatusWrite, PublishRow, AdvanceCursor, Cleanup
<1>2. /\ cur \in 1 .. Len(trade.dms)
      /\ trade_message_is_terminal(dm) => HandlesLast /\ AllPublished /\ Ends
      /\ is_pending_listing(dm) => ~trade_message_is_terminal(dm)
      /\ dm.status \in TerminalTradeStatuses =>
           trade_message_is_terminal(dm) /\ resolved_status_candidate(dm) = dm.status
      /\ resolved_status_candidate(dm) \in TerminalDmStatuses =>
           trade_message_is_terminal(dm) /\ Fails
      /\ Fails => resolved_status_candidate(dm) # "Success" /\ dm.status # "Success"
  BY <1>1, HandledWords, FailingTrade DEF dm
<1>3. Dead(row) => cur = Len(trade.dms) /\ pc \in DeadPcs
  BY <1>1 DEF EndInv, DeadAtEnd
<1>4. /\ Dead(row) <=> (row # NoRow /\ row.status \in TerminalDmStatuses)
      /\ Dead(row)' <=> (row' # NoRow /\ row'.status \in TerminalDmStatuses)
  BY DEF Dead
<1>5. /\ base # NoRow /\ row # NoRow => base.mine = row.mine
      /\ base # NoRow => pc \in {"revertWrite", "upsertWrite"} /\ ~Awaited
      /\ Fails /\ row # NoRow => row.status # "Success"
      /\ Fails /\ snap # NoRow => snap.status # "Success"
      /\ ~Dead(snap)
      /\ trade.maker /\ row # NoRow => row.mine
      /\ pc \in {"dropTake", "forgetTake"} /\ trade.maker => trade_message_is_terminal(dm)
  BY DEF EndInv, OwnRows, NoSuccess, DeadAtEnd
<1>6. CASE NewOrderLookup
  <2>1. /\ pc = "lookup" /\ pc' \in {"dropTake", "revertRead", "saveChild", "snapshot"}
        /\ pc' = "saveChild" => row = NoRow
        /\ pc' = "dropTake" => row # NoRow /\ ~row.mine
        /\ UNCHANGED <<trade, published, cur, inbox, tracked, flow, row, base, snap>>
    BY <1>6 DEF NewOrderLookup, is_pre_active_taker_take
  <2>2. ~Dead(row)
    BY <1>3, <2>1 DEF DeadPcs
  <2> QED BY <1>1, <1>4, <1>5, <2>1, <2>2, EndStepInside
<1>7. CASE DropTake
  <2>1. /\ pc = "dropTake" /\ pc' = "forgetTake" /\ row' = NoRow
        /\ UNCHANGED <<trade, published, cur, inbox, tracked, flow, base, snap>>
    BY <1>7 DEF DropTake
  <2> QED BY <1>1, <1>4, <1>5, <2>1, EndStepInside
<1>8. CASE Forget
  <2>1. /\ pc' = "seen" /\ pc \in {"forgetTake", "revertForget"}
        /\ UNCHANGED <<trade, published, cur, inbox, tracked, flow, row, base, snap>>
    BY <1>8 DEF Forget
  <2> QED BY <1>1, <1>4, <1>5, <2>1, EndStepInside DEF DeadPcs
<1>9. CASE RevertStatus
  <2>1. /\ pc' = "revertForget" /\ pc = "revertStatus"
        /\ UNCHANGED <<trade, published, cur, inbox, tracked, flow, base, snap>>
        /\ row' = IF row = NoRow THEN NoRow ELSE [row EXCEPT !.status = "Pending"]
    BY <1>9 DEF RevertStatus
  <2>2. row # NoRow => row'.mine = row.mine /\ row'.status = "Pending" /\ row' # NoRow
    <3>1. "Pending" \in StatusOpt
      BY DEF StatusOpt, Statuses, PreActiveStatuses
    <3> QED BY <1>1, <2>1, <3>1, RowKept
  <2>3. ~Dead(row)'
    BY <1>4, <2>1, <2>2 DEF TerminalDmStatuses, TerminalTradeStatuses
  <2> QED BY <1>1, <1>4, <1>5, <2>1, <2>2, <2>3, EndStepInside
<1>10. CASE SaveChild
  <2>1. /\ pc = "saveChild" /\ pc' = "seen" /\ row' = SavedRow("Pending", TRUE)
        /\ inbox' = inbox \cup {"track"}
        /\ UNCHANGED <<trade, published, cur, tracked, base, snap, flow>>
    BY <1>10 DEF SaveChild
  <2>2. ~(Ends /\ (Fails \/ ~trade.maker))
    BY <2>1 DEF EndInv, NothingQueued
  <2>3. Fails' = Fails /\ Ends' = Ends /\ (Fails => Ends)
    BY <1>1, <2>1, SameConversation, FailingTrade
  <2>4. row' # NoRow /\ row'.mine = TRUE /\ row'.status = "Pending" /\ ~Dead(row)'
    <3>1. row' \in Rows
      BY <1>1, <2>1, SavedRowTyped DEF StatusOpt, Statuses, PreActiveStatuses
    <3>2. row'.mine = TRUE /\ row'.status = "Pending"
      BY <2>1 DEF SavedRow
    <3>3. ~Dead(row)'
      BY <1>4, <3>2 DEF TerminalDmStatuses, TerminalTradeStatuses
    <3> QED BY <3>1, <3>2, <3>3, AbsentAssumption
  <2>5. ~Dead(snap)' /\ base = NoRow
    BY <1>5, <2>1 DEF Dead
  <2> QED BY <1>5, <2>1, <2>2, <2>3, <2>4, <2>5
          DEF EndInv, OwnRows, NothingQueued, DeadAtEnd, MissingIsUntracked, NoSuccess
<1>11. ASSUME NEW from, NEW to, ReadForUpsert(from, to),
              <<from, to>> \in {<<"revertRead", "revertWrite">>, <<"upsertRead", "upsertWrite">>}
       PROVE  EndInv'
  <2>1. /\ pc = from /\ pc' = to /\ base' = row /\ (row # NoRow => ~Awaited)
        /\ UNCHANGED <<trade, published, cur, inbox, tracked, flow, row, snap>>
    BY <1>11 DEF ReadForUpsert, IInv, Control, NothingStoredYet
  <2>2. ~Dead(row)
    BY <1>3, <1>11, <2>1 DEF DeadPcs
  <2> QED BY <1>1, <1>4, <1>5, <1>11, <2>1, <2>2, EndStepInside
<1>12. ASSUME NEW from, NEW to, WriteUpsert(from, to),
              <<from, to>> \in {<<"revertWrite", "revertStatus">>, <<"upsertWrite", "dispute">>}
       PROVE  EndInv'
  <2>1. /\ pc = from /\ pc' = to /\ base' = NoRow
        /\ row' = IF base = NoRow \/ row = NoRow THEN row ELSE build_order_from_small_order(dm, base)
        /\ UNCHANGED <<trade, published, cur, inbox, tracked, flow, snap>>
    BY <1>12 DEF WriteUpsert
  <2>2. ~Dead(row)
    BY <1>3, <1>12, <2>1 DEF DeadPcs
  <2>3. CASE base = NoRow \/ row = NoRow
    BY <1>1, <1>4, <1>5, <1>12, <2>1, <2>2, <2>3, EndStepInside
  <2>4. CASE base # NoRow /\ row # NoRow
    <3>1. base \in Rows
      BY <2>4, <1>1 DEF TypeOK
    <3>2. row' # NoRow /\ row'.status = dm.status /\ row'.mine = base.mine
      BY <1>1, <2>1, <2>4, <3>1, RowKept
    <3>4. CASE from = "revertWrite"
      <4>1. is_pending_listing(dm)
        BY <1>1, <2>1, <3>4 DEF ListingsOnly, ListingPcs
      <4>2. ~Dead(row)'
        BY <1>4, <3>2, <4>1 DEF is_pending_listing, TerminalDmStatuses, TerminalTradeStatuses
      <4> QED BY <1>1, <1>2, <1>4, <1>5, <1>12, <2>1, <2>4, <3>2, <4>2, <3>4, EndStepInside
    <3>5. CASE from = "upsertWrite"
      <4>1. pc' = "dispute" /\ pc' \in DeadPcs
        BY <1>12, <2>1, <3>5 DEF DeadPcs
      <4>2. Dead(row)' => trade_message_is_terminal(dm) /\ Fails
        BY <1>2, <1>4, <3>2 DEF TerminalDmStatuses
      <4> QED BY <1>1, <1>2, <1>5, <2>1, <2>4, <3>2, <4>1, <4>2, EndStepInside
    <3> QED BY <1>12, <3>4, <3>5
  <2> QED BY <2>3, <2>4
<1>13. CASE Snapshot
  <2>1. /\ pc = "snapshot" /\ pc' \in {"dropTake", "upsertRead", "dispute"} /\ snap' = row
        /\ pc' = "dropTake" => dm.action = "Canceled"
        /\ UNCHANGED <<trade, published, cur, inbox, tracked, flow, row, base>>
    BY <1>13 DEF Snapshot
  <2>2. ~Dead(row)
    BY <1>3, <2>1 DEF DeadPcs
  <2>3. pc' = "dropTake" => trade_message_is_terminal(dm)
    BY <2>1 DEF trade_message_is_terminal, ClosingActions
  <2> QED BY <1>1, <1>4, <1>5, <2>1, <2>2, <2>3, EndStepInside
<1>14. CASE RecordDispute
  <2>1. /\ pc = "dispute" /\ pc' = "trackChat"
        /\ UNCHANGED <<trade, published, cur, inbox, tracked, flow, snap, base>>
    BY <1>14 DEF RecordDispute
  <2>2. /\ row = NoRow => row' = NoRow
        /\ row # NoRow => row'.status = row.status /\ row'.mine = row.mine
    BY <1>1, <1>14 DEF RecordDispute, Rows
  <2>3. row # NoRow => row' # NoRow
    <3> SUFFICES ASSUME row # NoRow PROVE row' # NoRow
      OBVIOUS
    <3> DEFINE announced == /\ dm.action \in {"DisputeInitiatedByYou", "DisputeInitiatedByPeer"}
                            /\ dm.payload = "dispute"
               taken == dm.action = "AdminTookDispute" /\ dm.payload = "solver"
    <3>1. row' = [row EXCEPT !.dispute = @ \/ announced, !.solver = @ \/ taken]
      BY <1>14 DEF RecordDispute
    <3>2. row' \in Rows
      <4>1. (row.dispute \/ announced) \in BOOLEAN /\ (row.solver \/ taken) \in BOOLEAN
        OBVIOUS
      <4> HIDE DEF announced, taken
      <4> QED BY <1>1, <3>1, <4>1, RowUpdates
    <3> QED BY <3>2, AbsentAssumption
  <2> QED BY <1>1, <1>3, <1>4, <1>5, <2>1, <2>2, <2>3, EndStepInside DEF DeadPcs
<1>15. CASE TrackChat
  <2>1. /\ pc = "trackChat" /\ pc' \in {"seen", "statusWrite"}
        /\ UNCHANGED <<trade, published, cur, inbox, tracked, flow, row, snap, base>>
    BY <1>15 DEF TrackChat
  <2> QED BY <1>1, <1>3, <1>4, <1>5, <2>1, EndStepInside DEF DeadPcs
<1>16. CASE StatusWrite
  <2>1. /\ pc = "statusWrite" /\ pc' = "publish"
        /\ UNCHANGED <<trade, published, cur, inbox, tracked, flow, snap, base>>
        /\ row' = IF row = NoRow \/ StatusToWrite = NoStatus THEN row
                  ELSE [row EXCEPT !.status = StatusToWrite]
    BY <1>16 DEF StatusWrite
  <2>2. StatusToWrite \in {resolved_status_candidate(dm), status_from_db, NoStatus}
    BY DEF StatusToWrite, status_candidate
  <2>3. StatusToWrite \in StatusOpt
    BY <1>1, LocalsTyped
  <2>4. CASE row = NoRow \/ StatusToWrite = NoStatus
    BY <1>1, <1>3, <1>4, <1>5, <2>1, <2>4, EndStepInside DEF DeadPcs
  <2>5. CASE row # NoRow /\ StatusToWrite # NoStatus
    <3>1. row' # NoRow /\ row'.status = StatusToWrite /\ row'.mine = row.mine
      BY <1>1, <2>1, <2>3, <2>5, RowKept
    <3>2. status_from_db # NoStatus => status_from_db = snap.status /\ snap # NoRow
      BY DEF status_from_db
    <3>3. Fails => row'.status # "Success"
      BY <1>2, <1>5, <2>2, <2>5, <3>1, <3>2
    <3>4. Dead(row)' => trade_message_is_terminal(dm) /\ Fails
      BY <1>2, <1>4, <1>5, <2>2, <2>5, <3>1, <3>2 DEF Dead
    <3>5. pc' \in DeadPcs
      BY <2>1 DEF DeadPcs
    <3> QED BY <1>1, <1>5, <2>1, <2>5, <3>1, <3>3, <3>4, <3>5, EndStepInside
  <2> QED BY <2>4, <2>5
<1>17. CASE PublishRow
  <2>1. /\ pc = "publish" /\ pc' = "seen"
        /\ UNCHANGED <<trade, published, cur, inbox, tracked, flow, row, snap, base>>
    BY <1>17 DEF PublishRow
  <2> QED BY <1>1, <1>3, <1>4, <1>5, <2>1, EndStepInside DEF DeadPcs
<1>18. CASE AdvanceCursor
  <2>1. /\ pc = "seen" /\ pc' = "cleanup"
        /\ row' = IF row = NoRow \/ row.seen >= dm.ts THEN row ELSE [row EXCEPT !.seen = dm.ts]
        /\ UNCHANGED <<trade, published, cur, inbox, tracked, flow, snap, base>>
    BY <1>18 DEF AdvanceCursor
  <2>2. /\ row = NoRow => row' = NoRow
        /\ row # NoRow => row' # NoRow /\ row'.status = row.status /\ row'.mine = row.mine
    <3>1. dm.ts \in Nat
      BY <1>1 DEF Dms
    <3> QED BY <1>1, <2>1, <3>1, RowKept
  <2> QED BY <1>1, <1>3, <1>4, <1>5, <2>1, <2>2, EndStepInside DEF DeadPcs
<1>19. CASE Cleanup
  <2>1. /\ pc = "cleanup" /\ pc' = "idle" /\ snap' = NoRow /\ base' = NoRow
        /\ tracked' = (tracked /\ ~trade_message_is_terminal(dm))
        /\ UNCHANGED <<trade, published, row, inbox>>
    BY <1>19 DEF Cleanup, Finish
  <2>2. Fails' = Fails /\ Ends' = Ends /\ AllPublished' = AllPublished /\ (Fails => Ends)
    BY <1>1, <2>1, SameConversation, FailingTrade
  <2>3. Ends /\ HandlesLast => ~tracked'
    BY <2>1 DEF Ends, HandlesLast, dm
  <2>4. ~Dead(snap)' /\ (Dead(row) <=> Dead(row)')
    BY <2>1 DEF Dead
  <2> QED BY <1>3, <2>1, <2>2, <2>3, <2>4
          DEF EndInv, OwnRows, NothingQueued, DeadAtEnd, MissingIsUntracked, NoSuccess, HandlesLast
<1> QED BY <1>6, <1>7, <1>8, <1>9, <1>10, <1>11, <1>12, <1>13, <1>14, <1>15, <1>16, <1>17, <1>18,
           <1>19 DEF Handling

\* The listener starts over: a dead or missing order is not listened to.
LEMMA EndStepStart ==
  ASSUME EndInv, StartListener, UNCHANGED <<trade, published, row>>,
         inbox' \subseteq inbox
  PROVE  EndInv'
<1>1. /\ tracked' = IsStartupActive(row) /\ snap' = NoRow /\ base' = NoRow
      /\ pc' \in {"idle", "lookup", "snapshot"}
  BY DEF StartListener, Finish, StartHandling
<1>2. Fails' = Fails /\ Ends' = Ends /\ AllPublished' = AllPublished
  BY SameConversation
<1>3. (Dead(row) => ~tracked') /\ (row = NoRow => ~tracked') /\ (Dead(row) <=> Dead(row)')
  BY <1>1 DEF Dead, IsStartupActive
<1>4. ~Dead(snap)'
  BY <1>1 DEF Dead
<1> QED BY <1>1, <1>2, <1>3, <1>4
        DEF EndInv, OwnRows, NothingQueued, DeadAtEnd, MissingIsUntracked, NoSuccess

LEMMA EndStep ==
  ASSUME EndComesLast, OneOutcome, IInv, EndInv, [Next]_vars
  PROVE  EndInv'
<1> USE DEF world, ui, locals, history, listener
<1>1. /\ TypeOK /\ NothingStoredYet /\ SubscribedWhileHandling
      /\ (Fails => Ends /\ Len(trade.dms) > trade.early)
      /\ trade.early \in Nat /\ published \in Nat /\ Len(trade.dms) \in Nat
      /\ published <= Len(trade.dms)
  BY FailingTrade, TradeTyped DEF IInv, Control, TypeOK
<1>2. Ends => Len(trade.dms) > trade.early
  <2>1. Ends => Len(trade.dms) \in 1 .. Len(trade.dms)
    BY <1>1 DEF Ends
  <2> QED BY <1>1, <2>1, LastWords DEF Ends
<1>3. CASE Handling
  BY <1>3, EndStepHandling
<1>4. CASE TrackOrder
  <2>1. /\ "track" \in inbox /\ pc = "idle" /\ inbox' \subseteq inbox /\ tracked' = TRUE
        /\ UNCHANGED <<trade, published, row, snap, base, pc, cur, flow>>
    BY <1>4 DEF TrackOrder
  <2>2. Fails' = Fails /\ Ends' = Ends /\ AllPublished' = AllPublished
        /\ trade_message_is_terminal(dm)' = trade_message_is_terminal(dm)
    BY <2>1, SameConversation
  <2>3. ~Dead(row)
    BY <1>1, <2>1 DEF EndInv, DeadAtEnd, NothingQueued
  <2>4. ~Dead(row)' /\ ~Dead(snap)'
    BY <2>1, <2>3 DEF EndInv, DeadAtEnd, Dead
  <2>5. ~(Fails /\ trade.maker /\ row = NoRow)
    BY <2>1 DEF EndInv, MissingIsUntracked
  <2> QED BY <2>1, <2>2, <2>4, <2>5
          DEF EndInv, OwnRows, NothingQueued, DeadAtEnd, MissingIsUntracked, NoSuccess, Awaited
<1>5. ASSUME NEW i \in fresh, Receive(i) PROVE EndInv'
  <2>1. pc = "idle" /\ tracked /\ ~Dead(row) /\ UNCHANGED <<trade, published, row, inbox, tracked, flow>>
    BY <1>5 DEF Receive, EndInv, DeadAtEnd, DeadPcs
  <2>2. Fails' = Fails /\ Ends' = Ends /\ AllPublished' = AllPublished
    BY <2>1, SameConversation
  <2>3. ~Dead(row)' /\ ~(Fails /\ trade.maker /\ row = NoRow)
    BY <2>1 DEF Dead, EndInv, MissingIsUntracked, HandlesLast
  <2>4. CASE dropped
    <3>1. UNCHANGED listener
      BY <1>5, <2>4 DEF Receive
    <3>2. ~Dead(snap)' /\ base # NoRow => ~Awaited
      BY <3>1 DEF EndInv, DeadAtEnd, Dead, OwnRows
    <3> QED BY <2>1, <2>2, <2>3, <3>1, <3>2
            DEF EndInv, OwnRows, NothingQueued, DeadAtEnd, MissingIsUntracked, NoSuccess, Awaited, Dead
  <2>5. CASE ~dropped
    <3>1. pc' \in {"lookup", "snapshot"} /\ snap' = NoRow /\ base' = NoRow
      BY <1>5, <2>5 DEF Receive, StartHandling
    <3>2. ~Dead(snap)'
      BY <3>1 DEF Dead
    <3> QED BY <2>1, <2>2, <2>3, <3>1, <3>2
            DEF EndInv, OwnRows, NothingQueued, DeadAtEnd, MissingIsUntracked, NoSuccess
  <2> QED BY <2>4, <2>5
\* Nothing but messages, Messages rows and popups.
<1>6. ASSUME UNCHANGED <<trade, row, tracked, listener>>, flow' = flow \/ ~(flow' \in {"saving", "detached"}),
             "track" \in inbox' => "track" \in inbox, AllPublished => AllPublished',
             AllPublished' /\ Ends => "track" \notin inbox \/ AllPublished
      PROVE  EndInv'
  <2>1. Fails' = Fails /\ Ends' = Ends /\ HandlesLast' = HandlesLast
        /\ trade_message_is_terminal(dm)' = trade_message_is_terminal(dm)
    BY <1>6, SameConversation DEF HandlesLast
  <2>2. (Dead(row)' <=> Dead(row)) /\ (Dead(snap)' <=> Dead(snap))
    BY <1>6 DEF Dead
  <2>3. base # NoRow => ~Awaited'
    BY <1>6 DEF EndInv, OwnRows, Awaited
  <2>4. OwnRows' /\ NoSuccess'
    BY <1>6, <2>1, <2>3 DEF EndInv, OwnRows, NoSuccess
  <2>5. NothingQueued'
    BY <1>6, <2>1 DEF EndInv, NothingQueued
  <2>6. DeadAtEnd'
    BY <1>6, <2>1, <2>2 DEF EndInv, DeadAtEnd
  <2>7. MissingIsUntracked'
    BY <1>6, <2>1 DEF EndInv, MissingIsUntracked
  <2> QED BY <2>4, <2>5, <2>6, <2>7 DEF EndInv
<1>7. CASE Publish
  <2>1. /\ published < Len(trade.dms) /\ published' = published + 1
        /\ published < trade.early \/ "track" \notin inbox
        /\ UNCHANGED <<trade, row, tracked, listener, flow, inbox>>
    BY <1>7 DEF Publish
  <2>2. ~AllPublished /\ (AllPublished' /\ Ends => "track" \notin inbox)
    BY <1>1, <1>2, <2>1 DEF AllPublished
  <2> QED BY <1>6, <2>1, <2>2
<1>8. CASE SaveOrder
  <2>1. /\ Awaited /\ row' = SavedRow(trade.saved, trade.maker)
        /\ UNCHANGED <<trade, published, tracked, listener>>
        /\ flow' \in {"done", "untracked"}
    BY <1>8 DEF SaveOrder, Awaited
  <2>2. base = NoRow /\ row = NoRow /\ published <= trade.early
    BY <1>1, <2>1 DEF EndInv, OwnRows, NothingStoredYet
  <2>3. Ends => ~AllPublished
    BY <1>1, <1>2, <2>2 DEF AllPublished
  <2>4. trade.saved \in Statuses \ TerminalTradeStatuses
    BY <1>1, TradeTyped DEF EndComesLast, TypeOK
  <2>5. row' # NoRow /\ row'.mine = trade.maker /\ row'.status = trade.saved
    <3>1. row' \in Rows
      BY <1>1, <2>1, <2>4, SavedRowTyped, TradeTyped DEF StatusOpt, TypeOK
    <3> QED BY <2>1, <3>1, AbsentAssumption DEF SavedRow
  <2>6. ~Dead(row)' /\ row'.status # "Success" /\ ~Dead(snap)'
    BY <2>1, <2>4, <2>5 DEF Dead, TerminalDmStatuses, TerminalTradeStatuses, EndInv, DeadAtEnd
  <2>7. Fails' = Fails /\ Ends' = Ends /\ AllPublished' = AllPublished
        /\ trade_message_is_terminal(dm)' = trade_message_is_terminal(dm)
    BY <2>1, SameConversation
  <2> QED BY <1>1, <2>1, <2>2, <2>3, <2>5, <2>6, <2>7
          DEF EndInv, OwnRows, NothingQueued, DeadAtEnd, MissingIsUntracked, NoSuccess
<1>9. CASE ShowResult \/ HandleNotification \/ ForgetDeleted
  BY <1>6, <1>9 DEF ShowResult, HandleNotification, ForgetDeleted, AllPublished
<1>10. CASE Restart
  BY <1>10, EndStepStart DEF Restart
<1>11. CASE Reload
  BY <1>11, EndStepStart DEF Reload
<1>12. CASE DeleteOrder
  <2>1. /\ row # NoRow /\ row.status \in TerminalTradeStatuses /\ row' = NoRow
        /\ inbox' = inbox \cup {"deleted"}
        /\ UNCHANGED <<trade, published, tracked, flow, listener>>
    BY <1>12 DEF DeleteOrder
  <2>2. Fails' = Fails /\ Ends' = Ends /\ AllPublished' = AllPublished
        /\ trade_message_is_terminal(dm)' = trade_message_is_terminal(dm)
        /\ HandlesLast' = HandlesLast
    BY <2>1, SameConversation DEF HandlesLast
  <2>3. Fails => Dead(row)
    BY <2>1 DEF EndInv, NoSuccess, Dead, TerminalDmStatuses
  <2>4. Fails => "track" \notin inbox /\ (~tracked \/ HandlesLast)
    BY <1>1, <2>3 DEF EndInv, DeadAtEnd, NothingQueued, HandlesLast, DeadPcs
  <2>5. ~Dead(row)' /\ ~Dead(snap)'
    BY <2>1 DEF Dead, EndInv, DeadAtEnd
  <2> QED BY <2>1, <2>2, <2>4, <2>5
          DEF EndInv, OwnRows, NothingQueued, DeadAtEnd, MissingIsUntracked, NoSuccess, Awaited
<1>13. CASE UNCHANGED vars
  BY <1>6, <1>13 DEF vars, AllPublished
<1> QED BY <1>3, <1>4, <1>5, <1>7, <1>8, <1>9, <1>10, <1>11, <1>12, <1>13 DEF Next, ListenerNext

LEMMA EndInit ==
  ASSUME EndComesLast, OneOutcome, Init
  PROVE  EndInv
<1>1. ~Dead(row) /\ ~Dead(snap)
  BY DEF Init, Dead
<1> QED BY <1>1, TradeTyped
        DEF Init, EndInv, OwnRows, NothingQueued, DeadAtEnd, MissingIsUntracked, NoSuccess

\* For every conversation that says its end last: once the row says that the trade
\* has failed, Mostro's messages no longer reach it, however the listener, the other
\* tasks, a crash or a respawn interleave.
THEOREM DeadOrdersAreReleased ==
  ASSUME EndComesLast, OneOutcome
  PROVE  Spec => []DeadOrderIsReleased
<1>1. Init => EndInv
  BY EndInit
<1>2. IInv /\ EndInv /\ [Next]_vars => EndInv'
  BY EndStep
<1>3. EndInv => DeadOrderIsReleased
  BY DEF EndInv, DeadAtEnd, DeadOrderIsReleased, Dead, AtRest, DeadPcs
<1> QED BY <1>1, <1>2, <1>3, Invariance, PTL DEF Spec

-----------------------------------------------------------------------------
(* Nothing is missed.                                                      *)

\* A take is listened to from the request on, and no command of its task is left
\* behind the message that ends it.
TakerEnd == ~trade.maker /\ Ends /\ AllPublished => "track" \notin inbox
TakerSubscribed == ~trade.maker /\ ("track" \in inbox \/ flow = "saving") => tracked

\* The newest message has been handled, is, or will be.
NewestKept ==
  ~trade.maker /\ tracked /\ ~dropped /\ published > 0 =>
    published \in handled \cup fresh \/ (pc # "idle" /\ cur = published)

KeptInv == TakerEnd /\ TakerSubscribed /\ NewestKept

LEMMA KeptHandling ==
  ASSUME EndComesLast, IInv, KeptInv, Handling
  PROVE  KeptInv'
<1> USE DEF Goto, locals, history, world, ui
<1>1. pc # "idle" /\ TypeOK /\ tracked /\ ListingsOnly /\ NothingStoredYet
  BY DEF IInv, Control, SubscribedWhileHandling, Handling, NewOrderLookup, DropTake,
         Forget, RevertStatus, SaveChild, ReadForUpsert, WriteUpsert, Snapshot, RecordDispute,
         TrackChat, StatusWrite, PublishRow, AdvanceCursor, Cleanup
<1>2. /\ cur \in 1 .. Len(trade.dms)
      /\ trade_message_is_terminal(dm) => HandlesLast /\ AllPublished /\ Ends
      /\ is_pending_listing(dm) => ~trade_message_is_terminal(dm)
  BY <1>1, HandledWords
<1>3. CASE Cleanup
  <2>1. /\ tracked' = (tracked /\ ~trade_message_is_terminal(dm))
        /\ fresh' = IF tracked' THEN fresh ELSE {}
        /\ handled' = handled \cup {cur}
        /\ UNCHANGED <<trade, published, dropped, flow, inbox>>
    BY <1>3 DEF Cleanup
  <2>2. Ends' = Ends /\ AllPublished' = AllPublished
    BY <2>1, SameConversation
  <2>3. trade_message_is_terminal(dm) => flow # "saving"
    <3>1. trade_message_is_terminal(dm) => Len(trade.dms) > trade.early
      BY <1>1, <1>2, LastWords DEF dm
    <3>2. trade.early \in Nat /\ published \in Nat /\ Len(trade.dms) \in Nat
      BY <1>1, TradeTyped DEF TypeOK
    <3> QED BY <1>1, <1>2, <3>1, <3>2 DEF NothingStoredYet, Awaited, AllPublished
  <2>4. TakerSubscribed'
    BY <1>1, <1>2, <2>1, <2>3 DEF KeptInv, TakerSubscribed, TakerEnd
  <2> QED BY <2>1, <2>2, <2>4 DEF KeptInv, TakerEnd, NewestKept
<1>4. CASE SaveChild
  <2>1. /\ inbox' = inbox \cup {"track"} /\ pc' # "idle" /\ is_pending_listing(dm)
        /\ UNCHANGED <<trade, published, dropped, flow, tracked, fresh, handled, cur>>
    BY <1>1, <1>4 DEF SaveChild, ListingsOnly, ListingPcs
  <2>2. Ends' = Ends /\ AllPublished' = AllPublished
    BY <2>1, SameConversation
  <2>3. ~trade.maker => ~Ends
    <3>1. ~trade.maker => cur = Len(trade.dms)
      BY <1>1, <1>2, <2>1, LastWords DEF dm
    <3> QED BY <1>2, <2>1, <3>1 DEF Ends, dm
  <2> QED BY <1>1, <2>1, <2>2, <2>3 DEF KeptInv, TakerEnd, TakerSubscribed, NewestKept
<1>5. CASE Handling /\ ~Cleanup /\ ~SaveChild
  <2>1. /\ pc' # "idle"
        /\ UNCHANGED <<trade, published, dropped, flow, tracked, fresh, handled, cur, inbox>>
    BY <1>5 DEF Handling, NewOrderLookup, DropTake, Forget, RevertStatus, ReadForUpsert,
           WriteUpsert, Snapshot, RecordDispute, TrackChat, StatusWrite, PublishRow, AdvanceCursor
  <2>2. Ends' = Ends /\ AllPublished' = AllPublished
    BY <2>1, SameConversation
  <2> QED BY <1>1, <2>1, <2>2 DEF KeptInv, TakerEnd, TakerSubscribed, NewestKept
<1> QED BY <1>3, <1>4, <1>5

\* What a new listener is sent again includes the newest message.
LEMMA KeptStart ==
  ASSUME TypeOK, KeptInv, StartListener, UNCHANGED <<trade, published, row>>,
         inbox' \subseteq inbox \ {"track"}, flow' # "saving"
  PROVE  KeptInv'
<1>1. tracked' = IsStartupActive(row) /\ fresh' = Redelivered(row) /\ published \in Nat
  BY TradeTyped DEF StartListener, TypeOK
<1>2. tracked' /\ published > 0 => published \in fresh'
  BY <1>1 DEF Redelivered
<1>3. Ends' = Ends /\ AllPublished' = AllPublished
  BY SameConversation
<1> QED BY <1>1, <1>2, <1>3 DEF KeptInv, TakerEnd, TakerSubscribed, NewestKept

LEMMA KeptStep ==
  ASSUME EndComesLast, IInv, KeptInv, [Next]_vars
  PROVE  KeptInv'
<1> USE DEF world, ui, locals, history, listener
<1>1. /\ TypeOK /\ NothingStoredYet
      /\ trade.early \in Nat /\ published \in Nat /\ Len(trade.dms) \in Nat
  BY TradeTyped DEF IInv, Control, TypeOK
<1>2. Ends => Len(trade.dms) > trade.early
  <2>1. Ends => Len(trade.dms) \in 1 .. Len(trade.dms)
    BY <1>1 DEF Ends
  <2> QED BY <1>1, <2>1, LastWords DEF Ends
<1>3. CASE Handling
  BY <1>3, KeptHandling
<1>4. CASE TrackOrder
  <2>1. /\ "track" \in inbox /\ inbox' = inbox \ {"track"} /\ tracked'
        /\ UNCHANGED <<trade, published, dropped, flow, fresh, handled, pc, cur>>
    BY <1>4 DEF TrackOrder
  <2>2. Ends' = Ends /\ AllPublished' = AllPublished
    BY <2>1, SameConversation
  <2> QED BY <2>1, <2>2 DEF KeptInv, TakerEnd, TakerSubscribed, NewestKept
<1>5. ASSUME NEW i \in fresh, Receive(i) PROVE KeptInv'
  <2>1. /\ pc = "idle" /\ fresh' = fresh \ {i}
        /\ UNCHANGED <<trade, published, dropped, flow, tracked, inbox, handled>>
        /\ ~dropped => pc' # "idle" /\ cur' = i
    BY <1>5 DEF Receive, StartHandling
  <2>2. Ends' = Ends /\ AllPublished' = AllPublished
    BY <2>1, SameConversation
  <2> QED BY <2>1, <2>2 DEF KeptInv, TakerEnd, TakerSubscribed, NewestKept
<1>6. CASE Publish
  <2>1. /\ published < Len(trade.dms) /\ published' = published + 1
        /\ published < trade.early \/ "track" \notin inbox
        /\ fresh' = IF tracked THEN fresh \cup {published'} ELSE fresh
        /\ UNCHANGED <<trade, dropped, flow, tracked, inbox, listener>>
    BY <1>6 DEF Publish
  <2>2. Ends' = Ends /\ (AllPublished' /\ Ends => "track" \notin inbox)
    BY <1>1, <1>2, <2>1, SameConversation DEF AllPublished
  <2> QED BY <2>1, <2>2 DEF KeptInv, TakerEnd, TakerSubscribed, NewestKept
<1>7. CASE SaveOrder
  <2>1. /\ Awaited /\ UNCHANGED <<trade, published, dropped, tracked, fresh, listener>>
        /\ flow' # "saving"
        /\ "track" \in inbox' => "track" \in inbox \/ flow = "saving"
    BY <1>7 DEF SaveOrder, Awaited
  <2>2. Ends' = Ends /\ AllPublished' = AllPublished
    BY <2>1, SameConversation
  <2>3. Ends => ~AllPublished
    BY <1>1, <1>2, <2>1 DEF NothingStoredYet, AllPublished
  <2>4. TakerEnd' /\ NewestKept'
    BY <2>1, <2>2, <2>3 DEF KeptInv, TakerEnd, NewestKept
  <2>5. TakerSubscribed'
    BY <2>1 DEF KeptInv, TakerSubscribed
  <2> QED BY <2>4, <2>5 DEF KeptInv
<1>8. CASE ShowResult \/ HandleNotification \/ ForgetDeleted \/ DeleteOrder \/ UNCHANGED vars
  <2>1. /\ UNCHANGED <<trade, published, flow, tracked, fresh, listener>>
        /\ dropped' = dropped \/ dropped' = TRUE
        /\ "track" \in inbox' => "track" \in inbox
    BY <1>8 DEF ShowResult, HandleNotification, ForgetDeleted, DeleteOrder, vars
  <2>2. Ends' = Ends /\ AllPublished' = AllPublished
    BY <2>1, SameConversation
  <2> QED BY <2>1, <2>2 DEF KeptInv, TakerEnd, TakerSubscribed, NewestKept
<1>9. CASE Restart
  BY <1>1, <1>9, KeptStart DEF Restart
<1>10. CASE Reload
  BY <1>1, <1>10, KeptStart DEF Reload
<1> QED BY <1>3, <1>4, <1>5, <1>6, <1>7, <1>8, <1>9, <1>10 DEF Next, ListenerNext

LEMMA KeptInit ==
  ASSUME Init
  PROVE  KeptInv
<1>1. ~trade.maker => tracked
  BY TradeTyped DEF Init
<1> QED BY <1>1 DEF Init, KeptInv, TakerEnd, TakerSubscribed, NewestKept

\* For every conversation that says its end last: once nothing is on its way, the
\* newest message to a take that is listened to has been handled, whatever was
\* aborted, restarted, delivered twice or out of order before.
THEOREM NothingIsMissed ==
  ASSUME EndComesLast
  PROVE  Spec => []NothingMissed
<1>1. Init => KeptInv
  BY KeptInit
<1>2. IInv /\ KeptInv /\ [Next]_vars => KeptInv'
  BY KeptStep
<1>3. KeptInv => NothingMissed
  BY DEF KeptInv, NewestKept, NothingMissed, Quiescent, AtRest
<1> QED BY <1>1, <1>2, <1>3, Invariance, PTL DEF Spec

-----------------------------------------------------------------------------
(* The end is recorded.                                                    *)

DeadMsg(m) == m # NoMsg /\ m.status \in TerminalDmStatuses

\* The row is gone, or says that the trade has failed and is not written any more.
Settled == row = NoRow \/ (Dead(row) /\ pc \in {"seen", "cleanup", "idle"})

\* A trade that fails is not shown as a success.
NoSuccessShown ==
  Fails => /\ msg # NoMsg => msg.status # "Success"
           /\ prior # NoMsg => prior.status # "Success"

\* The Messages row says that the trade has failed only when nothing else can be
\* stored any more; what the listener read of it before does so only for a row that
\* is gone.
ShownIsStored == DeadMsg(msg) => Fails /\ AllPublished /\ Settled
PriorIsGone == DeadMsg(prior) => Fails /\ AllPublished /\ row = NoRow
DeletedIsGone == Fails /\ "deleted" \in inbox => AllPublished /\ row = NoRow

\* The message that says so stores it before its handling ends.
EndIsStored ==
  Fails /\ HandlesLast =>
    /\ pc = "forgetTake" => row = NoRow
    /\ pc \in {"publish", "seen", "cleanup"} => row = NoRow \/ Dead(row)
EndIsHandled ==
  Fails /\ Len(trade.dms) \in handled => pc = "idle" /\ ~tracked /\ Settled

RecordedInv ==
  /\ NoSuccessShown /\ ShownIsStored /\ PriorIsGone
  /\ DeletedIsGone /\ EndIsStored /\ EndIsHandled

\* After the last message of a trade that fails the row stays gone, or dead.
LEMMA StaysSettled ==
  ASSUME EndComesLast, OneOutcome, IInv, EndInv, [Next]_vars, Fails, AllPublished
  PROVE  /\ UNCHANGED trade /\ Fails' /\ AllPublished'
         /\ row = NoRow => row' = NoRow
         /\ ~Handling => row' \in {NoRow, row}
         /\ Settled => Settled'
<1> USE DEF world, ui, locals, history, listener
<1>1. /\ TypeOK /\ ~Awaited /\ pc # "saveChild" /\ published = Len(trade.dms)
      /\ Dead(row) /\ pc \in {"seen", "cleanup", "idle"} => pc # "idle" \/ ~tracked
  <2>1. Ends /\ Len(trade.dms) > trade.early /\ Len(trade.dms) \in Nat /\ trade.early \in Nat
    BY FailingTrade, TradeTyped DEF IInv, TypeOK
  <2> QED BY <2>1 DEF IInv, Control, NothingStoredYet, AllPublished, EndInv, NothingQueued,
             DeadAtEnd, DeadPcs
<1>2. /\ UNCHANGED trade /\ Len(trade.dms) \in Nat
      /\ UNCHANGED published
  <2>1. ~Publish
    BY <1>1 DEF Publish
  <2> QED BY <1>1, <2>1, TradeTyped DEF Next, ListenerNext, Handling, NewOrderLookup, DropTake,
     Forget, RevertStatus, SaveChild, ReadForUpsert, WriteUpsert, Snapshot, RecordDispute,
     TrackChat, StatusWrite, PublishRow, AdvanceCursor, Cleanup, TrackOrder, Receive,
     SaveOrder, ShowResult, HandleNotification, DeleteOrder, ForgetDeleted, Restart, Reload, vars,
     TypeOK
<1>3. Fails' /\ AllPublished'
  BY <1>2, SameConversation
<1>4. ~Handling => row' \in {NoRow, row}
  BY <1>1 DEF Awaited, Next, ListenerNext, TrackOrder, Receive, Publish, SaveOrder, ShowResult,
     HandleNotification, DeleteOrder, ForgetDeleted, Restart, Reload, vars
<1>5. Handling /\ row = NoRow => row' = NoRow
  BY <1>1 DEF Handling, NewOrderLookup, DropTake, Forget, RevertStatus, SaveChild, ReadForUpsert,
     WriteUpsert, Snapshot, RecordDispute, TrackChat, StatusWrite, PublishRow, AdvanceCursor, Cleanup
<1>6. ASSUME Dead(row), pc \in {"seen", "cleanup", "idle"} PROVE Settled'
  <2>1. CASE AdvanceCursor
    <3>1. pc' = "cleanup" /\ row' = IF row.seen >= dm.ts THEN row ELSE [row EXCEPT !.seen = dm.ts]
      BY <1>6, <2>1 DEF AdvanceCursor, Dead, Goto
    <3>2. row \in Rows /\ dm.ts \in Nat
      BY <1>1, <1>6, <2>1, HandledTyped DEF TypeOK, Dead, Dms, AdvanceCursor
    <3>3. row' # NoRow /\ row'.status = row.status
      BY <1>6, <3>1, <3>2, RowKept DEF Dead
    <3> QED BY <1>6, <3>1, <3>3 DEF Settled, Dead
  <2>2. CASE Cleanup
    BY <1>6, <2>2 DEF Cleanup, Finish, Settled, Dead
  <2>3. ASSUME ~AdvanceCursor, ~Cleanup PROVE ~Handling
    BY <1>6, <2>3 DEF Handling, NewOrderLookup, DropTake, Forget, RevertStatus, SaveChild,
       ReadForUpsert, WriteUpsert, Snapshot, RecordDispute, TrackChat, StatusWrite, PublishRow
  <2>4. ASSUME ~Handling PROVE pc' \in {pc, "idle"}
    <3>1. ~IsStartupActive(row)
      BY <1>6 DEF IsStartupActive, Dead
    <3>2. StartListener => pc' = "idle"
      BY <3>1 DEF StartListener, Finish
    <3>3. \A i \in fresh : ~Receive(i)
      BY <1>1, <1>6 DEF Receive
    <3> QED BY <2>4, <3>2, <3>3 DEF Next, ListenerNext, TrackOrder, Publish, SaveOrder,
            ShowResult, HandleNotification, DeleteOrder, ForgetDeleted, Restart, Reload, vars
  <2>5. ASSUME ~Handling PROVE Settled'
    BY <1>4, <1>6, <2>4, <2>5 DEF Settled, Dead
  <2> QED BY <2>1, <2>2, <2>3, <2>5
<1>7. Settled => Settled'
  BY <1>4, <1>5, <1>6 DEF Settled
<1> QED BY <1>2, <1>3, <1>4, <1>5, <1>7

\* Where the status a Messages row shows comes from.
LEMMA ShownSources ==
  ASSUME TypeOK, [Next]_vars
  PROVE  /\ UNCHANGED trade
         /\ \/ msg' = NoMsg
            \/ msg # NoMsg /\ msg'.status = msg.status
            \/ /\ pc = "publish" /\ pc' = "seen" /\ UNCHANGED row
               /\ msg'.status = effective_order_status
            \/ msg'.status = trade.saved
            \/ /\ row # NoRow /\ msg'.status = row.status /\ UNCHANGED row
               /\ "deleted" \in inbox \/ StartListener
         /\ \/ prior' \in {NoMsg, prior}
            \/ pc = "trackChat" /\ prior' = msg /\ UNCHANGED row
<1> USE DEF world, ui, locals, history, listener, Goto
<1>1. CASE ShowResult
  <2>1. ResultRow("NewOrder", FALSE).status = trade.saved /\ ResultRow("AddInvoice", TRUE).status = trade.saved
    BY DEF ResultRow
  <2>2. msg # NoMsg => [msg EXCEPT !.popup = TRUE].status = msg.status
    BY DEF TypeOK, Msgs
  <2> QED BY <1>1, <2>1, <2>2 DEF ShowResult
<1>2. CASE HandleNotification
  <2>1. msg # NoMsg => [msg EXCEPT !.popup = TRUE].status = msg.status
    BY DEF TypeOK, Msgs
  <2>2. msg' = msg \/ (msg # NoMsg /\ msg' = [msg EXCEPT !.popup = TRUE])
    BY <1>2 DEF HandleNotification
  <2> QED BY <1>2, <2>1, <2>2 DEF HandleNotification
<1>3. CASE PublishRow
  <2>1. order_message.status = effective_order_status
    BY DEF order_message
  <2> QED BY <1>3, <2>1 DEF PublishRow
<1>4. CASE ForgetDeleted \/ Restart \/ Reload
  <2>1. row # NoRow => db_order_to_history_message(row).status = row.status
    BY DEF db_order_to_history_message
  <2>2. StartListener => prior' = NoMsg
    BY DEF StartListener, Finish, StartHandling
  <2> QED BY <1>4, <2>1, <2>2 DEF ForgetDeleted, Restart, Reload
<1>5. CASE Handling /\ ~PublishRow
  BY <1>5 DEF Handling, NewOrderLookup, DropTake, Forget, RevertStatus, SaveChild, ReadForUpsert,
     WriteUpsert, Snapshot, RecordDispute, TrackChat, StatusWrite, AdvanceCursor, Cleanup, Finish
<1>6. ASSUME NEW i \in fresh, Receive(i)
      PROVE  UNCHANGED <<trade, msg>> /\ prior' \in {NoMsg, prior}
  BY <1>6 DEF Receive, StartHandling
<1>7. CASE TrackOrder \/ Publish \/ SaveOrder \/ DeleteOrder \/ UNCHANGED vars
  BY <1>7 DEF TrackOrder, Publish, SaveOrder, DeleteOrder, vars
<1> QED BY <1>1, <1>2, <1>3, <1>4, <1>5, <1>6, <1>7 DEF Next, ListenerNext

\* A Messages row that is written is one of the order's.
LEMMA ShownStatus ==
  ASSUME EndComesLast, OneOutcome, IInv, EndInv, RecordedInv, pc = "publish"
  PROVE  /\ Fails => effective_order_status # "Success"
         /\ effective_order_status \in TerminalDmStatuses =>
              Fails /\ AllPublished /\ (row = NoRow \/ Dead(row))
<1>1. TypeOK /\ cur \in 1 .. Len(trade.dms)
  BY HandledWords DEF IInv
<1>2. effective_order_status \in {resolved_status_candidate(dm), status_from_db, NoStatus}
        \cup (IF prior = NoMsg THEN {} ELSE {prior.status})
  BY DEF effective_order_status, status_candidate, baseline_status
<1>3. status_from_db = NoStatus \/ (snap # NoRow /\ status_from_db = snap.status)
  BY DEF status_from_db
<1>4. NoStatus \notin TerminalTradeStatuses
  BY DEF TerminalTradeStatuses, NoStatus
<1>5. Fails => effective_order_status # "Success"
  <2>1. Fails => resolved_status_candidate(dm) # "Success"
    BY <1>1, FailingTrade DEF dm
  <2> QED BY <1>2, <1>3, <1>4, <2>1
          DEF EndInv, NoSuccess, RecordedInv, NoSuccessShown, TerminalTradeStatuses
<1>6. ASSUME effective_order_status \in TerminalDmStatuses
      PROVE  Fails /\ AllPublished /\ (row = NoRow \/ Dead(row))
  <2>1. CASE effective_order_status = resolved_status_candidate(dm)
    BY <1>1, <1>6, <2>1, HandledWords DEF RecordedInv, EndIsStored
  <2>2. CASE prior # NoMsg /\ effective_order_status = prior.status
    BY <1>6, <2>2 DEF RecordedInv, PriorIsGone, DeadMsg
  <2>3. effective_order_status # status_from_db
    BY <1>3, <1>4, <1>6 DEF EndInv, DeadAtEnd, Dead, TerminalDmStatuses
  <2> QED BY <1>2, <1>4, <1>6, <2>1, <2>2, <2>3 DEF TerminalDmStatuses
<1> QED BY <1>5, <1>6

\* The status step stores the end of the trade.
LEMMA EndIsWritten ==
  ASSUME EndComesLast, OneOutcome, IInv, EndInv, RecordedInv, Fails, HandlesLast, StatusWrite
  PROVE  row' = NoRow \/ Dead(row)'
<1>1. /\ pc = "statusWrite" /\ pc # "idle" /\ cur = Len(trade.dms) /\ TypeOK
      /\ row \in Rows \cup {NoRow} /\ StatusToWrite \in StatusOpt
      /\ Dead(row)' <=> (row' # NoRow /\ row'.status \in TerminalDmStatuses)
  BY LocalsTyped DEF StatusWrite, HandlesLast, IInv, TypeOK, Dead
<1>2. status_candidate \in TerminalDmStatuses
  BY <1>1, FailingTrade DEF status_candidate, dm
<1>3. ASSUME row # NoRow
      PROVE  StatusToWrite = status_candidate /\ status_candidate # NoStatus
  <2>1. baseline_status \notin TerminalTradeStatuses
    <3>1. status_from_db \notin TerminalTradeStatuses
      BY DEF status_from_db, EndInv, NoSuccess, DeadAtEnd, Dead, TerminalDmStatuses,
             TerminalTradeStatuses, NoStatus
    <3>2. prior # NoMsg => prior.status \notin TerminalTradeStatuses
      BY <1>3 DEF RecordedInv, NoSuccessShown, PriorIsGone, DeadMsg, TerminalDmStatuses
    <3> QED BY <3>1, <3>2 DEF baseline_status, TerminalTradeStatuses, NoStatus
  <2>2. status_candidate \in TerminalTradeStatuses /\ status_candidate # NoStatus
    BY <1>2 DEF TerminalDmStatuses, TerminalTradeStatuses, NoStatus
  <2>3. should_accept_candidate /\ status_candidate # baseline_status
    BY <2>1, <2>2 DEF should_accept_candidate, should_apply_status_transition,
       is_terminal_trade_status
  <2> QED BY <2>2, <2>3 DEF StatusToWrite
<1>4. ASSUME row # NoRow PROVE row'.status = status_candidate /\ row' # NoRow
  <2>1. row' = [row EXCEPT !.status = StatusToWrite]
    BY <1>3, <1>4 DEF StatusWrite
  <2> QED BY <1>1, <1>3, <1>4, <2>1, RowKept
<1> QED BY <1>1, <1>2, <1>4 DEF StatusWrite

LEMMA RecordedStep ==
  ASSUME EndComesLast, OneOutcome, IInv, EndInv, RecordedInv, [Next]_vars
  PROVE  RecordedInv'
<1> USE DEF world, ui, locals, history, listener, Goto
<1>1. /\ TypeOK /\ TypeOK' /\ UNCHANGED trade /\ Fails' = Fails /\ Len(trade.dms) \in Nat
      /\ (Fails => Ends /\ Len(trade.dms) > trade.early) /\ trade.early \in Nat
      /\ published \in Nat /\ published <= Len(trade.dms)
      /\ trade.saved \notin TerminalTradeStatuses
      /\ ListingsOnly /\ (pc # "idle" => tracked)
  <2>1. TypeOK /\ TypeOK' /\ UNCHANGED trade /\ ListingsOnly /\ (pc # "idle" => tracked)
    BY StepTyped, ShownSources DEF IInv, Control, SubscribedWhileHandling
  <2>2. /\ trade \in Trades /\ Len(trade.dms) \in Nat /\ trade.early \in Nat
        /\ published \in 0 .. Len(trade.dms)
    BY <2>1, TradeTyped DEF TypeOK
  <2>3. Fails => Ends /\ Len(trade.dms) > trade.early
    BY <2>1, FailingTrade
  <2> QED BY <2>1, <2>2, <2>3, SameConversation DEF EndComesLast
<1>2. /\ HandlesLast => AllPublished
      /\ Len(trade.dms) \in handled => AllPublished
      /\ Dead(row) => Fails /\ AllPublished /\ (~tracked \/ (cur = Len(trade.dms) /\ pc \in DeadPcs))
  BY <1>1 DEF HandlesLast, AllPublished, TypeOK, EndInv, DeadAtEnd
<1>3. ASSUME Fails, AllPublished
      PROVE  /\ AllPublished'
             /\ row = NoRow => row' = NoRow
             /\ ~Handling => row' \in {NoRow, row}
             /\ Settled => Settled'
  BY <1>1, <1>3, StaysSettled
<1>4. NoSuccessShown'
  <2>1. Fails => (row # NoRow => row.status # "Success")
    BY DEF EndInv, NoSuccess
  <2>2. Fails /\ pc = "publish" => effective_order_status # "Success"
    BY ShownStatus
  <2> QED BY <1>1, <2>1, <2>2, ShownSources DEF RecordedInv, NoSuccessShown, TerminalTradeStatuses
<1>5. ShownIsStored'
  <2> SUFFICES ASSUME msg' # NoMsg, msg'.status \in TerminalDmStatuses
               PROVE  Fails /\ AllPublished' /\ Settled'
    BY <1>1 DEF ShownIsStored, DeadMsg
  <2>1. CASE msg # NoMsg /\ msg'.status = msg.status
    BY <1>3, <2>1 DEF RecordedInv, ShownIsStored, DeadMsg
  <2>2. CASE /\ pc = "publish" /\ pc' = "seen" /\ UNCHANGED row
             /\ msg'.status = effective_order_status
    BY <1>3, <2>2, ShownStatus DEF Settled, Dead
  <2>3. CASE row # NoRow /\ msg'.status = row.status /\ UNCHANGED row
    <3>1. Dead(row) /\ Fails /\ AllPublished
      BY <1>2, <2>3 DEF Dead
    <3>2. "deleted" \notin inbox
      BY <2>3, <3>1 DEF RecordedInv, DeletedIsGone
    <3>3. StartListener => pc' = "idle"
      BY <3>1 DEF StartListener, Finish, IsStartupActive, Dead
    <3>4. CASE StartListener
      BY <1>3, <2>3, <3>1, <3>3, <3>4 DEF Settled, Dead
    <3>5. CASE ~StartListener
      BY <1>1, <2>1, <2>2, <3>2, <3>5, ShownSources DEF TerminalDmStatuses
    <3> QED BY <3>4, <3>5
  <2> QED BY <1>1, <2>1, <2>2, <2>3, ShownSources DEF TerminalDmStatuses
<1>6. PriorIsGone'
  <2> SUFFICES ASSUME prior' # NoMsg, prior'.status \in TerminalDmStatuses
               PROVE  Fails /\ AllPublished' /\ row' = NoRow
    BY <1>1 DEF PriorIsGone, DeadMsg
  <2>1. CASE prior' = prior
    BY <1>3, <2>1 DEF RecordedInv, PriorIsGone, DeadMsg
  <2>2. CASE pc = "trackChat" /\ prior' = msg
    <3>1. Fails /\ AllPublished /\ row = NoRow
      BY <2>2 DEF RecordedInv, ShownIsStored, DeadMsg, Settled
    <3> QED BY <1>3, <3>1
  <2> QED BY <1>1, <2>1, <2>2, ShownSources
<1>7. DeletedIsGone'
  <2> SUFFICES ASSUME Fails, "deleted" \in inbox' PROVE AllPublished' /\ row' = NoRow
    BY <1>1 DEF DeletedIsGone
  <2>1. CASE "deleted" \in inbox
    BY <1>3, <2>1 DEF RecordedInv, DeletedIsGone
  <2>2. CASE DeleteOrder
    <3>1. row' = NoRow /\ Dead(row)
      BY <2>2 DEF DeleteOrder, Dead, EndInv, NoSuccess, TerminalDmStatuses
    <3> QED BY <1>2, <1>3, <3>1
  <2>3. Handling => inbox' = inbox \/ SaveChild
    BY DEF Handling, NewOrderLookup, DropTake, Forget, RevertStatus, SaveChild,
       ReadForUpsert, WriteUpsert, Snapshot, RecordDispute, TrackChat, StatusWrite, PublishRow,
       AdvanceCursor, Cleanup
  <2>4. (\E i \in fresh : Receive(i)) => "deleted" \in inbox
    BY DEF Receive
  <2>5. SaveChild \/ SaveOrder => "deleted" \in inbox
    <3>1. SaveChild \/ SaveOrder => inbox' \subseteq inbox \cup {"track", "result"}
      BY DEF SaveChild, SaveOrder
    <3> QED BY <3>1
  <2>6. TrackOrder \/ ShowResult \/ ForgetDeleted \/ Restart \/ Reload => "deleted" \in inbox
    BY DEF TrackOrder, ShowResult, ForgetDeleted, Restart, Reload
  <2>7. Publish \/ HandleNotification \/ UNCHANGED vars => "deleted" \in inbox
    BY DEF Publish, HandleNotification, vars
  <2>8. "deleted" \in inbox \/ DeleteOrder
    BY <2>3, <2>4, <2>5, <2>6, <2>7 DEF Next, ListenerNext
  <2> QED BY <2>1, <2>2, <2>8
<1>8. EndIsStored'
  <2> SUFFICES ASSUME Fails, pc' \in {"forgetTake", "publish", "seen", "cleanup"},
                      cur' = Len(trade.dms)
               PROVE  /\ pc' = "forgetTake" => row' = NoRow
                      /\ row' = NoRow \/ Dead(row)'
    BY <1>1 DEF EndIsStored, HandlesLast
  <2>1. CASE Handling
    <3>1. pc # "idle" /\ cur = Len(trade.dms) /\ HandlesLast
      BY <2>1 DEF Handling, NewOrderLookup, DropTake, Forget, RevertStatus, SaveChild,
         ReadForUpsert, WriteUpsert, Snapshot, RecordDispute, TrackChat, StatusWrite, PublishRow,
         AdvanceCursor, Cleanup, Finish, HandlesLast
    <3>2. /\ trade_message_is_terminal(dm) /\ ~is_pending_listing(dm)
          /\ dm.action \notin ClosingActions => dm.payload = "order"
          /\ IsInvoice(dm) => dm.action \notin ClosingActions /\ dm.payload # "order"
      <4>1. trade_message_is_terminal(dm) /\ ~is_pending_listing(dm)
        BY <1>1, <3>1, HandledWords DEF Ends, dm
      <4>2. IsInvoice(dm) => dm.action \notin ClosingActions /\ dm.payload # "order"
        BY <1>1, <3>1, HandledWords, ClosingOrderHasEnded
           DEF dm, IsInvoice, ClosingActions, TypeOK
      <4> QED BY <4>1, <4>2 DEF trade_message_is_terminal
    <3>3. CASE DropTake
      BY <3>3 DEF DropTake
    <3>4. CASE Forget
      BY <1>1, <3>1, <3>2, <3>4 DEF Forget, RecordedInv, EndIsStored, ListingsOnly, ListingPcs
    <3>5. CASE StatusWrite
      BY <3>1, <3>5, EndIsWritten DEF StatusWrite
    <3>6. CASE PublishRow
      BY <3>1, <3>6 DEF PublishRow, RecordedInv, EndIsStored, Dead
    <3>7. CASE AdvanceCursor
      BY <1>2, <1>3, <3>1, <3>7 DEF AdvanceCursor, RecordedInv, EndIsStored, Settled
    <3> QED BY <1>1, <2>1, <3>1, <3>2, <3>3, <3>4, <3>5, <3>6, <3>7
            DEF Handling, NewOrderLookup, RevertStatus, SaveChild,
                ReadForUpsert, WriteUpsert, Snapshot, RecordDispute, TrackChat, Cleanup,
                Finish, ListingsOnly, ListingPcs
  <2>2. CASE ~Handling
    <3>1. UNCHANGED <<pc, cur>>
      BY <2>2 DEF Next, ListenerNext, TrackOrder, Receive, Publish, SaveOrder, ShowResult,
         HandleNotification, DeleteOrder, ForgetDeleted, Restart, Reload, vars, StartListener,
         StartHandling, Finish
    <3>2. HandlesLast
      BY <3>1 DEF HandlesLast
    <3> QED BY <1>2, <1>3, <2>2, <3>1, <3>2 DEF RecordedInv, EndIsStored, Dead
  <2> QED BY <2>1, <2>2
<1>9. EndIsHandled'
  <2> SUFFICES ASSUME Fails, Len(trade.dms) \in handled'
               PROVE  pc' = "idle" /\ ~tracked' /\ Settled'
    BY <1>1 DEF EndIsHandled
  <2>1. CASE Len(trade.dms) \in handled
    <3>1. pc = "idle" /\ ~tracked /\ Settled /\ Settled' /\ "track" \notin inbox
      BY <1>1, <1>2, <1>3, <2>1 DEF RecordedInv, EndIsHandled, EndInv, NothingQueued
    <3>2. ~IsStartupActive(row)
      BY <3>1 DEF Settled, Dead, IsStartupActive
    <3>3. StartListener => pc' = "idle" /\ ~tracked'
      BY <3>2 DEF StartListener, Finish
    <3>4. ~Handling /\ \A i \in fresh : ~Receive(i)
      BY <3>1 DEF Handling, NewOrderLookup, DropTake, Forget, RevertStatus, SaveChild,
         ReadForUpsert, WriteUpsert, Snapshot, RecordDispute, TrackChat, StatusWrite, PublishRow,
         AdvanceCursor, Cleanup, Receive
    <3>5. pc' = "idle" /\ ~tracked'
      <4>1. Restart \/ Reload => StartListener
        BY DEF Restart, Reload
      <4>2. ~TrackOrder
        BY <3>1 DEF TrackOrder
      <4>3. UNCHANGED <<pc, tracked>> \/ Restart \/ Reload
        BY <3>4, <4>2 DEF Next, ListenerNext, Publish, SaveOrder, ShowResult,
           HandleNotification, DeleteOrder, ForgetDeleted, vars
      <4> QED BY <3>1, <3>3, <4>1, <4>3
    <3> QED BY <3>1, <3>5
  <2>2. CASE Cleanup /\ cur = Len(trade.dms)
    <3>1. HandlesLast /\ pc = "cleanup" /\ pc' = "idle" /\ row' = row
      BY <2>2 DEF Cleanup, HandlesLast, Finish
    <3>2. ~tracked'
      BY <1>1, <2>2 DEF Cleanup, Ends, dm
    <3> QED BY <3>1, <3>2 DEF RecordedInv, EndIsStored, Settled, Dead
  <2>3. Handling /\ ~Cleanup => UNCHANGED handled
    BY DEF Handling, NewOrderLookup, DropTake, Forget, RevertStatus, SaveChild,
       ReadForUpsert, WriteUpsert, Snapshot, RecordDispute, TrackChat, StatusWrite, PublishRow,
       AdvanceCursor
  <2>4. (\E i \in fresh : Receive(i)) \/ StartListener => UNCHANGED handled
    BY DEF Receive, StartListener, StartHandling
  <2>5. ~Cleanup => UNCHANGED handled
    BY <2>3, <2>4 DEF Next, ListenerNext, TrackOrder, Publish, SaveOrder, ShowResult,
       HandleNotification, DeleteOrder, ForgetDeleted, Restart, Reload, vars
  <2>6. Cleanup => handled' = handled \cup {cur}
    BY DEF Cleanup
  <2> QED BY <2>1, <2>2, <2>5, <2>6
<1> QED BY <1>4, <1>5, <1>6, <1>7, <1>8, <1>9 DEF RecordedInv

LEMMA RecordedInit ==
  ASSUME Init
  PROVE  RecordedInv
  BY DEF Init, RecordedInv, NoSuccessShown, ShownIsStored, PriorIsGone, DeletedIsGone,
         EndIsStored, EndIsHandled, DeadMsg, HandlesLast

-----------------------------------------------------------------------------
(* A take that is lost.                                                    *)

\* No row of the user's take is left.
NoTakeLeft == row = NoRow \/ row.mine

UpsertsOnly == pc \in {"upsertRead", "upsertWrite"} => Upserts(dm)

\* A take that is lost never became active.
NeverActive ==
  Loses => /\ row # NoRow => row.status \in PreActiveStatuses
           /\ snap # NoRow => snap.status \in PreActiveStatuses

\* The message that says so drops the row, whichever row it finds.
LossIsHandled ==
  Loses /\ HandlesLast =>
    /\ pc \in ListingPcs \cup {"dropTake", "forgetTake", "seen", "cleanup"}
    /\ pc \notin {"lookup", "dropTake"} => NoTakeLeft
LossIsRecorded == Loses /\ Len(trade.dms) \in handled => NoTakeLeft

LossInv == UpsertsOnly /\ NeverActive /\ LossIsHandled /\ LossIsRecorded

LEMMA LosingTrade ==
  ASSUME EndComesLast, LostBeforeActive, TypeOK, Loses
  PROVE  /\ Len(trade.dms) > trade.early /\ trade.saved \in PreActiveStatuses
         /\ Len(trade.dms) \in Nat /\ trade.early \in Nat
         /\ \A i \in 1 .. Len(trade.dms) :
              /\ resolved_status_candidate(trade.dms[i]) \in PreActiveStatuses \cup {NoStatus}
              /\ Upserts(trade.dms[i]) => trade.dms[i].status \in PreActiveStatuses
<1>1. /\ Len(trade.dms) \in 1 .. Len(trade.dms) /\ Len(trade.dms) \in Nat /\ trade.early \in Nat
      /\ trade \in Trades
  BY TradeTyped DEF TypeOK, Loses
<1>2. Len(trade.dms) > trade.early
  BY <1>1, LastWords DEF Loses
<1> QED BY <1>1, <1>2 DEF LostBeforeActive, Loses

\* What a step of the listener does to the row of a take that is lost.
LEMMA LostRowKept ==
  ASSUME EndComesLast, LostBeforeActive, IInv, EndInv, LossInv, Loses, [Next]_vars
  PROVE  /\ AllPublished /\ NoTakeLeft => NoTakeLeft'
         /\ NeverActive'
<1> USE DEF world, ui, locals, history, listener, Goto
<1>1. /\ TypeOK /\ UNCHANGED trade /\ Loses' = Loses /\ "Pending" \in PreActiveStatuses
      /\ ListingsOnly /\ NothingStoredYet
  BY ShownSources, SameConversation DEF IInv, Control, PreActiveStatuses
<1>2. /\ row # NoRow => row.status \in PreActiveStatuses /\ row \in Rows
      /\ snap # NoRow => snap.status \in PreActiveStatuses
      /\ base # NoRow => base \in Rows
      /\ base # NoRow /\ row # NoRow => base.mine = row.mine
  BY <1>1 DEF LossInv, NeverActive, TypeOK, EndInv, OwnRows
<1>3. AllPublished => ~Awaited
  BY <1>1, LosingTrade DEF NothingStoredYet, AllPublished
\* A row that keeps its status and owner, as far as it says anything.
<1>4. ASSUME row' # NoRow => row # NoRow /\ row'.mine = row.mine /\ row'.status \in PreActiveStatuses,
             snap' \in {NoRow, snap, row}
      PROVE  (NoTakeLeft => NoTakeLeft') /\ NeverActive'
  BY <1>1, <1>2, <1>4 DEF NoTakeLeft, NeverActive
<1>5. CASE RevertStatus
  <2>1. "Pending" \in StatusOpt
    BY DEF StatusOpt, Statuses, PreActiveStatuses
  <2>2. row # NoRow => row'.mine = row.mine /\ row'.status = "Pending"
    BY <1>2, <1>5, <2>1, RowKept DEF RevertStatus
  <2> QED BY <1>1, <1>4, <1>5, <2>2 DEF RevertStatus
<1>6. CASE WriteUpsert("revertWrite", "revertStatus") \/ WriteUpsert("upsertWrite", "dispute")
  <2>1. /\ pc \in {"revertWrite", "upsertWrite"} /\ snap' = snap
        /\ row' = IF base = NoRow \/ row = NoRow THEN row ELSE build_order_from_small_order(dm, base)
    BY <1>6 DEF WriteUpsert
  <2>2. dm \in Dms /\ dm.status \in PreActiveStatuses
    <3>1. dm \in Dms /\ cur \in 1 .. Len(trade.dms)
      BY <1>1, <2>1, HandledTyped, HandledWords
    <3>2. pc = "revertWrite" => dm.status = "Pending"
      BY <1>1 DEF ListingsOnly, ListingPcs, is_pending_listing
    <3>3. pc = "upsertWrite" => dm.status \in PreActiveStatuses
      BY <1>1, <3>1, LosingTrade DEF LossInv, UpsertsOnly, dm
    <3> QED BY <1>1, <2>1, <3>1, <3>2, <3>3
  <2>3. base # NoRow /\ row # NoRow => row'.mine = row.mine /\ row'.status = dm.status
    BY <1>2, <2>1, <2>2, RowKept
  <2> QED BY <1>2, <1>4, <2>1, <2>2, <2>3
<1>7. CASE RecordDispute
  <2>1. row # NoRow => row'.mine = row.mine /\ row'.status = row.status
    BY <1>2, <1>7 DEF RecordDispute, Rows
  <2> QED BY <1>2, <1>4, <1>7, <2>1 DEF RecordDispute
<1>8. CASE StatusWrite
  <2>1. /\ pc # "idle" /\ snap' = snap
        /\ row' = IF row = NoRow \/ StatusToWrite = NoStatus THEN row
                  ELSE [row EXCEPT !.status = StatusToWrite]
    BY <1>8 DEF StatusWrite
  <2>2. StatusToWrite \in PreActiveStatuses \cup {NoStatus}
    <3>1. resolved_status_candidate(dm) \in PreActiveStatuses \cup {NoStatus}
      BY <1>1, <2>1, HandledWords, LosingTrade DEF dm
    <3> QED BY <1>2, <3>1 DEF StatusToWrite, status_candidate, status_from_db
  <2>3. row # NoRow /\ StatusToWrite # NoStatus => row'.mine = row.mine /\ row'.status = StatusToWrite
    <3>1. StatusToWrite \in StatusOpt
      BY <1>1, <2>1, LocalsTyped
    <3> QED BY <1>2, <2>1, <3>1, RowKept
  <2> QED BY <1>2, <1>4, <2>1, <2>2, <2>3
<1>9. CASE AdvanceCursor
  <2>1. dm.ts \in Nat
    BY <1>1, <1>9, HandledTyped DEF AdvanceCursor, Dms
  <2>2. row # NoRow => row'.mine = row.mine /\ row'.status = row.status
    BY <1>2, <1>9, <2>1, RowKept DEF AdvanceCursor
  <2> QED BY <1>2, <1>4, <1>9, <2>2 DEF AdvanceCursor
<1>10. CASE SaveChild
  <2>1. row'.mine = TRUE /\ row'.status = "Pending" /\ snap' = snap
    BY <1>10 DEF SaveChild, SavedRow
  <2> QED BY <1>1, <1>2, <2>1 DEF NoTakeLeft, NeverActive
<1>11. CASE SaveOrder
  <2>1. Awaited /\ row'.status = trade.saved /\ snap' = snap
    BY <1>11 DEF SaveOrder, SavedRow, Awaited
  <2> QED BY <1>1, <1>2, <1>3, <2>1, LosingTrade DEF NeverActive
<1>12. ASSUME NEW i \in fresh, Receive(i) PROVE row' = row /\ snap' \in {NoRow, snap}
  BY <1>12 DEF Receive, StartHandling
<1>13. CASE \/ NewOrderLookup \/ DropTake \/ Forget \/ Snapshot \/ TrackChat \/ PublishRow \/ Cleanup
            \/ ReadForUpsert("revertRead", "revertWrite") \/ ReadForUpsert("upsertRead", "upsertWrite")
  <2>1. row' \in {row, NoRow} /\ snap' \in {NoRow, snap, row}
    BY <1>13 DEF NewOrderLookup, DropTake, Forget, Snapshot, TrackChat, PublishRow, Cleanup, Finish,
       ReadForUpsert
  <2> QED BY <1>2, <1>4, <2>1
<1>14. CASE \/ TrackOrder \/ Publish \/ ShowResult \/ HandleNotification \/ DeleteOrder
            \/ ForgetDeleted \/ Restart \/ Reload \/ UNCHANGED vars
  <2>1. row' \in {row, NoRow} /\ snap' \in {NoRow, snap}
    BY <1>14 DEF TrackOrder, Publish, ShowResult, HandleNotification, DeleteOrder, ForgetDeleted,
       Restart, Reload, StartListener, StartHandling, Finish, vars
  <2> QED BY <1>2, <1>4, <2>1
<1> QED BY <1>2, <1>4, <1>5, <1>6, <1>7, <1>8, <1>9, <1>10, <1>11, <1>12, <1>13, <1>14
        DEF Next, ListenerNext, Handling

LEMMA LossStep ==
  ASSUME EndComesLast, LostBeforeActive, IInv, EndInv, LossInv, [Next]_vars
  PROVE  LossInv'
<1> USE DEF world, ui, locals, history, listener, Goto
<1>1. /\ TypeOK /\ UNCHANGED trade /\ Loses' = Loses /\ Len(trade.dms) \in Nat
      /\ HandlesLast \/ Len(trade.dms) \in handled => AllPublished
  <2>1. TypeOK /\ UNCHANGED trade /\ Loses' = Loses
    BY ShownSources, SameConversation DEF IInv
  <2>2. Len(trade.dms) \in Nat /\ published \in 0 .. Len(trade.dms)
    BY <2>1, TradeTyped DEF TypeOK
  <2> QED BY <2>1, <2>2 DEF TypeOK, HandlesLast, AllPublished
<1>2. CASE Handling
  <2>1. pc # "idle" /\ (pc' # "idle" => UNCHANGED <<cur, handled>>)
    BY <1>2 DEF Handling, NewOrderLookup, DropTake, Forget, RevertStatus, SaveChild,
       ReadForUpsert, WriteUpsert, Snapshot, RecordDispute, TrackChat, StatusWrite, PublishRow,
       AdvanceCursor, Cleanup, Finish
  <2>2. UpsertsOnly'
    <3>1. /\ pc' = "upsertRead" => Upserts(dm)
          /\ pc' = "upsertWrite" => pc = "upsertRead"
      BY <1>2 DEF Handling, NewOrderLookup, DropTake, Forget, RevertStatus, SaveChild,
         ReadForUpsert, WriteUpsert, Snapshot, RecordDispute, TrackChat, StatusWrite, PublishRow,
         AdvanceCursor, Cleanup, Finish
    <3>2. pc' # "idle" => dm' = dm
      BY <1>1, <2>1 DEF dm
    <3> QED BY <3>1, <3>2 DEF LossInv, UpsertsOnly
  <2>3. LossIsHandled'
    <3> SUFFICES ASSUME Loses, pc' # "idle", cur' = Len(trade.dms)
                 PROVE  /\ pc' \in ListingPcs \cup {"dropTake", "forgetTake", "seen", "cleanup"}
                        /\ pc' \notin {"lookup", "dropTake"} => NoTakeLeft'
      BY <1>1 DEF LossIsHandled, HandlesLast
    <3>1. HandlesLast /\ is_pending_listing(dm)
      BY <2>1 DEF HandlesLast, Loses, dm
    <3>2. /\ pc \in ListingPcs \cup {"dropTake", "forgetTake", "seen", "cleanup"}
          /\ pc \notin {"lookup", "dropTake"} => NoTakeLeft'
      BY <1>1, <3>1, LostRowKept DEF LossInv, LossIsHandled
    <3>3. CASE NewOrderLookup
      <4>1. row # NoRow => row.mine \in BOOLEAN /\ row.status \in PreActiveStatuses
        BY <1>1 DEF LossInv, NeverActive, TypeOK, Rows
      <4> QED BY <3>3, <4>1 DEF NewOrderLookup, is_pre_active_taker_take,
              is_pre_active_maker_listing, NoTakeLeft, ListingPcs
    <3>4. CASE DropTake
      BY <3>4 DEF DropTake, NoTakeLeft
    <3>5. CASE ~NewOrderLookup /\ ~DropTake
      <4>1. pc' \in ListingPcs \cup {"forgetTake", "seen", "cleanup"} /\ pc \notin {"lookup", "dropTake"}
        BY <1>2, <3>2, <3>5 DEF Handling, ListingPcs, NewOrderLookup, DropTake, Forget, RevertStatus,
           SaveChild, ReadForUpsert, WriteUpsert, Snapshot, RecordDispute, TrackChat, StatusWrite,
           PublishRow, AdvanceCursor, Cleanup, Finish
      <4> QED BY <3>2, <4>1
    <3> QED BY <3>3, <3>4, <3>5
  <2>4. LossIsRecorded'
    <3> SUFFICES ASSUME Loses, Len(trade.dms) \in handled' PROVE NoTakeLeft'
      BY <1>1 DEF LossIsRecorded
    <3>1. CASE Len(trade.dms) \in handled
      BY <1>1, <3>1, LostRowKept DEF LossInv, LossIsRecorded
    <3>2. CASE Len(trade.dms) \notin handled
      <4>1. Cleanup /\ cur = Len(trade.dms)
        BY <1>2, <3>2 DEF Handling, NewOrderLookup, DropTake, Forget, RevertStatus, SaveChild,
           ReadForUpsert, WriteUpsert, Snapshot, RecordDispute, TrackChat, StatusWrite, PublishRow,
           AdvanceCursor, Cleanup
      <4>2. pc = "cleanup" /\ HandlesLast /\ row' = row
        BY <4>1 DEF Cleanup, HandlesLast
      <4> QED BY <4>2 DEF LossInv, LossIsHandled, NoTakeLeft
    <3> QED BY <3>1, <3>2
  <2>5. NeverActive'
    BY <1>1, LostRowKept DEF NeverActive
  <2> QED BY <2>2, <2>3, <2>4, <2>5 DEF LossInv
<1>3. CASE ~Handling
  <2>1. \/ UNCHANGED <<pc, cur>>
        \/ pc' = "idle"
        \/ pc' = IF is_pending_listing(trade.dms[cur']) THEN "lookup" ELSE "snapshot"
    BY <1>3 DEF Next, ListenerNext, TrackOrder, Receive, Publish, SaveOrder, ShowResult,
       HandleNotification, DeleteOrder, ForgetDeleted, Restart, Reload, vars, StartListener,
       StartHandling, Finish
  <2>2. UNCHANGED handled
    BY <1>3 DEF Next, ListenerNext, TrackOrder, Receive, Publish, SaveOrder, ShowResult,
       HandleNotification, DeleteOrder, ForgetDeleted, Restart, Reload, vars, StartListener,
       StartHandling, Finish
  <2>3. UpsertsOnly'
    BY <1>1, <2>1 DEF LossInv, UpsertsOnly, dm
  <2>4. Loses /\ AllPublished /\ NoTakeLeft => NoTakeLeft'
    BY LostRowKept
  <2>5. LossIsHandled'
    BY <1>1, <2>1, <2>4 DEF LossInv, LossIsHandled, HandlesLast, Loses, ListingPcs
  <2>6. LossIsRecorded'
    BY <1>1, <2>2, <2>4 DEF LossInv, LossIsRecorded
  <2>7. NeverActive'
    BY <1>1, LostRowKept DEF NeverActive
  <2> QED BY <2>3, <2>5, <2>6, <2>7 DEF LossInv
<1> QED BY <1>2, <1>3

LEMMA LossInit ==
  ASSUME Init
  PROVE  LossInv
  BY DEF Init, LossInv, UpsertsOnly, NeverActive, LossIsHandled, LossIsRecorded, HandlesLast

\* For every conversation that says its end last and once: when the message that
\* cancels a trade has been handled, the row says that it has ended, or is gone, and
\* no row is left of a take whose listing went back to the book, whatever is aborted,
\* restarted, deleted or delivered again.
THEOREM EndIsRecorded ==
  ASSUME EndComesLast, OneOutcome, LostBeforeActive
  PROVE  Spec => []CancelIsRecorded
<1>1. Init => EndInv /\ RecordedInv /\ LossInv
  BY EndInit, RecordedInit, LossInit
<1>2. IInv /\ EndInv /\ RecordedInv /\ LossInv /\ [Next]_vars => (EndInv /\ RecordedInv /\ LossInv)'
  BY EndStep, RecordedStep, LossStep
<1>3. IInv /\ RecordedInv /\ LossInv => CancelIsRecorded
  <2> SUFFICES ASSUME IInv, RecordedInv, LossInv PROVE CancelIsRecorded
    OBVIOUS
  <2>1. TypeOK /\ handled \subseteq 1 .. Len(trade.dms) /\ Len(trade.dms) \in Nat
    BY TradeTyped DEF IInv, TypeOK
  <2>2. ASSUME NEW i \in handled, trade.dms[i].action \in ClosingActions
        PROVE  row = NoRow \/ is_terminal_trade_status(row.status)
    <3>1. Fails /\ i = Len(trade.dms)
      BY <2>1, <2>2, ClosingFails
    <3> QED BY <3>1 DEF RecordedInv, EndIsHandled, Settled, Dead, is_terminal_trade_status,
                TerminalDmStatuses
  <2>3. ASSUME ~trade.maker, published \in handled, is_pending_listing(trade.dms[published])
        PROVE  row = NoRow \/ StoredAnew
    <3>1. Loses /\ published = Len(trade.dms)
      BY <2>1, <2>3, LastWords
    <3> QED BY <2>3, <3>1 DEF LossInv, LossIsRecorded, NoTakeLeft, StoredAnew
  <2> QED BY <2>2, <2>3 DEF CancelIsRecorded
<1> QED BY <1>1, <1>2, <1>3, Invariance, PTL DEF Spec

-----------------------------------------------------------------------------
(* The chats of an order that has ended.                                   *)

\* The user has deleted the order.
Forgotten == dropped \/ "deleted" \in inbox

\* A take is dropped by the last word about it.
DropsAreLast ==
  pc \in {"dropTake", "forgetTake"} => ~trade.maker /\ (Loses \/ (Ends /\ HandlesLast))

\* The row of an order that is listened to is missing for a known reason.
MissingIsKnown ==
  row = NoRow /\ (tracked \/ "track" \in inbox) /\ ~Awaited =>
    Forgotten \/ Loses \/ (~trade.maker /\ Ends /\ HandlesLast)

\* Chats without a row: of an order the user has deleted, or of a take that is being
\* forgotten, or was when its listener was aborted.
MissingHasNoChats ==
  row = NoRow /\ chats # {} =>
    Forgotten \/ pc = "forgetTake" \/ (reloads > 0 /\ ~tracked /\ "track" \notin inbox)
DeadHasNoChats == Dead(row) /\ reloads = 0 /\ ~tracked => chats = {}

ChatInv == DropsAreLast /\ MissingIsKnown /\ MissingHasNoChats /\ DeadHasNoChats

\* The message that makes a trade fail ends its chats.
LEMMA FailureEndsChats ==
  ASSUME EndComesLast, OneOutcome, TypeOK, Fails
  PROVE  trade_message_should_untrack_order_chat(trade.dms[Len(trade.dms)])
<1>1. /\ Len(trade.dms) \in 1 .. Len(trade.dms) /\ Ends
      /\ resolved_status_candidate(trade.dms[Len(trade.dms)]) \in TerminalDmStatuses
  BY FailingTrade
<1>2. trade.dms[Len(trade.dms)].status \in TerminalTradeStatuses =>
        trade.dms[Len(trade.dms)].status \in TerminalDmStatuses
  BY <1>1, LastWords
<1> QED BY <1>1, <1>2
        DEF Ends, trade_message_is_terminal, trade_message_should_untrack_order_chat,
            is_terminal_trade_status

\* The handling of a message by the solver finds the row, unless the user deleted it.
LEMMA SolverFindsRow ==
  ASSUME EndComesLast, DisputesAreStored, IInv, ChatInv, pc # "idle", row = NoRow,
         dm.action = "AdminTookDispute", dm.payload = "solver"
  PROVE  Forgotten
<1>1. /\ TypeOK /\ tracked /\ NothingStoredYet /\ cur \in 1 .. Len(trade.dms) /\ cur <= published
      /\ trade.early \in Nat /\ published \in Nat /\ Len(trade.dms) \in Nat /\ trade \in Trades
  BY HandledWords, TradeTyped DEF IInv, Control, SubscribedWhileHandling, TypeOK
<1>2. cur > trade.early /\ ~Loses
  BY <1>1 DEF DisputesAreStored, dm, Loses
<1>3. ~Awaited
  BY <1>1, <1>2 DEF NothingStoredYet
<1>4. ~(Ends /\ HandlesLast)
  BY DEF Ends, HandlesLast, trade_message_is_terminal, ClosingActions, dm
<1> QED BY <1>1, <1>2, <1>3, <1>4 DEF ChatInv, MissingIsKnown

\* The listener starts over.
LEMMA ChatStart ==
  ASSUME ChatInv, StartListener, UNCHANGED <<trade, row>>, "track" \notin inbox',
         \/ chats' = track_startup_chats(row)
         \/ UNCHANGED <<chats, dropped>> /\ reloads' > 0 /\ inbox' = inbox \ {"track"}
  PROVE  ChatInv'
<1>1. pc' \in {"idle", "lookup", "snapshot"} /\ tracked' = IsStartupActive(row)
  BY DEF StartListener, StartHandling, Finish
<1>2. ~IsStartupActive(row) => track_startup_chats(row) = {}
  BY DEF track_startup_chats
<1>3. (row = NoRow => ~IsStartupActive(row)) /\ (Dead(row)' => ~IsStartupActive(row))
  BY DEF IsStartupActive, Dead
<1>4. DropsAreLast' /\ MissingIsKnown'
  BY <1>1, <1>3 DEF DropsAreLast, MissingIsKnown
<1>5. MissingHasNoChats' /\ DeadHasNoChats'
  BY <1>1, <1>2, <1>3 DEF ChatInv, MissingHasNoChats, DeadHasNoChats
<1> QED BY <1>4, <1>5 DEF ChatInv

LEMMA ChatHandling ==
  ASSUME EndComesLast, OneOutcome, DisputesAreStored, IInv, EndInv, KeptInv, ChatInv, Handling
  PROVE  ChatInv'
<1> USE DEF Goto, locals, history, world, ui
<1>1. /\ pc # "idle" /\ TypeOK /\ tracked /\ ListingsOnly
      /\ UNCHANGED <<trade, published, dropped, reloads, flow>>
      /\ inbox' = inbox \/ SaveChild
  BY DEF IInv, Control, SubscribedWhileHandling, Handling, NewOrderLookup, DropTake,
         Forget, RevertStatus, SaveChild, ReadForUpsert, WriteUpsert, Snapshot, RecordDispute,
         TrackChat, StatusWrite, PublishRow, AdvanceCursor, Cleanup
<1>2. /\ cur \in 1 .. Len(trade.dms)
      /\ HandlesLast => AllPublished
      /\ trade_message_is_terminal(dm) => HandlesLast /\ AllPublished /\ Ends
  <2>1. cur <= published /\ published <= Len(trade.dms) /\ published \in Nat /\ Len(trade.dms) \in Nat
    BY <1>1, HandledWords, TradeTyped DEF TypeOK
  <2> QED BY <1>1, <2>1, HandledWords DEF HandlesLast, AllPublished
<1>3. Ends' = Ends /\ Loses' = Loses /\ (pc' # "idle" /\ cur' = cur => HandlesLast' = HandlesLast)
  BY <1>1, SameConversation DEF HandlesLast
<1>4. Awaited' = Awaited /\ (inbox' = inbox => Forgotten' = Forgotten)
  BY <1>1 DEF Awaited, Forgotten
<1>5. CASE Cleanup
  <2>1. /\ pc = "cleanup" /\ pc' = "idle" /\ row' = row /\ inbox' = inbox
        /\ chats' = IF trade_message_should_untrack_order_chat(dm) THEN {} ELSE chats
        /\ tracked' = ~trade_message_is_terminal(dm)
    BY <1>1, <1>5 DEF Cleanup, Finish
  <2>2. MissingIsKnown'
    <3> SUFFICES ASSUME row = NoRow, tracked' \/ "track" \in inbox, ~Awaited, ~Loses PROVE Forgotten
      BY <1>3, <1>4, <2>1 DEF MissingIsKnown
    <3>1. ASSUME ~trade.maker, Ends, HandlesLast PROVE FALSE
      <4>1. "track" \notin inbox
        BY <1>2, <3>1 DEF KeptInv, TakerEnd
      <4> QED BY <2>1, <3>1, <4>1 DEF Ends, HandlesLast, dm
    <3> QED BY <1>1, <3>1 DEF ChatInv, MissingIsKnown
  <2>3. MissingHasNoChats'
    BY <1>1, <1>4, <2>1 DEF ChatInv, MissingHasNoChats
  <2>4. DeadHasNoChats'
    <3> SUFFICES ASSUME Dead(row) PROVE chats' = {}
      BY <2>1 DEF DeadHasNoChats, Dead
    <3>1. Fails /\ cur = Len(trade.dms)
      BY <1>1 DEF EndInv, DeadAtEnd
    <3> QED BY <1>1, <2>1, <3>1, FailureEndsChats DEF dm
  <2> QED BY <2>1, <2>2, <2>3, <2>4 DEF ChatInv, DropsAreLast
<1>6. ASSUME ~Cleanup PROVE pc' # "idle" /\ tracked' = tracked /\ cur' = cur
  BY <1>1, <1>6 DEF Handling, NewOrderLookup, DropTake, Forget, RevertStatus, SaveChild,
     ReadForUpsert, WriteUpsert, Snapshot, RecordDispute, TrackChat, StatusWrite, PublishRow,
     AdvanceCursor
<1>7. ASSUME ~Cleanup PROVE DropsAreLast'
  <2>1. CASE NewOrderLookup
    <3>1. pc = "lookup" /\ pc' # "forgetTake" /\ (pc' = "dropTake" => row # NoRow /\ ~row.mine)
      BY <2>1 DEF NewOrderLookup, is_pre_active_taker_take
    <3>2. pc' = "dropTake" => ~trade.maker
      BY <3>1 DEF EndInv, OwnRows
    <3>3. ~trade.maker => Loses
      BY <1>1, <1>2, <3>1, LastWords DEF ListingsOnly, ListingPcs, dm
    <3> QED BY <1>3, <1>1, <3>1, <3>2, <3>3 DEF DropsAreLast
  <2>2. CASE Snapshot
    <3>1. /\ pc' # "forgetTake"
          /\ pc' = "dropTake" => dm.action = "Canceled" /\ row # NoRow /\ ~row.mine
      BY <2>2 DEF Snapshot, is_pre_active_taker_take
    <3>2. pc' = "dropTake" => ~trade.maker /\ Ends /\ HandlesLast
      BY <1>2, <3>1 DEF EndInv, OwnRows, trade_message_is_terminal, ClosingActions
    <3> QED BY <1>1, <1>3, <1>6, <1>7, <3>1, <3>2 DEF DropsAreLast
  <2>3. CASE ~NewOrderLookup /\ ~Snapshot
    <3>1. pc' \in {"dropTake", "forgetTake"} => pc = "dropTake"
      BY <1>7, <2>3 DEF Handling, DropTake, Forget, RevertStatus, SaveChild,
         ReadForUpsert, WriteUpsert, RecordDispute, TrackChat, StatusWrite, PublishRow,
         AdvanceCursor
    <3> QED BY <1>1, <1>3, <1>6, <1>7, <3>1 DEF ChatInv, DropsAreLast
  <2> QED BY <2>1, <2>2, <2>3
<1>8. ASSUME ~Cleanup PROVE DeadHasNoChats'
  BY <1>1, <1>6, <1>8 DEF DeadHasNoChats
<1>9. CASE SaveChild
  <2>1. row' # NoRow
    <3>1. row' \in Rows
      BY <1>1, <1>9, SavedRowTyped DEF SaveChild, StatusOpt, Statuses, PreActiveStatuses
    <3> QED BY <3>1, AbsentAssumption
  <2>2. ~Cleanup
    BY <1>9 DEF SaveChild, Cleanup
  <2> QED BY <1>7, <1>8, <2>1, <2>2 DEF ChatInv, MissingIsKnown, MissingHasNoChats
<1>10. CASE DropTake
  <2>1. pc = "dropTake" /\ pc' = "forgetTake" /\ UNCHANGED <<inbox, cur>> /\ ~Cleanup
    BY <1>10 DEF DropTake, Cleanup
  <2>2. ~trade.maker /\ (Loses \/ (Ends /\ HandlesLast))
    BY <2>1 DEF ChatInv, DropsAreLast
  <2> QED BY <1>1, <1>3, <1>7, <1>8, <2>1, <2>2 DEF ChatInv, MissingIsKnown, MissingHasNoChats
<1>11. CASE ~Cleanup /\ ~SaveChild /\ ~DropTake
  <2>1. row' = NoRow => row = NoRow
    <3>1. /\ row # NoRow => row \in Rows /\ StatusToWrite \in StatusOpt /\ dm \in Dms /\ dm.ts \in Nat
          /\ base # NoRow => base \in Rows
      BY <1>1, LocalsTyped, HandledTyped DEF TypeOK, Dms
    <3>2. "Pending" \in StatusOpt
      BY DEF StatusOpt, Statuses, PreActiveStatuses
    <3>3. CASE RecordDispute
      <4> DEFINE announced == /\ dm.action \in {"DisputeInitiatedByYou", "DisputeInitiatedByPeer"}
                              /\ dm.payload = "dispute"
                 taken == dm.action = "AdminTookDispute" /\ dm.payload = "solver"
      <4> SUFFICES ASSUME row # NoRow PROVE row' # NoRow
        OBVIOUS
      <4>1. row' = [row EXCEPT !.dispute = @ \/ announced, !.solver = @ \/ taken]
        BY <3>3 DEF RecordDispute
      <4>2. (row.dispute \/ announced) \in BOOLEAN /\ (row.solver \/ taken) \in BOOLEAN
        OBVIOUS
      <4> HIDE DEF announced, taken
      <4> QED BY <3>1, <4>1, <4>2, RowUpdates, AbsentAssumption
    <3>4. CASE StatusWrite \/ RevertStatus \/ AdvanceCursor
      BY <3>1, <3>2, <3>4, RowKept DEF StatusWrite, RevertStatus, AdvanceCursor
    <3>5. CASE WriteUpsert("revertWrite", "revertStatus") \/ WriteUpsert("upsertWrite", "dispute")
      BY <3>1, <3>5, RowKept DEF WriteUpsert
    <3> QED BY <1>11, <3>3, <3>4, <3>5 DEF Handling, NewOrderLookup, Forget, ReadForUpsert, Snapshot,
            TrackChat, PublishRow
  <2>2. MissingIsKnown'
    BY <1>1, <1>3, <1>4, <1>6, <1>11, <2>1 DEF ChatInv, MissingIsKnown
  <2>3. MissingHasNoChats'
    <3> SUFFICES ASSUME row' = NoRow, chats' # {} PROVE Forgotten
      BY <1>1, <1>4, <1>11 DEF MissingHasNoChats
    <3>1. CASE RecordDispute
      <4>1. CASE dm.action = "AdminTookDispute" /\ dm.payload = "solver"
        BY <1>1, <2>1, <4>1, SolverFindsRow
      <4>2. CASE ~(dm.action = "AdminTookDispute" /\ dm.payload = "solver")
        BY <1>1, <2>1, <3>1, <4>2 DEF RecordDispute, ChatInv, MissingHasNoChats
      <4> QED BY <4>1, <4>2
    <3>2. CASE ~RecordDispute
      <4>1. chats' = chats /\ pc # "forgetTake"
        BY <1>11, <2>1, <3>2 DEF Handling, NewOrderLookup, Forget, RevertStatus, ReadForUpsert,
           WriteUpsert, Snapshot, TrackChat, StatusWrite, PublishRow, AdvanceCursor
      <4> QED BY <1>1, <2>1, <4>1 DEF ChatInv, MissingHasNoChats
    <3> QED BY <3>1, <3>2
  <2> QED BY <1>7, <1>8, <1>11, <2>2, <2>3 DEF ChatInv
<1> QED BY <1>5, <1>9, <1>10, <1>11

LEMMA ChatStep ==
  ASSUME EndComesLast, OneOutcome, DisputesAreStored, IInv, EndInv, KeptInv, ChatInv, [Next]_vars
  PROVE  ChatInv'
<1> USE DEF world, ui, locals, history, listener
<1>1. /\ TypeOK /\ UNCHANGED trade /\ Ends' = Ends /\ Loses' = Loses
      /\ UNCHANGED <<pc, cur>> => HandlesLast' = HandlesLast
      /\ reloads \in Nat /\ MaxReloads \in Nat
  BY ShownSources, SameConversation, BoundsAssumption DEF IInv, HandlesLast, TypeOK
<1>2. CASE Handling
  BY <1>2, ChatHandling
<1>3. CASE TrackOrder
  <2>1. "track" \in inbox /\ inbox' = inbox \ {"track"} /\ tracked' = TRUE
        /\ UNCHANGED <<row, chats, dropped, reloads, flow, pc, cur>>
    BY <1>3 DEF TrackOrder
  <2> QED BY <1>1, <2>1 DEF ChatInv, DropsAreLast, MissingIsKnown, MissingHasNoChats, DeadHasNoChats,
          Forgotten, Awaited
<1>4. ASSUME NEW i \in fresh, Receive(i) PROVE ChatInv'
  <2>1. /\ pc = "idle" /\ pc' \in {"idle", "lookup", "snapshot"}
        /\ UNCHANGED <<row, chats, dropped, reloads, flow, tracked, inbox>>
    BY <1>4 DEF Receive, StartHandling
  <2>2. ~HandlesLast
    BY <2>1 DEF HandlesLast
  <2> QED BY <1>1, <2>1, <2>2 DEF ChatInv, DropsAreLast, MissingIsKnown, MissingHasNoChats,
          DeadHasNoChats, Forgotten, Awaited, Dead
<1>5. CASE SaveOrder
  <2>1. row' # NoRow /\ row'.status = trade.saved
    <3>1. row' \in Rows
      BY <1>1, <1>5, SavedRowTyped, TradeTyped DEF SaveOrder, StatusOpt, TypeOK
    <3> QED BY <1>5, <3>1, AbsentAssumption DEF SaveOrder, SavedRow
  <2>2. ~Dead(row)'
    BY <1>1, <2>1 DEF Dead, TypeOK, EndComesLast, TerminalDmStatuses
  <2>3. UNCHANGED <<pc, cur>>
    BY <1>5 DEF SaveOrder
  <2> QED BY <1>1, <2>1, <2>2, <2>3
          DEF ChatInv, DropsAreLast, MissingIsKnown, MissingHasNoChats, DeadHasNoChats
<1>6. CASE DeleteOrder \/ ForgetDeleted
  <2>1. /\ row' = NoRow \/ row' = row
        /\ Forgotten => Forgotten'
        /\ row' = row \/ Forgotten'
        /\ "track" \in inbox' => "track" \in inbox
        /\ UNCHANGED <<chats, reloads, flow, tracked, pc, cur>>
    BY <1>6 DEF DeleteOrder, ForgetDeleted, Forgotten
  <2> QED BY <1>1, <2>1 DEF ChatInv, DropsAreLast, MissingIsKnown, MissingHasNoChats,
          DeadHasNoChats, Awaited, Dead
<1>7. CASE Publish \/ ShowResult \/ HandleNotification \/ UNCHANGED vars
  <2>1. /\ Forgotten => Forgotten'
        /\ "track" \in inbox' => "track" \in inbox
        /\ UNCHANGED <<row, chats, reloads, flow, tracked, pc, cur>>
    <3>1. CASE ShowResult
      BY <3>1 DEF ShowResult, Forgotten
    <3>2. CASE Publish \/ HandleNotification \/ UNCHANGED vars
      BY <3>2 DEF Publish, HandleNotification, vars, Forgotten
    <3> QED BY <1>7, <3>1, <3>2
  <2> QED BY <1>1, <2>1 DEF ChatInv, DropsAreLast, MissingIsKnown, MissingHasNoChats,
          DeadHasNoChats, Awaited, Dead
<1>8. CASE Restart
  BY <1>8, ChatStart DEF Restart
<1>9. CASE Reload
  <2>1. reloads' > 0
    BY <1>1, <1>9 DEF Reload
  <2> QED BY <1>9, <2>1, ChatStart DEF Reload
<1> QED BY <1>2, <1>3, <1>4, <1>5, <1>6, <1>7, <1>8, <1>9 DEF Next, ListenerNext

LEMMA ChatInit ==
  ASSUME Init
  PROVE  ChatInv
  BY DEF Init, ChatInv, DropsAreLast, MissingIsKnown, MissingHasNoChats, DeadHasNoChats, Dead, Awaited

\* For every conversation that says its end last and once, and whose solvers come to
\* stored orders: between two messages no chat is open for an order that is gone or
\* has failed, unless the user deleted it or a transport change cut its end short.
THEOREM ChatsAreForLiveOrders ==
  ASSUME EndComesLast, OneOutcome, DisputesAreStored
  PROVE  Spec => []ChatsOnlyForLiveOrders
<1>1. Init => EndInv /\ KeptInv /\ ChatInv
  BY EndInit, KeptInit, ChatInit
<1>2. IInv /\ EndInv /\ KeptInv /\ ChatInv /\ [Next]_vars => (EndInv /\ KeptInv /\ ChatInv)'
  BY EndStep, KeptStep, ChatStep
<1>3. IInv /\ EndInv /\ KeptInv /\ ChatInv => ChatsOnlyForLiveOrders
  <2> SUFFICES ASSUME IInv, EndInv, ChatInv, AtRest, chats # {}, reloads > 0 => tracked, ~Forgotten
               PROVE  row # NoRow /\ row.status \notin TerminalDmStatuses
    BY DEF ChatsOnlyForLiveOrders, Forgotten
  <2>1. pc = "idle" /\ reloads \in Nat
    BY BoundsAssumption DEF AtRest, IInv, TypeOK
  <2>2. row # NoRow
    BY <2>1 DEF ChatInv, MissingHasNoChats
  <2>3. ~Dead(row)
    <3>1. Dead(row) => ~tracked
      BY <2>1 DEF EndInv, DeadAtEnd, DeadPcs
    <3> QED BY <2>1, <3>1 DEF ChatInv, DeadHasNoChats
  <2> QED BY <2>2, <2>3 DEF Dead
<1> QED BY <1>1, <1>2, <1>3, Invariance, PTL DEF Spec


-----------------------------------------------------------------------------
(* Whatever is stored or shown was told.                                     *)

\* A status the conversation speaks of, or the one a listing gets.
Told(s) == s = "Pending" \/ (s # NoStatus /\ s \in Spoken(trade))

\* Whatever status is stored or shown was told; a row that knows the kind, as every
\* row of a maker does, knows the status.
RowTold(r) == r # NoRow => Told(r.status)
MsgTold(m) ==
  m # NoMsg => /\ m.status = NoStatus \/ Told(m.status)
               /\ m.kind # NoKind => m.status # NoStatus
               /\ m.mine = "maker" => m.kind # NoKind
               /\ m.action # "AddBondInvoice"
ToldInv == RowTold(row) /\ RowTold(snap) /\ RowTold(base) /\ MsgTold(msg) /\ MsgTold(prior)

\* What a message being handled tells.
LEMMA HandledTold ==
  ASSUME OrdersNameTheirStatus, TypeOK, pc # "idle"
  PROVE  /\ status_candidate # NoStatus => Told(status_candidate)
         /\ small_order_ref_from_payload(dm) => status_candidate = dm.status /\ Told(dm.status)
         /\ Upserts(dm) => Told(dm.status) /\ status_candidate = dm.status
         /\ dm.action \notin {"AddBondInvoice", "TakeBuy", "TakeSell"}
<1>1. cur \in 1 .. Len(trade.dms) /\ trade \in Trades /\ dm \in Dms
  BY HandledTyped, TradeTyped DEF TypeOK
<1>2. /\ dm.action # "AddBondInvoice" /\ dm.payload # "emptyInvoice"
      /\ small_order_ref_from_payload(dm) => dm.status # NoStatus /\ dm.action # "CantDo"
  BY <1>1 DEF OrdersNameTheirStatus, dm
<1>3. status_candidate \in Spoken(trade)
  BY <1>1 DEF Spoken, status_candidate, dm
<1>4. small_order_ref_from_payload(dm) => status_candidate = dm.status /\ dm.status # NoStatus
  BY <1>2 DEF status_candidate, resolved_status_candidate, map_action_to_status
<1>5. Upserts(dm) => small_order_ref_from_payload(dm)
  BY <1>2 DEF Upserts, small_order_ref_from_payload
<1>6. dm.action \notin {"TakeBuy", "TakeSell"}
  BY <1>1 DEF Dms
<1> QED BY <1>2, <1>3, <1>4, <1>5, <1>6 DEF Told

\* The status the listener decides on was told before or is told by the message.
LEMMA DecidedTold ==
  ASSUME OrdersNameTheirStatus, TypeOK, ToldInv, pc # "idle"
  PROVE  /\ effective_order_status = NoStatus \/ Told(effective_order_status)
         /\ StatusToWrite # NoStatus => Told(StatusToWrite)
         /\ snap # NoRow \/ small_order_ref_from_payload(dm) \/ (prior # NoMsg /\ prior.kind # NoKind)
              => effective_order_status # NoStatus
<1>1. status_candidate # NoStatus => Told(status_candidate)
  BY HandledTold
<1>2. /\ status_from_db # NoStatus => Told(status_from_db)
      /\ snap # NoRow => status_from_db # NoStatus
  BY DEF ToldInv, RowTold, status_from_db, Told, NoStatus
<1>3. /\ baseline_status = NoStatus \/ Told(baseline_status)
      /\ snap # NoRow \/ (prior # NoMsg /\ prior.kind # NoKind) => baseline_status # NoStatus
  BY <1>2 DEF baseline_status, ToldInv, MsgTold
<1>4. small_order_ref_from_payload(dm) => status_candidate # NoStatus
  BY HandledTold DEF Told, NoStatus
<1>5. baseline_status = NoStatus /\ status_candidate # NoStatus => should_accept_candidate
  BY DEF should_accept_candidate, should_apply_status_transition
<1>6. effective_order_status \in {status_candidate, baseline_status}
      /\ (should_accept_candidate => effective_order_status = status_candidate /\ status_candidate # NoStatus)
      /\ (~should_accept_candidate => effective_order_status = baseline_status)
  BY DEF effective_order_status, should_accept_candidate
<1>7. StatusToWrite \in {status_candidate, status_from_db, NoStatus}
  BY DEF StatusToWrite
<1> QED BY <1>1, <1>2, <1>3, <1>4, <1>5, <1>6, <1>7

\* The Messages row the listener publishes.
LEMMA PublishedTold ==
  ASSUME OrdersNameTheirStatus, TypeOK, KindsAgree, ToldInv, pc # "idle"
  PROVE  MsgTold(order_message)
<1>1. /\ order_message.status = effective_order_status /\ order_message.kind = effective_order_kind
      /\ order_message.mine = effective_is_mine /\ order_message.action = dm.action
  BY DEF order_message
<1>2. effective_order_kind # NoKind =>
        snap # NoRow \/ small_order_ref_from_payload(dm) \/ (prior # NoMsg /\ prior.kind # NoKind)
  BY HandledTold DEF effective_order_kind
<1>3. effective_is_mine = "maker" => effective_order_kind # NoKind
  <2>1. CASE snap # NoRow
    BY <2>1, KindKnown, TradeTyped DEF Kinds, NoKind, TypeOK
  <2>2. CASE snap = NoRow
    <3>1. trade.kind # NoKind
      BY TradeTyped DEF Kinds, NoKind, TypeOK
    <3> QED BY <2>2, <3>1 DEF effective_is_mine, effective_order_kind, ToldInv, MsgTold
  <2> QED BY <2>1, <2>2
<1> QED BY <1>1, <1>2, <1>3, DecidedTold, HandledTold DEF MsgTold

\* The upsert is for the messages that carry an order.
LEMMA UpsertsKept ==
  ASSUME TypeOK, UpsertsOnly, Next
  PROVE  UpsertsOnly'
<1> USE DEF locals, history, world, ui, listener
<1>1. CASE Handling
  <2>1. UNCHANGED trade
    BY <1>1 DEF Handling, NewOrderLookup, DropTake, Forget, RevertStatus, SaveChild, ReadForUpsert,
       WriteUpsert, Snapshot, RecordDispute, TrackChat, StatusWrite, PublishRow, AdvanceCursor, Cleanup
  <2>2. UNCHANGED cur \/ pc' = "idle"
    BY <1>1 DEF Handling, NewOrderLookup, DropTake, Forget, RevertStatus, SaveChild, ReadForUpsert,
       WriteUpsert, Snapshot, RecordDispute, TrackChat, StatusWrite, PublishRow, AdvanceCursor, Cleanup,
       Goto, Finish
  <2>3. /\ pc' = "upsertWrite" => pc = "upsertRead"
        /\ pc' = "upsertRead" => pc = "snapshot" /\ Upserts(dm)
    BY <1>1 DEF Handling, NewOrderLookup, DropTake, Forget, RevertStatus, SaveChild, ReadForUpsert,
       WriteUpsert, Snapshot, RecordDispute, TrackChat, StatusWrite, PublishRow, AdvanceCursor, Cleanup,
       Goto, Finish
  <2> QED BY <2>1, <2>2, <2>3 DEF UpsertsOnly, dm
<1>2. CASE Restart \/ Reload \/ \E i \in fresh : Receive(i)
  BY <1>2 DEF Restart, Reload, StartListener, Finish, StartHandling, Receive, UpsertsOnly, dm
<1>3. CASE TrackOrder \/ Publish \/ SaveOrder \/ ShowResult \/ HandleNotification \/ DeleteOrder
           \/ ForgetDeleted
  BY <1>3 DEF TrackOrder, Publish, SaveOrder, ShowResult, HandleNotification, DeleteOrder,
     ForgetDeleted, UpsertsOnly, dm
<1> QED BY <1>1, <1>2, <1>3 DEF Next, ListenerNext

LEMMA ToldHandling ==
  ASSUME OrdersNameTheirStatus, IInv, UpsertsOnly, ToldInv, Handling
  PROVE  ToldInv'
<1> USE DEF Goto, locals, history, world, ui
<1>1. /\ pc # "idle" /\ TypeOK /\ KindsAgree /\ dm \in Dms /\ UNCHANGED trade
      /\ (row # NoRow => row \in Rows) /\ (base # NoRow => base \in Rows)
      /\ pc \in ListingPcs => dm.status = "Pending"
  BY HandledTyped DEF IInv, Control, TypeOK, Handling, NewOrderLookup, ListingsOnly, is_pending_listing,
         DropTake, Forget, RevertStatus, SaveChild, ReadForUpsert, WriteUpsert, Snapshot,
         RecordDispute, TrackChat, StatusWrite, PublishRow, AdvanceCursor, Cleanup
<1>2. \A s : Told(s)' <=> Told(s)
  BY <1>1 DEF Told, Spoken
<1>3. RowTold(NoRow)' /\ MsgTold(NoMsg)' /\ Told("Pending")
  BY DEF RowTold, MsgTold, Told
<1>4. \A r : RowTold(r)' <=> RowTold(r)
  BY <1>2 DEF RowTold
<1>5. \A m : MsgTold(m)' <=> MsgTold(m)
  BY <1>2 DEF MsgTold
<1>6. ASSUME UNCHANGED <<snap, base, msg, prior>>, RowTold(row') PROVE ToldInv'
  BY <1>2, <1>6 DEF ToldInv, RowTold, MsgTold
<1>7. CASE NewOrderLookup \/ DropTake \/ SaveChild \/ Cleanup \/ Forget
  <2>1. RowTold(row')
    BY <1>3, <1>7 DEF NewOrderLookup, DropTake, SaveChild, SavedRow, Cleanup, Forget, ToldInv, RowTold
  <2>2. /\ UNCHANGED <<snap, base, prior>> \/ (snap' = NoRow /\ base' = NoRow /\ prior' = NoMsg)
        /\ msg' \in {msg, NoMsg}
    BY <1>7 DEF NewOrderLookup, DropTake, SaveChild, Cleanup, Finish, Forget
  <2> QED BY <1>2, <2>1, <2>2 DEF ToldInv, RowTold, MsgTold
<1>8. CASE RevertStatus
  <2>1. "Pending" \in StatusOpt
    BY DEF StatusOpt, Statuses, PreActiveStatuses
  <2>2. RowTold(row') /\ UNCHANGED <<snap, base, msg, prior>>
    BY <1>1, <1>3, <1>8, <2>1, RowKept DEF RevertStatus, RowTold
  <2> QED BY <1>6, <2>2
<1>9. ASSUME NEW from, NEW to, ReadForUpsert(from, to) PROVE ToldInv'
  <2>1. base' = row /\ UNCHANGED <<row, snap, msg, prior>>
    BY <1>9 DEF ReadForUpsert
  <2> QED BY <1>2, <2>1 DEF ToldInv, RowTold, MsgTold
<1>10. ASSUME NEW from, NEW to, WriteUpsert(from, to), from \in {"revertWrite", "upsertWrite"}
       PROVE  ToldInv'
  <2>1. /\ pc = from /\ base' = NoRow /\ UNCHANGED <<snap, msg, prior>>
        /\ row' = IF base = NoRow \/ row = NoRow THEN row ELSE build_order_from_small_order(dm, base)
    BY <1>10 DEF WriteUpsert
  <2>2. Told(dm.status)
    BY <1>1, <1>3, <1>10, <2>1, HandledTold DEF ListingPcs, UpsertsOnly
  <2>3. RowTold(row')
    BY <1>1, <2>1, <2>2, RowKept DEF ToldInv, RowTold
  <2> QED BY <1>2, <2>1, <2>3 DEF ToldInv, RowTold, MsgTold
<1>11. CASE Snapshot
  BY <1>2, <1>11 DEF Snapshot, ToldInv, RowTold, MsgTold
<1>12. CASE RecordDispute
  <2>1. row # NoRow => row'.status = row.status
    BY <1>1, <1>12 DEF RecordDispute, Rows
  <2>2. (row = NoRow => row' = NoRow) /\ UNCHANGED <<snap, base, msg, prior>>
    BY <1>12 DEF RecordDispute
  <2>3. RowTold(row')
    BY <2>1, <2>2 DEF ToldInv, RowTold
  <2> QED BY <1>6, <2>2, <2>3
<1>13. CASE TrackChat
  BY <1>2, <1>13 DEF TrackChat, ToldInv, RowTold, MsgTold
<1>14. CASE StatusWrite
  <2>1. /\ row' = IF row = NoRow \/ StatusToWrite = NoStatus THEN row
                  ELSE [row EXCEPT !.status = StatusToWrite]
        /\ UNCHANGED <<snap, base, msg, prior>>
    BY <1>14 DEF StatusWrite
  <2>2. RowTold(row')
    BY <1>1, <2>1, LocalsTyped, DecidedTold, RowKept DEF ToldInv, RowTold
  <2> QED BY <1>6, <2>1, <2>2
<1>15. CASE PublishRow
  <2>1. msg' \in {msg, order_message} /\ UNCHANGED <<row, snap, base, prior>>
    BY <1>15 DEF PublishRow
  <2>2. MsgTold(order_message)
    BY <1>1, PublishedTold
  <2>3. MsgTold(msg') /\ MsgTold(prior) /\ RowTold(row) /\ RowTold(snap) /\ RowTold(base)
    BY <2>1, <2>2 DEF ToldInv
  <2> QED BY <1>2, <2>1, <2>3 DEF ToldInv, RowTold, MsgTold
<1>16. CASE AdvanceCursor
  <2>1. dm.ts \in Nat
    BY <1>1 DEF Dms
  <2>2. RowTold(row') /\ UNCHANGED <<snap, base, msg, prior>>
    BY <1>1, <1>16, <2>1, RowKept DEF AdvanceCursor, ToldInv, RowTold
  <2> QED BY <1>6, <2>2
<1> QED BY <1>7, <1>8, <1>9, <1>10, <1>11, <1>12, <1>13, <1>14, <1>15, <1>16 DEF Handling

LEMMA ToldStep ==
  ASSUME OrdersNameTheirStatus, IInv, UpsertsOnly, ToldInv, [Next]_vars
  PROVE  ToldInv'
<1> USE DEF world, ui, locals, history, listener
<1>1. /\ TypeOK /\ UNCHANGED trade
      /\ trade.saved \in Statuses /\ trade.kind # NoKind
      /\ (row # NoRow => row \in Rows) /\ (msg # NoMsg => msg \in Msgs)
  BY ShownSources, TradeTyped DEF IInv, TypeOK, Kinds, NoKind
<1>2. \A s : Told(s)' <=> Told(s)
  BY <1>1 DEF Told, Spoken
<1>3. Told(trade.saved) /\ Told("Pending") /\ trade.saved # NoStatus
  BY <1>1 DEF Told, Spoken, Statuses, TerminalTradeStatuses, PreActiveStatuses, NoStatus
<1>4. CASE Handling
  BY <1>4, ToldHandling
<1>5. CASE TrackOrder \/ Publish
  BY <1>2, <1>5 DEF TrackOrder, Publish, ToldInv, RowTold, MsgTold
<1>6. CASE DeleteOrder
  BY <1>2, <1>6 DEF DeleteOrder, ToldInv, RowTold, MsgTold
<1>7. ASSUME NEW i \in fresh, Receive(i) PROVE ToldInv'
  <2>1. /\ UNCHANGED <<row, msg>>
        /\ UNCHANGED <<snap, base, prior>> \/ (snap' = NoRow /\ base' = NoRow /\ prior' = NoMsg)
    BY <1>7 DEF Receive, StartHandling
  <2> QED BY <1>2, <2>1 DEF ToldInv, RowTold, MsgTold
<1>8. CASE SaveOrder
  <2>1. row' = SavedRow(trade.saved, trade.maker) /\ UNCHANGED <<snap, base, msg, prior>>
    BY <1>8 DEF SaveOrder
  <2>2. Told(row'.status)
    BY <1>3, <2>1 DEF SavedRow
  <2> QED BY <1>2, <2>1, <2>2 DEF ToldInv, RowTold, MsgTold
\* Messages rows made outside the listener.
<1>9. ASSUME NEW m \in Msgs PROVE MsgTold(m) => MsgTold([m EXCEPT !.popup = TRUE])
  <2>1. LET q == [m EXCEPT !.popup = TRUE] IN
          q.status = m.status /\ q.kind = m.kind /\ q.mine = m.mine /\ q.action = m.action
    BY DEF Msgs
  <2>2. m # NoMsg
    BY AbsentAssumption
  <2> QED BY <2>1, <2>2 DEF MsgTold
<1>10. ASSUME RowTold(row), row # NoRow PROVE MsgTold(db_order_to_history_message(row))
  BY <1>1, <1>10 DEF RowTold, MsgTold, db_order_to_history_message, Told, NoStatus
<1>11. ASSUME UNCHANGED <<row, snap, base, prior>>, MsgTold(msg') PROVE ToldInv'
  BY <1>2, <1>11 DEF ToldInv, RowTold, MsgTold
<1>12. MsgTold(msg) /\ MsgTold(NoMsg) /\ RowTold(row)
  BY DEF ToldInv, MsgTold
<1>13. CASE ShowResult
  <2>1. MsgTold(ResultRow("NewOrder", FALSE)) /\ MsgTold(ResultRow("AddInvoice", TRUE))
    BY <1>1, <1>3 DEF MsgTold, ResultRow
  <2>2. MsgTold(msg')
    BY <1>1, <1>9, <1>12, <1>13, <2>1 DEF ShowResult
  <2> QED BY <1>11, <1>13, <2>2 DEF ShowResult
<1>14. CASE ForgetDeleted
  <2>1. MsgTold(msg')
    BY <1>10, <1>12, <1>14 DEF ForgetDeleted
  <2> QED BY <1>11, <1>14, <2>1 DEF ForgetDeleted
<1>15. CASE HandleNotification
  <2>1. msg' = msg \/ (msg # NoMsg /\ msg' = [msg EXCEPT !.popup = TRUE])
    BY <1>15 DEF HandleNotification
  <2>2. MsgTold(msg')
    BY <1>1, <1>9, <1>12, <2>1
  <2> QED BY <1>11, <1>15, <2>2 DEF HandleNotification
<1>16. CASE Restart \/ Reload
  <2>1. /\ row' = row /\ snap' = NoRow /\ base' = NoRow /\ prior' = NoMsg
        /\ msg' \in {msg, IF row = NoRow THEN NoMsg ELSE db_order_to_history_message(row)}
    BY <1>16 DEF Restart, Reload, StartListener, Finish, StartHandling
  <2>2. MsgTold(msg')
    BY <1>10, <1>12, <2>1
  <2> QED BY <1>2, <2>1, <2>2 DEF ToldInv, RowTold, MsgTold
<1>17. CASE UNCHANGED vars
  BY <1>2, <1>17 DEF vars, ToldInv, RowTold, MsgTold
<1> QED BY <1>4, <1>5, <1>6, <1>7, <1>8, <1>13, <1>14, <1>15, <1>16, <1>17 DEF Next, ListenerNext

LEMMA ToldInvariant ==
  ASSUME OrdersNameTheirStatus
  PROVE  Spec => [](UpsertsOnly /\ ToldInv)
<1>1. Init => UpsertsOnly /\ ToldInv
  BY DEF Init, UpsertsOnly, ToldInv, RowTold, MsgTold
<1>2. IInv /\ UpsertsOnly /\ ToldInv /\ [Next]_vars => (UpsertsOnly /\ ToldInv)'
  <2>1. IInv /\ UpsertsOnly /\ UNCHANGED vars => UpsertsOnly'
    BY DEF vars, listener, world, UpsertsOnly, dm
  <2> QED BY <2>1, UpsertsKept, ToldStep DEF IInv
<1> QED BY <1>1, <1>2, Invariance, PTL DEF Spec

-----------------------------------------------------------------------------
(* Popups come back in the phase they first came in.                       *)

\* A popup was shown for a message in a phase the message allows.
OpenedInPhase ==
  /\ \A i \in 1 .. Len(trade.dms), s \in StatusOpt : <<i, s>> \in opened =>
       Told(s) /\ invoice_popup_allowed_for_order_status(trade.dms[i].action, s)
  /\ ~reopened

\* A message allows a popup in one of the phases of its conversation.
LEMMA OnePhaseEach ==
  ASSUME OneStatusPerPhase, TypeOK, NEW a \in PopupActions \ {"AddBondInvoice"}, NEW s, NEW t,
         Told(s), Told(t),
         invoice_popup_allowed_for_order_status(a, s), invoice_popup_allowed_for_order_status(a, t)
  PROVE  s = t
<1>1. s # "Pending" /\ t # "Pending"
  BY DEF invoice_popup_allowed_for_order_status, PopupActions, NoStatus
<1>2. /\ s \in Spoken(trade) /\ t \in Spoken(trade) /\ s # NoStatus /\ t # NoStatus
      /\ trade \in Trades
  BY <1>1 DEF Told, TypeOK
<1>3. CASE a = "PayInvoice"
  BY <1>3 DEF invoice_popup_allowed_for_order_status
<1>4. CASE a = "PayBondInvoice"
  <2>1. {s, t} \subseteq {"WaitingTakerBond", "WaitingMakerBond"}
    BY <1>2, <1>4 DEF invoice_popup_allowed_for_order_status
  <2> QED BY <1>2, <2>1 DEF OneStatusPerPhase
<1>5. CASE a = "AddInvoice"
  <2>1. {s, t} \subseteq {"WaitingBuyerInvoice", "SettledHoldInvoice"}
    BY <1>2, <1>5 DEF invoice_popup_allowed_for_order_status
  <2> QED BY <1>2, <2>1 DEF OneStatusPerPhase
<1> QED BY <1>3, <1>4, <1>5 DEF PopupActions

LEMMA OpenedStep ==
  ASSUME OrdersNameTheirStatus, OneStatusPerPhase, IInv, ToldInv, OpenedInPhase, [Next]_vars
  PROVE  OpenedInPhase'
<1> USE DEF world, ui
<1>1. TypeOK /\ UNCHANGED trade
  BY ShownSources DEF IInv
<1>2. \A s : Told(s)' <=> Told(s)
  BY <1>1 DEF Told, Spoken
<1>3. ASSUME UNCHANGED <<opened, reopened>> PROVE OpenedInPhase'
  BY <1>1, <1>2, <1>3 DEF OpenedInPhase
<1>4. CASE Restart
  BY <1>4 DEF Restart, OpenedInPhase
<1>5. CASE HandleNotification /\ ~UNCHANGED <<opened, reopened>>
  <2> DEFINE i == Head(notes)
             d == trade.dms[i]
  <2>1. /\ notes # <<>> /\ d.action \in PopupActions /\ msg # NoMsg
        /\ check_if_popup_should_be_shown(d)
        /\ opened' = opened \cup {<<i, msg.status>>}
        /\ reopened' = (reopened \/ \E s \in StatusOpt \ {msg.status} : <<i, s>> \in opened)
    BY <1>5 DEF HandleNotification
  <2>2. i \in 1 .. published /\ i \in 1 .. Len(trade.dms) /\ trade \in Trades
    BY <1>1, <2>1, TradeTyped DEF TypeOK
  <2>3. d.action # "AddBondInvoice"
    BY <2>2 DEF OrdersNameTheirStatus
  <2>4. msg.kind \in Kinds => Told(msg.status)
    BY <2>1 DEF ToldInv, MsgTold, Kinds, NoKind
  <2>5. msg.status # NoStatus
    BY <2>1, <2>3, <2>4 DEF check_if_popup_should_be_shown, local_user_must_act_on_invoice_popup,
       invoice_popup_allowed_for_order_status, PopupActions, ToldInv, MsgTold, Told, NoStatus, Kinds, NoKind
  <2>6. /\ Told(msg.status) /\ invoice_popup_allowed_for_order_status(d.action, msg.status)
    BY <2>1, <2>5 DEF check_if_popup_should_be_shown, ToldInv, MsgTold
  <2>7. \A s \in StatusOpt : <<i, s>> \in opened => s = msg.status
    BY <1>1, <2>1, <2>2, <2>3, <2>6, OnePhaseEach DEF OpenedInPhase
  <2>8. ~reopened'
    BY <2>1, <2>7 DEF OpenedInPhase
  <2>9. ASSUME NEW j \in 1 .. Len(trade.dms), NEW s \in StatusOpt, <<j, s>> \in opened'
        PROVE  Told(s) /\ invoice_popup_allowed_for_order_status(trade.dms[j].action, s)
    BY <2>1, <2>6, <2>9 DEF OpenedInPhase
  <2> QED BY <1>1, <1>2, <2>8, <2>9 DEF OpenedInPhase
<1>6. CASE Handling
  BY <1>3, <1>6 DEF Handling, NewOrderLookup, DropTake, Forget, RevertStatus, SaveChild, ReadForUpsert,
     WriteUpsert, Snapshot, RecordDispute, TrackChat, StatusWrite, PublishRow, AdvanceCursor, Cleanup
<1>7. CASE TrackOrder \/ Publish \/ SaveOrder \/ ShowResult \/ DeleteOrder \/ ForgetDeleted \/ Reload
           \/ UNCHANGED vars \/ \E i \in fresh : Receive(i)
  BY <1>3, <1>7 DEF TrackOrder, Publish, SaveOrder, ShowResult, DeleteOrder, ForgetDeleted, Reload,
     vars, Receive
<1> QED BY <1>3, <1>4, <1>5, <1>6, <1>7 DEF Next, ListenerNext

\* For every conversation whose orders name their status and that asks for an invoice,
\* and for a bond, in one phase only: however the messages are replayed and whatever
\* the user was refused meanwhile, a popup that comes again comes in the phase it first
\* came in (check_if_popup_should_be_shown).
THEOREM PopupsKeepTheirPhase ==
  ASSUME OrdersNameTheirStatus, OneStatusPerPhase
  PROVE  Spec => []PopupKeepsPhase
<1>1. Init => OpenedInPhase
  BY DEF Init, OpenedInPhase
<1>2. IInv /\ ToldInv /\ OpenedInPhase /\ [Next]_vars => OpenedInPhase'
  BY OpenedStep
<1>3. OpenedInPhase => PopupKeepsPhase
  BY DEF OpenedInPhase, PopupKeepsPhase
<1> QED BY <1>1, <1>2, <1>3, Invariance, ToldInvariant, PTL DEF Spec

-----------------------------------------------------------------------------
(* The stored order that is the user's part of the conversation: not one the *)
(* user has deleted, nor a lost take that came back as a listing.             *)

Live == row # NoRow /\ ~StoredAnew /\ ~Forgotten

\* From the snapshot to the Messages row.
LaterPcs == {"upsertRead", "upsertWrite", "dispute", "trackChat", "statusWrite", "publish"}

\* Nothing has happened to an order before it is stored.
AwaitedIsNew ==
  Awaited => /\ ~dropped /\ inbox = {}
             /\ trade.maker => ~tracked /\ pc = "idle" /\ msg = NoMsg

\* A row is the maker's own, or a taker's, for good.
RowsHaveOwners ==
  /\ trade.maker /\ row # NoRow => row.mine
  /\ base # NoRow => pc \in {"revertWrite", "upsertWrite"} /\ ~Awaited
  /\ base # NoRow /\ row # NoRow => base.mine = row.mine
  /\ pc \in {"dropTake", "forgetTake"} => ~trade.maker

\* An order that is deleted stays deleted: what is stored afterwards is a listing, and
\* a maker's order that is listened to without a row is a deleted one.
DeletedForGood ==
  /\ ~trade.maker /\ Forgotten /\ row # NoRow => row.mine
  /\ trade.maker /\ row = NoRow /\ (tracked \/ "track" \in inbox) => Forgotten

\* Past the snapshot, the row of a live order was there, or the reply is one of the
\* first messages to a take.
SnapshotTaken ==
  Live /\ pc \in LaterPcs /\ snap = NoRow => ~trade.maker /\ cur <= trade.early

\* A listing of a range order is stored where there is no row.
ChildIsNew == pc = "saveChild" => row = NoRow

LifeInv == AwaitedIsNew /\ RowsHaveOwners /\ DeletedForGood /\ SnapshotTaken /\ ChildIsNew


\* How a step changes the row: it is kept, with or without the listener's updates, it
\* goes, or it is saved anew by the task or as a listing.
LEMMA RowSteps ==
  ASSUME TypeOK, [Next]_vars
  PROVE  \/ row = NoRow /\ row' = NoRow
         \/ row # NoRow /\ row' # NoRow /\ row'.mine = row.mine
         \/ row # NoRow /\ row' # NoRow /\ base # NoRow /\ row'.mine = base.mine
         \/ row' = NoRow /\ (DropTake \/ DeleteOrder)
         \/ row' # NoRow /\ row'.mine = trade.maker /\ SaveOrder
         \/ row' # NoRow /\ row'.mine = TRUE /\ SaveChild
<1> USE DEF world, ui, locals, history, listener, Goto
<1>1. /\ row # NoRow => row \in Rows /\ row' \in Rows \cup {NoRow}
      /\ base # NoRow => base \in Rows
      /\ pc # "idle" => dm \in Dms
  BY HandledTyped, StepTyped DEF TypeOK
<1>2. NoRow \notin Rows
  BY AbsentAssumption
<1>3. ASSUME UNCHANGED row \/ (row' = NoRow /\ (DropTake \/ DeleteOrder))
      PROVE  \/ row = NoRow /\ row' = NoRow
             \/ row # NoRow /\ row' # NoRow /\ row'.mine = row.mine
             \/ row' = NoRow /\ (DropTake \/ DeleteOrder)
  BY <1>3
<1>4. CASE SaveOrder
  <2>1. row' \in Rows
    BY <1>4, SavedRowTyped, TradeTyped DEF SaveOrder, StatusOpt, TypeOK
  <2> QED BY <1>2, <1>4, <2>1 DEF SaveOrder, SavedRow
<1>5. CASE SaveChild
  <2>1. row' \in Rows
    BY <1>5, SavedRowTyped DEF SaveChild, StatusOpt, Statuses, PreActiveStatuses
  <2> QED BY <1>2, <1>5, <2>1 DEF SaveChild, SavedRow
<1>6. CASE RevertStatus
  <2>1. "Pending" \in StatusOpt
    BY DEF StatusOpt, Statuses, PreActiveStatuses
  <2> QED BY <1>1, <1>6, <2>1, RowKept DEF RevertStatus
<1>7. ASSUME NEW from, NEW to, WriteUpsert(from, to), from # "idle"
      PROVE  \/ row = NoRow /\ row' = NoRow
             \/ row # NoRow /\ row' # NoRow /\ row'.mine = row.mine
             \/ row # NoRow /\ row' # NoRow /\ base # NoRow /\ row'.mine = base.mine
  BY <1>1, <1>7, RowKept DEF WriteUpsert
<1>8. CASE RecordDispute
  <2>1. row = NoRow => row' = NoRow
    BY <1>8 DEF RecordDispute
  <2>2. row # NoRow => row'.mine = row.mine
    BY <1>1, <1>8 DEF RecordDispute, Rows
  <2>3. row # NoRow => row' \in Rows
    <3> SUFFICES ASSUME row # NoRow PROVE row' \in Rows
      OBVIOUS
    <3> DEFINE announced == /\ dm.action \in {"DisputeInitiatedByYou", "DisputeInitiatedByPeer"}
                            /\ dm.payload = "dispute"
               taken == dm.action = "AdminTookDispute" /\ dm.payload = "solver"
    <3>1. row' = [row EXCEPT !.dispute = @ \/ announced, !.solver = @ \/ taken]
      BY <1>8 DEF RecordDispute
    <3>2. (row.dispute \/ announced) \in BOOLEAN /\ (row.solver \/ taken) \in BOOLEAN
      OBVIOUS
    <3> HIDE DEF announced, taken
    <3> QED BY <1>1, <3>1, <3>2, RowUpdates
  <2> QED BY <1>2, <2>1, <2>2, <2>3
<1>9. CASE StatusWrite
  BY <1>1, <1>9, LocalsTyped, RowKept DEF StatusWrite
<1>10. CASE AdvanceCursor
  <2>1. dm.ts \in Nat
    BY <1>1, <1>10 DEF AdvanceCursor, Dms
  <2> QED BY <1>1, <1>10, <2>1, RowKept DEF AdvanceCursor
<1>11. CASE NewOrderLookup \/ Forget \/ Snapshot \/ TrackChat \/ PublishRow \/ Cleanup \/ DropTake
  BY <1>3, <1>11 DEF NewOrderLookup, Forget, Snapshot, TrackChat, PublishRow, Cleanup, DropTake
<1>12. ASSUME NEW from, NEW to, ReadForUpsert(from, to) PROVE UNCHANGED row
  BY <1>12 DEF ReadForUpsert
<1>13. CASE TrackOrder \/ Publish \/ ShowResult \/ HandleNotification \/ ForgetDeleted \/ Restart
            \/ Reload \/ UNCHANGED vars \/ DeleteOrder \/ \E i \in fresh : Receive(i)
  BY <1>3, <1>13 DEF TrackOrder, Publish, ShowResult, HandleNotification, ForgetDeleted, Restart,
     Reload, vars, DeleteOrder, Receive
<1> QED BY <1>3, <1>4, <1>5, <1>6, <1>7, <1>8, <1>9, <1>10, <1>11, <1>12, <1>13
        DEF Next, ListenerNext, Handling


LEMMA AwaitedIsNewStep ==
  ASSUME IInv, AwaitedIsNew, [Next]_vars
  PROVE  AwaitedIsNew'
<1> USE DEF world, ui, locals, history, listener, Goto
<1>1. SUFFICES ASSUME Awaited' PROVE AwaitedIsNew'
  BY DEF AwaitedIsNew
<1>2. /\ TypeOK /\ UNCHANGED trade /\ SubscribedWhileHandling
      /\ pc = "saveChild" => is_pending_listing(dm)
      /\ Awaited => row = NoRow
  BY ShownSources DEF IInv, Control, NothingStoredYet, ListingsOnly, ListingPcs
<1>3. Awaited
  BY <1>1 DEF Awaited, Next, ListenerNext, Handling, NewOrderLookup, DropTake, Forget, RevertStatus,
     SaveChild, ReadForUpsert, WriteUpsert, Snapshot, RecordDispute, TrackChat, StatusWrite, PublishRow,
     AdvanceCursor, Cleanup, TrackOrder, Receive, Publish, SaveOrder, ShowResult, HandleNotification,
     DeleteOrder, ForgetDeleted, Restart, Reload, vars
<1>4. /\ row = NoRow /\ ~dropped /\ inbox = {}
      /\ trade.maker => ~tracked /\ pc = "idle" /\ msg = NoMsg
  BY <1>2, <1>3 DEF AwaitedIsNew
<1>5. pc # "saveChild"
  BY <1>2, <1>3, NoListingWhileAwaited
<1>6. CASE Handling
  <2>1. UNCHANGED <<dropped, inbox>> /\ pc # "idle"
    BY <1>5, <1>6 DEF Handling, NewOrderLookup, DropTake, Forget, RevertStatus,
       SaveChild, ReadForUpsert, WriteUpsert, Snapshot, RecordDispute, TrackChat, StatusWrite, PublishRow,
       AdvanceCursor, Cleanup
  <2> QED BY <1>2, <1>4, <2>1 DEF AwaitedIsNew
<1>7. CASE \E i \in fresh : Receive(i)
  BY <1>2, <1>4, <1>7 DEF AwaitedIsNew, Receive
<1>8. CASE Reload
  <2>1. tracked' = IsStartupActive(row) /\ (pc' = "idle" \/ IsStartupActive(row)) /\ ~IsStartupActive(row)
    BY <1>4, <1>8 DEF Reload, StartListener, Finish, IsStartupActive
  <2> QED BY <1>2, <1>4, <1>8, <2>1 DEF AwaitedIsNew, Reload
<1>9. CASE Publish \/ UNCHANGED vars \/ HandleNotification
  BY <1>2, <1>4, <1>9 DEF Publish, vars, HandleNotification, AwaitedIsNew
<1>10. ~TrackOrder /\ ~ShowResult /\ ~DeleteOrder /\ ~ForgetDeleted
  BY <1>4 DEF TrackOrder, ShowResult, DeleteOrder, ForgetDeleted
<1>11. ~SaveOrder /\ ~Restart
  BY <1>1 DEF SaveOrder, Restart, Awaited
<1> QED BY <1>6, <1>7, <1>8, <1>9, <1>10, <1>11 DEF Next, ListenerNext

LEMMA RowsHaveOwnersStep ==
  ASSUME IInv, RowsHaveOwners, [Next]_vars
  PROVE  RowsHaveOwners'
<1> USE DEF world, ui, locals, history, listener, Goto
<1>1. /\ TypeOK /\ UNCHANGED trade
      /\ Awaited => row = NoRow
      /\ row # NoRow => row \in Rows
  BY ShownSources DEF IInv, Control, NothingStoredYet, TypeOK
<1>2. trade.maker /\ row' # NoRow => row'.mine
  BY <1>1, RowSteps DEF RowsHaveOwners
<1>3. /\ Awaited' => Awaited
      /\ SaveOrder => Awaited
  BY DEF Awaited, Next, ListenerNext, Handling, NewOrderLookup, DropTake, Forget, RevertStatus,
     SaveChild, ReadForUpsert, WriteUpsert, Snapshot, RecordDispute, TrackChat, StatusWrite, PublishRow,
     AdvanceCursor, Cleanup, TrackOrder, Receive, Publish, SaveOrder, ShowResult, HandleNotification,
     DeleteOrder, ForgetDeleted, Restart, Reload, vars
<1>4. /\ base' # NoRow =>
           \/ base' = base /\ pc \in {"revertWrite", "upsertWrite"} /\ pc' = pc
           \/ base' = row /\ UNCHANGED row /\ pc' \in {"revertWrite", "upsertWrite"}
      /\ pc' \in {"dropTake", "forgetTake"} =>
           pc \in {"dropTake", "forgetTake"} \/ (row # NoRow /\ ~row.mine)
      /\ SaveChild => base' = base /\ pc = "saveChild"
      /\ SaveOrder => base' = base
  <2>1. CASE Handling
    BY <2>1 DEF RowsHaveOwners, Handling, NewOrderLookup, DropTake, Forget, RevertStatus,
       SaveChild, ReadForUpsert, WriteUpsert, Snapshot, RecordDispute, TrackChat, StatusWrite, PublishRow,
       AdvanceCursor, Cleanup, Finish, is_pre_active_taker_take, SaveOrder
  <2>2. CASE ~Handling
    BY <2>2 DEF RowsHaveOwners, Next, ListenerNext, TrackOrder, Receive, StartHandling, Publish, SaveOrder,
       ShowResult, HandleNotification, DeleteOrder, ForgetDeleted, Restart, Reload, StartListener,
       Finish, vars, Handling
  <2> QED BY <2>1, <2>2
<1>5. base' # NoRow /\ row' # NoRow => base'.mine = row'.mine
  <2>1. SUFFICES ASSUME base' # NoRow, row' # NoRow PROVE base'.mine = row'.mine
    OBVIOUS
  <2>2. CASE base' = row /\ UNCHANGED row
    BY <2>2
  <2>3. CASE base' = base /\ pc \in {"revertWrite", "upsertWrite"}
    <3>1. ~SaveChild /\ ~SaveOrder
      BY <1>3, <1>4, <2>1, <2>3 DEF RowsHaveOwners
    <3>2. row # NoRow /\ (row'.mine = row.mine \/ row'.mine = base.mine)
      BY <1>1, <2>1, <3>1, RowSteps
    <3> QED BY <2>1, <2>3, <3>2 DEF RowsHaveOwners
  <2> QED BY <1>4, <2>1, <2>2, <2>3
<1>6. base' # NoRow => pc' \in {"revertWrite", "upsertWrite"} /\ ~Awaited'
  <2>1. SUFFICES ASSUME base' # NoRow, Awaited' PROVE FALSE
    BY <1>4
  <2>2. base' = row
    BY <1>3, <1>4, <2>1 DEF RowsHaveOwners
  <2> QED BY <1>1, <1>3, <2>1, <2>2
<1> QED BY <1>1, <1>2, <1>4, <1>5, <1>6 DEF RowsHaveOwners

LEMMA DeletedForGoodStep ==
  ASSUME IInv, LifeInv, [Next]_vars
  PROVE  DeletedForGood'
<1> USE DEF world, ui, locals, history, listener, Goto
<1>1. /\ TypeOK /\ UNCHANGED trade /\ SubscribedWhileHandling
      /\ AwaitedIsNew /\ RowsHaveOwners /\ DeletedForGood
      /\ row # NoRow => row \in Rows
  BY ShownSources DEF IInv, Control, LifeInv, TypeOK
<1>2. row # NoRow /\ row' # NoRow /\ ~SaveOrder /\ ~SaveChild => row'.mine = row.mine
  BY <1>1, RowSteps DEF RowsHaveOwners
<1>3. row = NoRow /\ row' # NoRow => SaveOrder \/ SaveChild
  BY <1>1, RowSteps
<1>4. row # NoRow /\ row' = NoRow => DropTake \/ DeleteOrder
  BY <1>1, RowSteps
\* Steps that leave what has been deleted alone.
<1>5. ASSUME Forgotten' <=> Forgotten, "track" \in inbox' => "track" \in inbox, tracked' => tracked,
             ~SaveOrder, ~SaveChild, ~DropTake, ~DeleteOrder
      PROVE  DeletedForGood'
  BY <1>1, <1>2, <1>3, <1>4, <1>5 DEF DeletedForGood
<1>6. CASE SaveOrder
  <2>1. Awaited /\ UNCHANGED dropped /\ "deleted" \notin inbox'
    BY <1>1, <1>6 DEF SaveOrder, Awaited, AwaitedIsNew
  <2>2. ~Forgotten' /\ row' # NoRow
    <3>1. row' # NoRow
      BY <1>1, <1>6, <2>1, SavedRowTyped, TradeTyped, AbsentAssumption DEF SaveOrder, StatusOpt, TypeOK
    <3> QED BY <1>1, <2>1, <3>1 DEF AwaitedIsNew, Forgotten
  <2> QED BY <2>2 DEF DeletedForGood
<1>7. CASE SaveChild
  <2>1. row' # NoRow /\ row'.mine
    <3>1. pc = "saveChild" /\ row' = SavedRow("Pending", TRUE)
      BY <1>7 DEF SaveChild
    <3>2. row' \in Rows
      BY <1>1, <3>1, SavedRowTyped DEF StatusOpt, Statuses, PreActiveStatuses
    <3> QED BY <3>1, <3>2, AbsentAssumption DEF SavedRow
  <2> QED BY <1>1, <2>1 DEF DeletedForGood
<1>8. CASE DropTake
  <2>1. row' = NoRow /\ ~trade.maker
    BY <1>1, <1>8 DEF DropTake, RowsHaveOwners
  <2> QED BY <1>1, <2>1 DEF DeletedForGood
<1>9. CASE DeleteOrder
  <2>1. row' = NoRow /\ Forgotten'
    BY <1>9 DEF DeleteOrder, Forgotten
  <2> QED BY <2>1 DEF DeletedForGood
<1>10. CASE Restart \/ Reload
  <2>1. /\ UNCHANGED row /\ "track" \notin inbox' /\ ("deleted" \in inbox' => "deleted" \in inbox)
        /\ dropped' = FALSE \/ dropped' = dropped
        /\ StartListener
    BY <1>10 DEF Restart, Reload
  <2>2. row = NoRow => ~tracked'
    BY <2>1 DEF StartListener, IsStartupActive
  <2>3. Forgotten' => Forgotten
    BY <2>1 DEF Forgotten
  <2> QED BY <1>1, <2>1, <2>2, <2>3 DEF DeletedForGood
<1>11. CASE TrackOrder
  <2>1. "track" \in inbox /\ UNCHANGED <<row, dropped>> /\ inbox' = inbox \ {"track"}
    BY <1>11 DEF TrackOrder
  <2>2. Forgotten' <=> Forgotten
    BY <2>1 DEF Forgotten
  <2> QED BY <1>1, <2>1, <2>2 DEF DeletedForGood
<1>12. CASE ForgetDeleted
  <2>1. Forgotten /\ Forgotten' /\ UNCHANGED <<row, tracked>> /\ inbox' = inbox \ {"deleted"}
    BY <1>12 DEF ForgetDeleted, Forgotten
  <2> QED BY <1>1, <2>1 DEF DeletedForGood
<1>13. CASE ShowResult
  <2>1. UNCHANGED <<row, tracked, dropped>> /\ inbox' = inbox \ {"result"}
    BY <1>13 DEF ShowResult
  <2>2. Forgotten' <=> Forgotten
    BY <2>1 DEF Forgotten
  <2> QED BY <1>1, <2>1, <2>2 DEF DeletedForGood
<1>14. CASE Handling /\ ~SaveChild /\ ~DropTake
  <2>1. UNCHANGED <<dropped, inbox>> /\ (tracked' => tracked) /\ ~SaveOrder /\ ~DeleteOrder
    BY <1>1, <1>14 DEF Handling, NewOrderLookup, DropTake, Forget, RevertStatus,
       SaveChild, ReadForUpsert, WriteUpsert, Snapshot, RecordDispute, TrackChat, StatusWrite, PublishRow,
       AdvanceCursor, Cleanup, SaveOrder, DeleteOrder, Awaited, SubscribedWhileHandling, Finish
  <2> QED BY <1>5, <1>14, <2>1 DEF Forgotten
<1>15. CASE Publish \/ HandleNotification \/ UNCHANGED vars \/ \E i \in fresh : Receive(i)
  <2>1. UNCHANGED <<row, dropped, inbox, tracked>>
    BY <1>15 DEF Publish, HandleNotification, vars, Receive
  <2> QED BY <1>1, <2>1 DEF DeletedForGood, Forgotten
<1> QED BY <1>6, <1>7, <1>8, <1>9, <1>10, <1>11, <1>12, <1>13, <1>14, <1>15 DEF Next, ListenerNext

LEMMA ChildIsNewStep ==
  ASSUME IInv, ChildIsNew, [Next]_vars
  PROVE  ChildIsNew'
<1> USE DEF world, ui, locals, history, listener, Goto
<1>1. TypeOK /\ (pc = "saveChild" => ~Awaited)
  BY NoListingWhileAwaited DEF IInv, Control, ListingsOnly, ListingPcs
<1>2. SUFFICES ASSUME pc' = "saveChild" PROVE row' = NoRow
  BY DEF ChildIsNew
<1>3. CASE Handling
  <2>1. NewOrderLookup /\ row = NoRow /\ UNCHANGED row
    BY <1>2, <1>3 DEF Handling, NewOrderLookup, DropTake, Forget, RevertStatus,
       SaveChild, ReadForUpsert, WriteUpsert, Snapshot, RecordDispute, TrackChat, StatusWrite, PublishRow,
       AdvanceCursor, Cleanup, Finish
  <2> QED BY <2>1
<1>4. CASE ~Handling
  <2>1. pc = "saveChild"
    BY <1>2, <1>4 DEF Next, ListenerNext, TrackOrder, Receive, StartHandling, Publish, SaveOrder,
       ShowResult, HandleNotification, DeleteOrder, ForgetDeleted, Restart, Reload, StartListener,
       Finish, vars
  <2>2. ~SaveOrder /\ ~SaveChild
    BY <1>1, <1>4, <2>1 DEF SaveOrder, Awaited, Handling
  <2> QED BY <1>1, <2>1, <2>2, RowSteps DEF ChildIsNew
<1> QED BY <1>3, <1>4

\* How a step makes an order live.
LEMMA ComesAlive ==
  ASSUME IInv, LifeInv, [Next]_vars, Live'
  PROVE  Live \/ (Awaited /\ SaveOrder) \/ (trade.maker /\ (Restart \/ Reload))
<1> USE DEF world, ui, locals, history, listener
<1>1. /\ TypeOK /\ UNCHANGED trade /\ SubscribedWhileHandling
      /\ AwaitedIsNew /\ RowsHaveOwners /\ DeletedForGood /\ DeletedForGood' /\ ChildIsNew
      /\ row' # NoRow /\ ~StoredAnew' /\ ~Forgotten'
      /\ row # NoRow => row \in Rows
  BY ShownSources, DeletedForGoodStep DEF IInv, LifeInv, Live, Control, TypeOK
<1>2. CASE SaveOrder
  BY <1>2 DEF SaveOrder, Awaited
<1>3. CASE SaveChild
  <2>1. /\ row = NoRow /\ row' = SavedRow("Pending", TRUE) /\ inbox' = inbox \cup {"track"}
        /\ UNCHANGED dropped /\ tracked
    BY <1>1, <1>3 DEF SaveChild, SubscribedWhileHandling, ChildIsNew
  <2>2. trade.maker
    BY <1>1, <2>1 DEF StoredAnew, SavedRow
  <2> QED BY <1>1, <2>1, <2>2 DEF DeletedForGood, Forgotten
<1>4. CASE ~SaveOrder /\ ~SaveChild
  <2>1. row # NoRow /\ row'.mine = row.mine
    BY <1>1, <1>4, RowSteps DEF RowsHaveOwners
  <2>2. ~StoredAnew
    BY <1>1, <2>1 DEF StoredAnew
  <2>3. CASE trade.maker /\ (Restart \/ Reload)
    BY <2>3
  <2>4. CASE ~trade.maker
    <3>1. ~Forgotten
      BY <1>1, <2>1, <2>2, <2>4 DEF DeletedForGood, StoredAnew
    <3> QED BY <2>1, <2>2, <3>1 DEF Live
  <2>5. CASE ~Restart /\ ~Reload
    <3>1. Forgotten => Forgotten'
      BY <1>4, <2>5 DEF Forgotten, Next, ListenerNext, Handling, NewOrderLookup, DropTake, Forget, RevertStatus,
         ReadForUpsert, WriteUpsert, Snapshot, RecordDispute, TrackChat, StatusWrite, PublishRow,
         AdvanceCursor, Cleanup, TrackOrder, Receive, Publish, ShowResult, HandleNotification,
         DeleteOrder, ForgetDeleted, vars
    <3> QED BY <1>1, <2>1, <2>2, <3>1 DEF Live
  <2> QED BY <1>1, <2>3, <2>4, <2>5
<1> QED BY <1>2, <1>3, <1>4

LEMMA SnapshotTakenStep ==
  ASSUME IInv, LifeInv, [Next]_vars
  PROVE  SnapshotTaken'
<1> USE DEF world, ui, locals, history, listener, Goto
<1>1. /\ TypeOK /\ UNCHANGED trade /\ SubscribedWhileHandling /\ NothingStoredYet
      /\ AwaitedIsNew /\ RowsHaveOwners /\ DeletedForGood /\ SnapshotTaken
      /\ trade.early \in Nat /\ published \in Nat /\ cur \in 0 .. published
  BY ShownSources, TradeTyped DEF IInv, LifeInv, Control, TypeOK
<1>2. SUFFICES ASSUME Live', pc' \in LaterPcs, snap' = NoRow PROVE ~trade.maker /\ cur' <= trade.early
  BY <1>1 DEF SnapshotTaken
<1>3. CASE Restart \/ Reload
  BY <1>2, <1>3 DEF Restart, Reload, StartListener, Finish, StartHandling, LaterPcs
<1>4. CASE Awaited /\ SaveOrder
  <2>1. UNCHANGED <<pc, cur, snap>> /\ pc # "idle"
    BY <1>2, <1>4 DEF SaveOrder, LaterPcs
  <2> QED BY <1>1, <1>4, <2>1 DEF AwaitedIsNew, NothingStoredYet
<1>5. CASE Live /\ ~Restart /\ ~Reload
  <2>1. CASE Snapshot
    BY <1>2, <1>5, <2>1 DEF Snapshot, Live
  <2>2. CASE ~Snapshot
    <3>1. pc \in LaterPcs /\ UNCHANGED <<cur, snap>>
      <4>1. CASE Handling
        BY <1>2, <2>2, <4>1 DEF Handling, NewOrderLookup, DropTake, Forget, RevertStatus,
           SaveChild, ReadForUpsert, WriteUpsert, RecordDispute, TrackChat, StatusWrite, PublishRow,
           AdvanceCursor, Cleanup, Finish, LaterPcs
      <4>2. CASE ~Handling
        BY <1>2, <1>5, <4>2 DEF Next, ListenerNext, TrackOrder, Receive, StartHandling, Publish, SaveOrder,
           ShowResult, HandleNotification, DeleteOrder, ForgetDeleted, vars, LaterPcs
      <4> QED BY <4>1, <4>2
    <3> QED BY <1>1, <1>2, <1>5, <3>1 DEF SnapshotTaken
  <2> QED BY <2>1, <2>2
<1> QED BY <1>2, <1>3, <1>4, <1>5, ComesAlive

LEMMA LifeInvariant == Spec => []LifeInv
<1>1. Init => LifeInv
  BY TradeTyped DEF Init, LifeInv, AwaitedIsNew, RowsHaveOwners, DeletedForGood, SnapshotTaken, ChildIsNew,
     Live, LaterPcs, Forgotten
<1>2. IInv /\ LifeInv /\ [Next]_vars => LifeInv'
  BY AwaitedIsNewStep, RowsHaveOwnersStep, DeletedForGoodStep, SnapshotTakenStep, ChildIsNewStep DEF LifeInv
<1> QED BY <1>1, <1>2, Invariance, PTL DEF Spec

-----------------------------------------------------------------------------
(* The banner and the Enter key.                                           *)

\* The card of a live order is read from the user's side of it, and knows the kind
\* where the side depends on it.
SideKnown(m) ==
  m # NoMsg => /\ m.mine = "maker" <=> trade.maker
               /\ trade.maker \/ m.action = "WaitingSellerToPay" => m.kind # NoKind
SidesInv == Awaited \/ Live => SideKnown(msg) /\ SideKnown(prior)

\* A rating, or a word to wait, on the card was sent.
ActionSaid ==
  msg # NoMsg /\ msg.action \in {"Rate", "WaitingBuyerInvoice", "WaitingSellerToPay"} =>
    \E i \in 1 .. Len(trade.dms) : trade.dms[i].action = msg.action

LEMMA SidePublished ==
  ASSUME SidesAgree, IInv, LifeInv, SidesInv, Awaited \/ Live, pc = "publish"
  PROVE  SideKnown(order_message)
<1>1. /\ TypeOK /\ KindsAgree /\ NothingStoredYet /\ AwaitedIsNew /\ RowsHaveOwners /\ SnapshotTaken
      /\ trade.early \in Nat /\ published \in Nat /\ cur \in 1 .. published /\ cur \in 1 .. Len(trade.dms)
      /\ trade \in Trades /\ trade.maker \in BOOLEAN /\ trade.kind # NoKind
  BY TradeTyped DEF IInv, LifeInv, Control, TypeOK, Kinds, NoKind
<1>2. /\ order_message.mine = effective_is_mine /\ order_message.kind = effective_order_kind
      /\ order_message.action = dm.action
  BY DEF order_message
<1>3. prior # NoMsg => (prior.mine = "maker" <=> trade.maker)
  BY DEF SidesInv, SideKnown
<1>4. CASE snap # NoRow /\ row # NoRow
  <2>1. effective_order_kind # NoKind
    BY <1>1, <1>4, KindKnown
  <2>2. Live
    BY <1>1, <1>4 DEF NothingStoredYet
  <2>3. (effective_is_mine = "maker") <=> trade.maker
    BY <1>1, <1>4, <2>2 DEF effective_is_mine, Live, StoredAnew, RowsHaveOwners
  <2> QED BY <1>2, <2>1, <2>3 DEF SideKnown
<1>5. CASE ~(snap # NoRow /\ row # NoRow)
  <2>1. ~trade.maker /\ cur <= trade.early
    <3>1. CASE Awaited
      BY <1>1, <3>1 DEF AwaitedIsNew, NothingStoredYet
    <3>2. CASE Live
      BY <1>1, <1>5, <3>2 DEF SnapshotTaken, LaterPcs, Live
    <3> QED BY <3>1, <3>2
  <2>2. dm.action # "WaitingSellerToPay"
    BY <1>1, <2>1 DEF SidesAgree, dm
  <2>3. effective_is_mine # "maker"
    BY <1>3, <1>5, <2>1 DEF effective_is_mine
  <2> QED BY <1>2, <2>1, <2>2, <2>3 DEF SideKnown
<1> QED BY <1>4, <1>5

LEMMA SidesStep ==
  ASSUME SidesAgree, TakesAreRespawned, IInv, LifeInv, SidesInv, [Next]_vars
  PROVE  SidesInv'
<1> USE DEF world, ui, locals, history, listener, Goto
<1>1. /\ TypeOK /\ UNCHANGED trade /\ AwaitedIsNew /\ RowsHaveOwners
      /\ trade.kind # NoKind /\ trade.maker \in BOOLEAN
      /\ msg # NoMsg => msg \in Msgs
  BY ShownSources, TradeTyped DEF IInv, LifeInv, TypeOK, Kinds, NoKind
<1>2. \A m : SideKnown(m)' <=> SideKnown(m)
  BY <1>1 DEF SideKnown
<1>3. SUFFICES ASSUME Awaited' \/ Live' PROVE SideKnown(msg') /\ SideKnown(prior')
  BY <1>2 DEF SidesInv, SideKnown
<1>4. SideKnown(NoMsg)
  BY DEF SideKnown
<1>5. CASE Restart
  <2>1. prior' = NoMsg /\ msg' = (IF row = NoRow THEN NoMsg ELSE db_order_to_history_message(row)) /\ row' = row
    BY <1>5 DEF Restart, StartListener, Finish, StartHandling
  <2>2. CASE row = NoRow
    BY <1>4, <2>1, <2>2
  <2>3. CASE row # NoRow
    <3>1. Live'
      BY <1>3, <1>5 DEF Restart, Awaited
    <3>2. row.mine <=> trade.maker
      BY <1>1, <2>1, <2>3, <3>1 DEF Live, StoredAnew, RowsHaveOwners
    <3>3. SideKnown(db_order_to_history_message(row))
      BY <1>1, <3>2 DEF SideKnown, db_order_to_history_message
    <3> QED BY <1>4, <2>1, <2>3, <3>3
  <2> QED BY <2>2, <2>3
<1>6. CASE ~Restart
  <2>1. Awaited \/ Live
    <3>1. Awaited' => Awaited
      BY DEF Awaited, Next, ListenerNext, Handling, NewOrderLookup, DropTake, Forget, RevertStatus,
         SaveChild, ReadForUpsert, WriteUpsert, Snapshot, RecordDispute, TrackChat, StatusWrite, PublishRow,
         AdvanceCursor, Cleanup, TrackOrder, Receive, Publish, SaveOrder, ShowResult, HandleNotification,
         DeleteOrder, ForgetDeleted, Restart, Reload, vars
    <3>2. ~(trade.maker /\ Reload)
      BY DEF TakesAreRespawned, Reload
    <3> QED BY <1>3, <1>6, <3>1, <3>2, ComesAlive
  <2>2. SideKnown(msg) /\ SideKnown(prior)
    BY <2>1 DEF SidesInv
  <2>3. msg # NoMsg => SideKnown([msg EXCEPT !.popup = TRUE])
    <3>1. msg # NoMsg => LET q == [msg EXCEPT !.popup = TRUE] IN
            q.kind = msg.kind /\ q.mine = msg.mine /\ q.action = msg.action
      BY <1>1 DEF Msgs
    <3> QED BY <2>2, <3>1 DEF SideKnown
  <2>4. CASE ShowResult
    <3>1. SideKnown(ResultRow("NewOrder", FALSE)) /\ SideKnown(ResultRow("AddInvoice", TRUE))
      BY <1>1 DEF SideKnown, ResultRow
    <3> QED BY <2>2, <2>3, <2>4, <3>1 DEF ShowResult
  <2>5. CASE HandleNotification
    BY <2>2, <2>3, <2>5 DEF HandleNotification
  <2>6. CASE PublishRow
    <3>1. SideKnown(order_message)
      BY <2>1, <2>6, SidePublished DEF PublishRow
    <3> QED BY <2>2, <2>6, <3>1 DEF PublishRow
  <2>7. CASE Handling /\ ~PublishRow
    <3>1. msg' \in {msg, NoMsg} /\ prior' \in {prior, msg, NoMsg}
      BY <2>7 DEF Handling, NewOrderLookup, DropTake, Forget, RevertStatus,
         SaveChild, ReadForUpsert, WriteUpsert, Snapshot, RecordDispute, TrackChat, StatusWrite,
         AdvanceCursor, Cleanup, Finish
    <3> QED BY <1>4, <2>2, <3>1
  <2>8. CASE ForgetDeleted
    BY <1>1, <1>3, <2>8 DEF ForgetDeleted, AwaitedIsNew, Awaited, Live, Forgotten
  <2>9. CASE Reload \/ \E i \in fresh : Receive(i)
    <3>1. msg' = msg /\ prior' \in {prior, NoMsg}
      BY <2>9 DEF Reload, StartListener, Finish, StartHandling, Receive
    <3> QED BY <1>4, <2>2, <3>1
  <2>10. CASE TrackOrder \/ Publish \/ SaveOrder \/ DeleteOrder \/ UNCHANGED vars
    BY <2>2, <2>10 DEF TrackOrder, Publish, SaveOrder, DeleteOrder, vars
  <2> QED BY <1>6, <2>4, <2>5, <2>6, <2>7, <2>8, <2>9, <2>10 DEF Next, ListenerNext
<1> QED BY <1>5, <1>6

LEMMA ActionSaidStep ==
  ASSUME TypeOK, ActionSaid, [Next]_vars
  PROVE  ActionSaid'
<1> USE DEF world, ui, locals, history, listener, Goto
<1>1. UNCHANGED trade /\ (msg # NoMsg => msg \in Msgs)
  BY ShownSources DEF TypeOK
<1>2. ASSUME msg' = NoMsg \/ (msg # NoMsg /\ msg'.action = msg.action)
             \/ msg'.action \notin {"Rate", "WaitingBuyerInvoice", "WaitingSellerToPay"}
      PROVE  ActionSaid'
  BY <1>1, <1>2 DEF ActionSaid
<1>3. msg # NoMsg => [msg EXCEPT !.popup = TRUE].action = msg.action
  BY <1>1 DEF Msgs
<1>4. CASE PublishRow /\ msg' = order_message
  <2>1. cur \in 1 .. Len(trade.dms) /\ order_message.action = trade.dms[cur].action
    BY <1>4, TradeTyped DEF TypeOK, PublishRow, order_message, dm
  <2> QED BY <1>1, <1>4, <2>1 DEF ActionSaid
<1>5. CASE Handling /\ ~(PublishRow /\ msg' = order_message)
  <2>1. msg' \in {msg, NoMsg}
    BY <1>5 DEF Handling, NewOrderLookup, DropTake, Forget, RevertStatus, PublishRow,
       SaveChild, ReadForUpsert, WriteUpsert, Snapshot, RecordDispute, TrackChat, StatusWrite,
       AdvanceCursor, Cleanup, Finish
  <2> QED BY <1>2, <2>1
<1>6. CASE ShowResult \/ HandleNotification
  <2>1. \/ msg' = msg \/ (msg # NoMsg /\ msg' = [msg EXCEPT !.popup = TRUE])
        \/ msg' \in {ResultRow("NewOrder", FALSE), ResultRow("AddInvoice", TRUE)}
    BY <1>6 DEF ShowResult, HandleNotification
  <2>2. ResultRow("NewOrder", FALSE).action = "NewOrder" /\ ResultRow("AddInvoice", TRUE).action = "AddInvoice"
    BY DEF ResultRow
  <2>3. msg' \in {ResultRow("NewOrder", FALSE), ResultRow("AddInvoice", TRUE)} =>
          msg'.action \in {"NewOrder", "AddInvoice"}
    BY <2>2
  <2>4. ASSUME msg' = msg \/ (msg # NoMsg /\ msg' = [msg EXCEPT !.popup = TRUE]) PROVE ActionSaid'
    <3>1. CASE msg' = msg
      BY <1>1, <3>1 DEF ActionSaid
    <3>2. CASE msg # NoMsg /\ msg' = [msg EXCEPT !.popup = TRUE]
      <4>1. msg'.action = msg.action
        BY <1>3, <3>2
      <4> QED BY <1>2, <3>2, <4>1
    <3> QED BY <2>4, <3>1, <3>2
  <2> QED BY <1>2, <2>1, <2>3, <2>4
<1>7. CASE Restart \/ ForgetDeleted
  <2>1. msg' = NoMsg \/ msg' = db_order_to_history_message(row)
    BY <1>7 DEF Restart, ForgetDeleted
  <2>2. db_order_to_history_message(row).action \in {"TakeBuy", "TakeSell", "PayBondInvoice", "NewOrder"}
    BY DEF db_order_to_history_message
  <2> QED BY <1>2, <2>1, <2>2
<1>8. CASE Reload \/ TrackOrder \/ Publish \/ SaveOrder \/ DeleteOrder \/ UNCHANGED vars
           \/ \E i \in fresh : Receive(i)
  BY <1>2, <1>8 DEF Reload, TrackOrder, Publish, SaveOrder, DeleteOrder, vars, Receive
<1> QED BY <1>4, <1>5, <1>6, <1>7, <1>8 DEF Next, ListenerNext

\* What the card of a live order says and what Enter opens on it.
LEMMA AgreesOnCard ==
  ASSUME SidesAgree, RatedTradesSucceed, IInv, ToldInv, SidesInv, ActionSaid, Live
  PROVE  CardAndEnterAgree
<1>1. SUFFICES ASSUME msg # NoMsg
               PROVE  LET asks == message_status_presentation(msg) \in {"act", "rate"}
                          opens == EnterOpens(msg)
                      IN /\ asks => \/ opens \in PopupActions \cup {"question", "rating", "stale"}
                                    \/ msg.action \in LabelOnlyActions
                         /\ opens \in PopupActions \cup {"rating"} => asks
  BY DEF CardAndEnterAgree
<1>2. /\ TypeOK /\ trade \in Trades /\ trade.kind \in Kinds /\ trade.maker \in BOOLEAN
      /\ msg.kind \in {trade.kind, NoKind} /\ SideKnown(msg) /\ MsgTold(msg)
  BY <1>1, TradeTyped DEF IInv, Control, KindsAgree, TypeOK, SidesInv, ToldInv
<1> DEFINE asks == message_status_presentation(msg) \in {"act", "rate"}
           opens == EnterOpens(msg)
           asked == invoice_popup_action_for_message_action(msg.action)
           clear == /\ message_timeline_warning_for_order_status(msg.status) = "none"
                    /\ message_timeline_warning(msg.action) = "none"
                    /\ msg.status \notin {"SettledByAdmin", "CompletedByAdmin"}
<1>3. asks => \/ msg.action = "Rate"
              \/ msg.action \in PopupActions /\ local_user_must_act_on_invoice_popup(msg, msg.action)
              \/ msg.action \in AskedActions \cup LabelOnlyActions
  BY DEF message_status_presentation, actionable_next_step, message_timeline_warning_for_order_status,
         message_timeline_warning, AskedActions, LabelOnlyActions
<1>4. asks => \/ opens \in PopupActions \cup {"question", "rating", "stale"}
              \/ msg.action \in LabelOnlyActions
  BY <1>3 DEF EnterOpens, invoice_popup_action_for_message_action, AskedActions, PopupActions
<1>5. clear /\ msg.status # "Success" /\ actionable_next_step(msg) => asks
  BY DEF message_status_presentation
<1>6. clear /\ msg.status = "Success" /\ msg.action = "Rate" => asks
  BY DEF message_status_presentation
<1>7. ASSUME opens = "rating" PROVE asks
  <2>1. msg.action = "Rate"
    BY <1>7 DEF EnterOpens, invoice_popup_action_for_message_action, PopupActions
  <2>2. PICK i \in 1 .. Len(trade.dms) : trade.dms[i].action = "Rate"
    BY <1>1, <2>1 DEF ActionSaid
  <2>3. Spoken(trade) \cap (TerminalDmStatuses \cup {"Dispute"}) = {}
    BY <1>2, <2>2 DEF RatedTradesSucceed
  <2>4. msg.status \notin TerminalDmStatuses \cup {"Dispute"}
    BY <1>1, <1>2, <2>3 DEF MsgTold, Told, TerminalDmStatuses, TerminalTradeStatuses, NoStatus
  <2>5. clear
    BY <2>1, <2>4 DEF message_timeline_warning_for_order_status, message_timeline_warning,
       TerminalDmStatuses, TerminalTradeStatuses, CanceledStatuses, DisputeActions
  <2>6. actionable_next_step(msg)
    BY <2>1 DEF actionable_next_step
  <2> QED BY <1>5, <1>6, <2>1, <2>5, <2>6
<1>8. ASSUME opens \in PopupActions PROVE asks
  <2>1. /\ asked \in PopupActions /\ invoice_popup_allowed_for_order_status(asked, msg.status)
        /\ local_user_must_act_on_invoice_popup(msg, asked)
    BY <1>8 DEF EnterOpens, PopupActions, AskedActions
  <2>2. msg.action \notin {"WaitingBuyerInvoice", "WaitingSellerToPay"}
    <3>1. ASSUME msg.action = "WaitingBuyerInvoice" PROVE FALSE
      <4>1. asked = "AddInvoice"
        BY <3>1 DEF invoice_popup_action_for_message_action
      <4>2. PICK i \in 1 .. Len(trade.dms) : trade.dms[i].action = "WaitingBuyerInvoice"
        BY <1>1, <3>1 DEF ActionSaid
      <4>3. trade.kind = "buy" <=> ~trade.maker
        BY <1>2, <4>2 DEF SidesAgree
      <4> QED BY <1>1, <1>2, <2>1, <4>1, <4>3
              DEF local_user_must_act_on_invoice_popup, SideKnown, Kinds, NoKind
    <3>2. ASSUME msg.action = "WaitingSellerToPay" PROVE FALSE
      <4>1. asked = "PayInvoice"
        BY <3>2 DEF invoice_popup_action_for_message_action
      <4>2. PICK i \in 1 .. Len(trade.dms) : trade.dms[i].action = "WaitingSellerToPay"
        BY <1>1, <3>2 DEF ActionSaid
      <4>3. trade.kind = "buy" <=> trade.maker
        BY <1>2, <4>2 DEF SidesAgree
      <4> QED BY <1>1, <1>2, <2>1, <3>2, <4>1, <4>3
              DEF local_user_must_act_on_invoice_popup, SideKnown, Kinds, NoKind
    <3> QED BY <3>1, <3>2
  <2>3. asked = msg.action /\ msg.action # "AddBondInvoice"
    BY <1>1, <1>2, <2>1, <2>2 DEF invoice_popup_action_for_message_action, PopupActions, MsgTold
  <2>4. clear /\ msg.status # "Success"
    BY <2>1, <2>3 DEF invoice_popup_allowed_for_order_status, PopupActions, message_timeline_warning,
       message_timeline_warning_for_order_status, CanceledStatuses, DisputeActions, NoStatus
  <2>5. actionable_next_step(msg)
    BY <2>1, <2>3 DEF actionable_next_step
  <2> QED BY <1>5, <2>4, <2>5
<1> QED BY <1>4, <1>7, <1>8

\* For every conversation that tells each side what it has to do, and asks only for the
\* rating of a trade that succeeds: on the card of a stored order the user has not
\* deleted, what the banner asks for is what Enter opens, unless the last message has the
\* name of the user's own FiatSent or Release, and the popup or the rating Enter opens
\* for this user is what the banner asks for
\* (message_status_presentation and the key handler of the Messages tab).
THEOREM CardAndEnterAlwaysAgree ==
  ASSUME OrdersNameTheirStatus, SidesAgree, RatedTradesSucceed, TakesAreRespawned
  PROVE  Spec => [](row # NoRow /\ ~Forgotten => CardAndEnterAgree)
<1>1. Init => SidesInv /\ ActionSaid
  BY DEF Init, SidesInv, SideKnown, ActionSaid
<1>2. IInv /\ LifeInv /\ SidesInv /\ ActionSaid /\ [Next]_vars => (SidesInv /\ ActionSaid)'
  BY SidesStep, ActionSaidStep DEF IInv
<1>3. IInv /\ ToldInv /\ SidesInv /\ ActionSaid => (row # NoRow /\ ~Forgotten => CardAndEnterAgree)
  BY AgreesOnCard DEF Live, CardAndEnterAgree
<1> QED BY <1>1, <1>2, <1>3, Invariance, LifeInvariant, ToldInvariant, PTL DEF Spec

-----------------------------------------------------------------------------
(* The Messages tab and the database show one status.                       *)

\* The status a message names, and the order of the statuses of this trade.
Cand(i) == resolved_status_candidate(trade.dms[i])
Le(s1, s2) == should_apply_status_transition(s1, s2, trade.kind)
Respawns == trade \in Respawned

\* The row's status when the message being handled was looked at.
Known == IF snap = NoRow THEN trade.saved ELSE snap.status

\* A status some published message has named, where the order of the messages counts.
Said(s) == /\ s # NoStatus
           /\ Respawns => s = trade.saved \/ \E i \in 1 .. published : NamesStatus(trade.dms[i]) /\ Cand(i) = s

\* The twins of the message on the card have nothing to add to it.
TwinsAreShown(m) ==
  \A i \in 1 .. Len(trade.dms) :
    Twins(trade.dms[i], m) /\ NamesStatus(trade.dms[i]) /\ Le(m.status, Cand(i)) => Cand(i) = m.status

\* Handling the message makes a row in status s and a card m agree.
Repairs(i, s, m) ==
  \/ is_pending_listing(trade.dms[i])
  \/ trade.dms[i].ts >= m.ts /\ ~Twins(trade.dms[i], m)
  \/ Cand(i) \in {s, m.status} /\ Le(s, Cand(i)) /\ Le(m.status, Cand(i))

\* They agree, or a listener was aborted and one of the messages still to come will
\* make them agree.
Agree(s, m, indices) ==
  m # NoMsg => \/ m.status = s
               \/ reloads > 0 /\ (tracked => \E i \in indices : Repairs(i, s, m))

StartPcs == {"idle", "lookup", "snapshot", "revertRead", "revertWrite"}
NextUp == IF pc = "idle" THEN fresh ELSE {cur}
RowMoved == row.status = Known \/ (Upserts(dm) /\ row.status = dm.status)

\* While the reply is awaited, and as long as a message that came before it is handled,
\* everything shows the status the reply stores.
EarlySays ==
  /\ Awaited => snap = NoRow
  /\ Awaited \/ (Live /\ pc \in LaterPcs /\ snap = NoRow) =>
       /\ msg # NoMsg => msg.status = trade.saved
       /\ prior # NoMsg => prior.status = trade.saved
       /\ Live => row.status = trade.saved

\* The reply is shown before the conversation goes on.
ResultInTime == "result" \in inbox => published <= trade.early /\ (~trade.maker => published > 0)

\* Only a listener that was never respawned hears of a live order from its task.
LateTask == reloads > 0 => Respawns /\ flow # "saving" /\ ("track" \in inbox => ~Live)

\* Nobody moves the cursor, or changes the row's owner, under an upsert.
CursorKept == base # NoRow /\ row # NoRow => base.seen = row.seen

\* A take that is dropped has no row left; a listing that is reverted is the user's own.
CaseRows ==
  /\ pc \in {"dropTake", "forgetTake"} => ~Awaited
  /\ pc = "forgetTake" => row = NoRow
  /\ pc \in {"revertRead", "revertWrite", "revertStatus", "revertForget"} /\ row # NoRow => row.mine

\* How a step changes the Messages row.
LEMMA CardSteps ==
  ASSUME TypeOK, [Next]_vars
  PROVE  \/ msg' = NoMsg
         \/ /\ msg # NoMsg /\ msg' # NoMsg
            /\ msg'.status = msg.status /\ msg'.ts = msg.ts /\ msg'.action = msg.action /\ msg'.kind = msg.kind
         \/ PublishRow /\ should_replace_row /\ msg' = order_message
         \/ /\ ShowResult /\ msg = NoMsg
            /\ \/ trade.reply = "created" /\ msg' = ResultRow("NewOrder", FALSE)
               \/ trade.reply = "addInvoice" /\ msg' = ResultRow("AddInvoice", TRUE)
         \/ /\ row # NoRow /\ msg' = db_order_to_history_message(row) /\ UNCHANGED row
            /\ ForgetDeleted \/ Restart
<1> USE DEF world, ui, locals, history, listener, Goto
<1>1. ASSUME msg' = msg \/ (msg # NoMsg /\ msg' = [msg EXCEPT !.popup = TRUE])
      PROVE  \/ msg' = NoMsg
             \/ /\ msg # NoMsg /\ msg' # NoMsg
                /\ msg'.status = msg.status /\ msg'.ts = msg.ts
                /\ msg'.action = msg.action /\ msg'.kind = msg.kind
  <2>1. CASE msg # NoMsg /\ msg' = [msg EXCEPT !.popup = TRUE]
    <3>1. msg \in Msgs
      BY <2>1 DEF TypeOK
    <3>2. /\ msg' \in Msgs /\ msg'.status = msg.status /\ msg'.ts = msg.ts
          /\ msg'.action = msg.action /\ msg'.kind = msg.kind
      BY <2>1, <3>1 DEF Msgs
    <3> QED BY <2>1, <3>2, AbsentAssumption
  <2> QED BY <1>1, <2>1
<1>2. CASE ShowResult
  BY <1>1, <1>2 DEF ShowResult
<1>3. CASE HandleNotification
  <2>1. msg' = msg \/ (msg # NoMsg /\ msg' = [msg EXCEPT !.popup = TRUE])
    BY <1>3 DEF HandleNotification
  <2> QED BY <1>1, <2>1
<1>4. CASE PublishRow
  BY <1>1, <1>4 DEF PublishRow
<1>5. CASE ForgetDeleted \/ Restart
  BY <1>1, <1>5 DEF ForgetDeleted, Restart
<1>6. CASE Handling /\ ~PublishRow
  BY <1>1, <1>6 DEF Handling, NewOrderLookup, DropTake, Forget, RevertStatus, SaveChild, ReadForUpsert,
     WriteUpsert, Snapshot, RecordDispute, TrackChat, StatusWrite, AdvanceCursor, Cleanup
<1>7. CASE TrackOrder \/ Publish \/ SaveOrder \/ DeleteOrder \/ Reload \/ UNCHANGED vars
           \/ \E i \in fresh : Receive(i)
  BY <1>1, <1>7 DEF TrackOrder, Publish, SaveOrder, DeleteOrder, Reload, vars, Receive
<1> QED BY <1>2, <1>3, <1>4, <1>5, <1>6, <1>7 DEF Next, ListenerNext

\* How the handling of a message goes on from the snapshot.
LEMMA LaterSteps ==
  ASSUME TypeOK, [Next]_vars, pc' \in LaterPcs
  PROVE  /\ ~Restart /\ ~Reload
         /\ \/ pc = "snapshot" /\ Snapshot
            \/ pc \in LaterPcs /\ UNCHANGED <<cur, snap>>
<1> USE DEF world, ui, locals, history, listener, Goto
<1>1. ~Restart /\ ~Reload /\ ~\E i \in fresh : Receive(i)
  BY DEF Restart, Reload, Receive, StartListener, StartHandling, Finish, LaterPcs
<1>2. CASE Handling
  <2>1. CASE Snapshot
    BY <1>1, <2>1 DEF Snapshot
  <2>2. CASE ~Snapshot
    BY <1>1, <1>2, <2>2 DEF Handling, NewOrderLookup, DropTake, Forget, RevertStatus, SaveChild, ReadForUpsert,
       WriteUpsert, RecordDispute, TrackChat, StatusWrite, PublishRow, AdvanceCursor, Cleanup,
       Finish, LaterPcs
  <2> QED BY <2>1, <2>2
<1>3. CASE TrackOrder \/ Publish \/ SaveOrder \/ DeleteOrder \/ UNCHANGED vars
           \/ ShowResult \/ ForgetDeleted \/ HandleNotification
  BY <1>1, <1>3 DEF TrackOrder, Publish, SaveOrder, DeleteOrder, vars, ShowResult, ForgetDeleted,
     HandleNotification, LaterPcs
<1> QED BY <1>1, <1>2, <1>3 DEF Next, ListenerNext

\* How a step changes the status and the cursor of a row that stays.
LEMMA StatusSteps ==
  ASSUME TypeOK, [Next]_vars, row # NoRow, row' # NoRow
  PROVE  \/ row'.status = row.status /\ row'.seen = row.seen /\ row'.created = row.created
         \/ /\ AdvanceCursor
            /\ row'.status = row.status /\ row'.seen = dm.ts /\ row'.created = row.created
         \/ /\ WriteUpsert("upsertWrite", "dispute") \/ WriteUpsert("revertWrite", "revertStatus")
            /\ base # NoRow
            /\ row'.status = dm.status /\ row'.seen = base.seen /\ row'.created = base.created
         \/ /\ RevertStatus
            /\ row'.status = "Pending" /\ row'.seen = row.seen /\ row'.created = row.created
         \/ /\ StatusWrite /\ StatusToWrite # NoStatus
            /\ row'.status = StatusToWrite /\ row'.seen = row.seen /\ row'.created = row.created
         \/ SaveOrder \/ SaveChild
<1> USE DEF world, ui, locals, history, listener, Goto
<1>1. row \in Rows /\ (base # NoRow => base \in Rows) /\ NoRow \notin Rows
  BY AbsentAssumption DEF TypeOK
<1>2. CASE RevertStatus
  <2>1. row' = [row EXCEPT !.status = "Pending"]
    BY <1>2 DEF RevertStatus
  <2>2. row'.status = "Pending" /\ row'.seen = row.seen /\ row'.created = row.created
    BY <1>1, <2>1 DEF Rows
  <2> QED BY <1>2, <2>2
<1>3. ASSUME NEW from, NEW to, WriteUpsert(from, to)
      PROVE  \/ row' = row
             \/ /\ base # NoRow
                /\ row'.status = dm.status /\ row'.seen = base.seen /\ row'.created = base.created
  <2>1. row' = row \/ (base # NoRow /\ row' = build_order_from_small_order(dm, base))
    BY <1>3 DEF WriteUpsert
  <2>2. base # NoRow => LET r == build_order_from_small_order(dm, base) IN
          r.status = dm.status /\ r.seen = base.seen /\ r.created = base.created
    BY <1>1 DEF build_order_from_small_order, Rows
  <2> QED BY <2>1, <2>2
<1>4. CASE RecordDispute
  BY <1>1, <1>4 DEF RecordDispute, Rows
<1>5. CASE StatusWrite
  <2>1. row' = row \/ (StatusToWrite # NoStatus /\ row' = [row EXCEPT !.status = StatusToWrite])
    BY <1>5 DEF StatusWrite
  <2>2. LET r == [row EXCEPT !.status = StatusToWrite] IN
          r.status = StatusToWrite /\ r.seen = row.seen /\ r.created = row.created
    BY <1>1 DEF Rows
  <2> QED BY <1>5, <2>1, <2>2
<1>6. CASE AdvanceCursor
  <2>1. row' = row \/ row' = [row EXCEPT !.seen = dm.ts]
    BY <1>6 DEF AdvanceCursor
  <2>2. LET r == [row EXCEPT !.seen = dm.ts] IN
          r.status = row.status /\ r.seen = dm.ts /\ r.created = row.created
    BY <1>1 DEF Rows
  <2> QED BY <1>6, <2>1, <2>2
<1>7. CASE NewOrderLookup \/ Forget \/ Snapshot \/ TrackChat \/ PublishRow \/ Cleanup \/ DropTake
           \/ SaveChild
  BY <1>7 DEF NewOrderLookup, Forget, Snapshot, TrackChat, PublishRow, Cleanup, DropTake
<1>8. ASSUME NEW from, NEW to, ReadForUpsert(from, to) PROVE UNCHANGED row
  BY <1>8 DEF ReadForUpsert
<1>9. CASE TrackOrder \/ Publish \/ ShowResult \/ HandleNotification \/ ForgetDeleted \/ Restart \/ SaveOrder
           \/ Reload \/ UNCHANGED vars \/ DeleteOrder \/ \E i \in fresh : Receive(i)
  BY <1>9 DEF TrackOrder, Publish, ShowResult, HandleNotification, ForgetDeleted, Restart,
     Reload, vars, DeleteOrder, Receive
<1> QED BY <1>2, <1>3, <1>4, <1>5, <1>6, <1>7, <1>8, <1>9 DEF Next, ListenerNext, Handling

\* What the first messages to a take make of its status.
LEMMA EarlyDecides ==
  ASSUME RepliesAgree, TypeOK, pc # "idle", ~trade.maker, cur <= trade.early, snap = NoRow,
         prior # NoMsg => prior.status = trade.saved
  PROVE  /\ status_candidate = trade.saved /\ effective_order_status = trade.saved
         /\ StatusToWrite \in {trade.saved, NoStatus}
<1>1. /\ trade \in Trades /\ cur \in 1 .. Len(trade.dms) /\ trade.saved # NoStatus
  BY TradeTyped DEF TypeOK, Statuses, TerminalTradeStatuses, PreActiveStatuses, NoStatus
<1>2. status_candidate = trade.saved
  BY <1>1 DEF RepliesAgree, status_candidate, dm
<1>3. status_from_db = NoStatus
  BY DEF status_from_db
<1>4. baseline_status \in {NoStatus, trade.saved}
  BY <1>3 DEF baseline_status
<1>5. should_accept_candidate
  BY <1>1, <1>2, <1>4 DEF should_accept_candidate, should_apply_status_transition
<1> QED BY <1>2, <1>5 DEF effective_order_status, StatusToWrite

\* A message handled since the reply was awaited is one of the first to a take.
LEMMA AwaitedHandling ==
  ASSUME IInv, LifeInv, Awaited, pc # "idle"
  PROVE  ~trade.maker /\ cur <= trade.early /\ ~is_pending_listing(dm) /\ pc \notin ListingPcs
<1>1. published <= trade.early /\ cur \in 1 .. published /\ ~trade.maker
  BY DEF IInv, Control, NothingStoredYet, LifeInv, AwaitedIsNew, TypeOK
<1>2. trade.early \in Nat /\ published \in Nat /\ cur \in Nat
  BY <1>1, TradeTyped DEF IInv, TypeOK
<1> QED BY <1>1, <1>2, NoListingWhileAwaited DEF IInv, Control, ListingsOnly

LEMMA EarlySaysStep ==
  ASSUME OrdersNameTheirStatus, RepliesAgree, IInv, UpsertsOnly, LifeInv, EarlySays, [Next]_vars
  PROVE  EarlySays'
<1> USE DEF world, ui, locals, history, listener, Goto
<1>1. /\ TypeOK /\ UNCHANGED trade /\ NothingStoredYet /\ AwaitedIsNew /\ SnapshotTaken /\ RowsHaveOwners
      /\ row # NoRow => row \in Rows
      /\ base # NoRow => base \in Rows
      /\ trade.saved \in StatusOpt
  BY ShownSources, TradeTyped DEF IInv, Control, LifeInv, TypeOK, StatusOpt
<1>2. Awaited' => Awaited
  BY DEF Awaited, Next, ListenerNext, Handling, NewOrderLookup, DropTake, Forget, RevertStatus,
     SaveChild, ReadForUpsert, WriteUpsert, Snapshot, RecordDispute, TrackChat, StatusWrite, PublishRow,
     AdvanceCursor, Cleanup, TrackOrder, Receive, Publish, SaveOrder, ShowResult, HandleNotification,
     DeleteOrder, ForgetDeleted, Restart, Reload, vars
<1>3. Awaited => snap' = NoRow
  <2>1. snap' \in {snap, row, NoRow}
    BY DEF Next, ListenerNext, Handling, NewOrderLookup, DropTake, Forget, RevertStatus,
       SaveChild, ReadForUpsert, WriteUpsert, Snapshot, RecordDispute, TrackChat, StatusWrite, PublishRow,
       AdvanceCursor, Cleanup, TrackOrder, Receive, Publish, SaveOrder, ShowResult, HandleNotification,
       DeleteOrder, ForgetDeleted, Restart, Reload, StartListener, StartHandling, Finish, vars
  <2> QED BY <1>1, <2>1 DEF EarlySays, NothingStoredYet
\* The two occasions on which everything shows the saved status.
<1>4. SUFFICES ASSUME Awaited' \/ (Live' /\ pc' \in LaterPcs /\ snap' = NoRow)
               PROVE  /\ msg' # NoMsg => msg'.status = trade.saved
                      /\ prior' # NoMsg => prior'.status = trade.saved
                      /\ Live' => row'.status = trade.saved
  BY <1>1, <1>2, <1>3 DEF EarlySays
<1>5. Awaited \/ (Live /\ pc \in LaterPcs /\ snap = NoRow /\ UNCHANGED cur)
  <2>1. CASE Awaited'
    BY <1>2, <2>1
  <2>2. CASE Live' /\ pc' \in LaterPcs /\ snap' = NoRow
    <3>1. ~Restart /\ ~Reload
      BY <1>1, <2>2, LaterSteps
    <3>2. Awaited \/ Live
      BY <2>2, <3>1, ComesAlive
    <3>3. CASE Live /\ pc = "snapshot" /\ Snapshot
      BY <2>2, <3>3 DEF Snapshot, Live
    <3> QED BY <1>1, <2>2, <3>2, <3>3, LaterSteps
  <2> QED BY <1>4, <2>1, <2>2
<1>6. /\ msg # NoMsg => msg.status = trade.saved
      /\ prior # NoMsg => prior.status = trade.saved
      /\ Live => row.status = trade.saved
      /\ snap = NoRow
  BY <1>5 DEF EarlySays
<1>7. ASSUME pc # "idle" PROVE /\ status_candidate = trade.saved /\ effective_order_status = trade.saved
                               /\ StatusToWrite \in {trade.saved, NoStatus}
  <2>1. ~trade.maker /\ cur <= trade.early
    BY <1>1, <1>5, <1>6, <1>7, AwaitedHandling DEF SnapshotTaken
  <2> QED BY <1>1, <1>6, <1>7, <2>1, EarlyDecides
<1>8. prior' # NoMsg => prior'.status = trade.saved
  BY <1>1, <1>6, ShownSources
<1>9. msg' # NoMsg => msg'.status = trade.saved
  <2>1. CASE row # NoRow /\ msg'.status = row.status /\ ("deleted" \in inbox \/ StartListener)
    <3>1. Live
      BY <1>1, <1>5, <2>1 DEF NothingStoredYet
    <3> QED BY <1>6, <2>1, <3>1
  <2> QED BY <1>1, <1>6, <1>7, <2>1, ShownSources
<1>10. Live' => row'.status = trade.saved
  <2>1. SUFFICES ASSUME Live' PROVE row'.status = trade.saved
    OBVIOUS
  <2>2. CASE SaveOrder
    BY <2>2 DEF SaveOrder, SavedRow
  <2>3. CASE ~SaveOrder
    <3>1. Live /\ ~Awaited'
      BY <1>1, <1>2, <1>5, <2>1, <2>3, ComesAlive DEF Live, NothingStoredYet, Restart, Reload
    <3>2. pc \in LaterPcs /\ pc # "idle" /\ pc \notin {"seen", "revertStatus", "revertWrite", "saveChild"}
      BY <1>1, <1>5, <3>1 DEF Live, NothingStoredYet, LaterPcs
    <3>3. row # NoRow /\ row' # NoRow
      BY <2>1, <3>1 DEF Live
    <3>4. CASE WriteUpsert("upsertWrite", "dispute")
      <4>1. status_candidate = dm.status
        BY <1>1, <3>2, <3>4, HandledTold DEF WriteUpsert, UpsertsOnly
      <4> QED BY <1>1, <1>6, <1>7, <2>3, <3>1, <3>2, <3>3, <3>4, <4>1, StatusSteps
              DEF RevertStatus, WriteUpsert, SaveChild, StatusWrite
    <3>5. CASE ~WriteUpsert("upsertWrite", "dispute")
      <4>1. ~WriteUpsert("revertWrite", "revertStatus") /\ ~RevertStatus /\ ~SaveChild
        BY <3>2 DEF RevertStatus, WriteUpsert, SaveChild
      <4>2. row'.status = row.status \/ (StatusToWrite # NoStatus /\ row'.status = StatusToWrite)
        BY <1>1, <2>3, <3>3, <3>5, <4>1, StatusSteps
      <4> QED BY <1>6, <1>7, <3>1, <3>2, <4>2
    <3> QED BY <3>4, <3>5
  <2> QED BY <2>2, <2>3
<1> QED BY <1>8, <1>9, <1>10

LEMMA ResultInTimeStep ==
  ASSUME IInv, LifeInv, ResultInTime, [Next]_vars
  PROVE  ResultInTime'
<1> USE DEF world, ui, locals, history, listener, Goto
<1>1. /\ UNCHANGED trade /\ NothingStoredYet /\ published \in Nat /\ trade.early \in Nat
  BY ShownSources, TradeTyped DEF IInv, Control, TypeOK
<1>2. CASE SaveOrder
  BY <1>1, <1>2 DEF SaveOrder, NothingStoredYet, Awaited, ResultInTime
<1>3. CASE Publish
  <2>1. /\ inbox' = inbox /\ published' = published + 1
        /\ published < trade.early \/ inbox \cap {"track", "result"} = {}
    BY <1>3 DEF Publish
  <2>2. "result" \in inbox => published + 1 <= trade.early
    BY <1>1, <2>1
  <2> QED BY <1>1, <2>1, <2>2 DEF ResultInTime
<1>4. CASE Handling
  <2>1. UNCHANGED published /\ ("result" \in inbox' => "result" \in inbox)
    BY <1>4 DEF Handling, NewOrderLookup, DropTake, Forget, RevertStatus,
       SaveChild, ReadForUpsert, WriteUpsert, Snapshot, RecordDispute, TrackChat, StatusWrite, PublishRow,
       AdvanceCursor, Cleanup
  <2> QED BY <1>1, <2>1 DEF ResultInTime
<1>5. CASE TrackOrder \/ ShowResult \/ HandleNotification \/ ForgetDeleted \/ Restart
           \/ Reload \/ UNCHANGED vars \/ DeleteOrder \/ \E i \in fresh : Receive(i)
  <2>1. UNCHANGED published /\ ("result" \in inbox' => "result" \in inbox)
    BY <1>5 DEF TrackOrder, ShowResult, HandleNotification, ForgetDeleted, Restart,
       Reload, vars, DeleteOrder, Receive
  <2> QED BY <1>1, <2>1 DEF ResultInTime
<1> QED BY <1>2, <1>3, <1>4, <1>5 DEF Next, ListenerNext

LEMMA CaseRowsStep ==
  ASSUME IInv, LifeInv, CaseRows, [Next]_vars
  PROVE  CaseRows'
<1> USE DEF world, ui, locals, history, listener, Goto
<1>1. /\ TypeOK /\ UNCHANGED trade /\ NothingStoredYet /\ RowsHaveOwners
      /\ Awaited' => Awaited
      /\ SaveOrder => Awaited
  <2>1. Awaited' => Awaited
    BY DEF Awaited, Next, ListenerNext, Handling, NewOrderLookup, DropTake, Forget, RevertStatus,
       SaveChild, ReadForUpsert, WriteUpsert, Snapshot, RecordDispute, TrackChat, StatusWrite, PublishRow,
       AdvanceCursor, Cleanup, TrackOrder, Receive, Publish, SaveOrder, ShowResult, HandleNotification,
       DeleteOrder, ForgetDeleted, Restart, Reload, vars
  <2> QED BY <2>1, ShownSources DEF IInv, Control, LifeInv, SaveOrder, Awaited
<1>2. CASE pc' = "dropTake"
  <2>1. pc = "dropTake" \/ is_pre_active_taker_take(row)
    <3>1. CASE Handling
      BY <1>2, <3>1 DEF Handling, NewOrderLookup, DropTake, Forget, RevertStatus,
         SaveChild, ReadForUpsert, WriteUpsert, Snapshot, RecordDispute, TrackChat, StatusWrite, PublishRow,
         AdvanceCursor, Cleanup, Finish
    <3>2. CASE ~Handling
      BY <1>2, <3>2 DEF Next, ListenerNext, TrackOrder, Receive, StartHandling, Publish, SaveOrder,
         ShowResult, HandleNotification, DeleteOrder, ForgetDeleted, Restart, Reload, StartListener,
         Finish, vars
    <3> QED BY <3>1, <3>2
  <2> QED BY <1>1, <1>2, <2>1 DEF CaseRows, is_pre_active_taker_take, NothingStoredYet
<1>3. CASE pc' = "forgetTake"
  <2>1. (DropTake /\ row' = NoRow) \/ (pc = "forgetTake" /\ ~SaveChild)
    <3>1. CASE Handling
      BY <1>3, <3>1 DEF Handling, NewOrderLookup, DropTake, Forget, RevertStatus,
         SaveChild, ReadForUpsert, WriteUpsert, Snapshot, RecordDispute, TrackChat, StatusWrite, PublishRow,
         AdvanceCursor, Cleanup, Finish
    <3>2. CASE ~Handling
      BY <1>3, <3>2 DEF Next, ListenerNext, TrackOrder, Receive, StartHandling, Publish, SaveOrder,
         ShowResult, HandleNotification, DeleteOrder, ForgetDeleted, Restart, Reload, StartListener,
         Finish, vars, SaveChild
    <3> QED BY <3>1, <3>2
  <2>2. row' = NoRow
    BY <1>1, <2>1, RowSteps DEF CaseRows
  <2> QED BY <1>1, <1>3, <2>1, <2>2 DEF CaseRows, DropTake
<1>4. CASE pc' \in {"revertRead", "revertWrite", "revertStatus", "revertForget"}
  <2> DEFINE Reverts == {"revertRead", "revertWrite", "revertStatus", "revertForget"}
  <2>1. ~SaveChild /\ (pc \in Reverts \/ (is_pre_active_maker_listing(row) /\ row' = row))
    <3>1. CASE Handling
      BY <1>4, <3>1 DEF Handling, NewOrderLookup, DropTake, Forget, RevertStatus,
         SaveChild, ReadForUpsert, WriteUpsert, Snapshot, RecordDispute, TrackChat, StatusWrite, PublishRow,
         AdvanceCursor, Cleanup, Finish
    <3>2. CASE ~Handling
      BY <1>4, <3>2 DEF Next, ListenerNext, TrackOrder, Receive, StartHandling, Publish, SaveOrder,
         ShowResult, HandleNotification, DeleteOrder, ForgetDeleted, Restart, Reload, StartListener,
         Finish, vars, Handling
    <3> QED BY <3>1, <3>2
  <2>2. ASSUME row' # NoRow PROVE row'.mine
    <3>1. CASE pc \in Reverts
      <4>1. ~SaveOrder
        BY <1>1, <3>1, AwaitedHandling DEF ListingPcs
      <4> QED BY <1>1, <2>1, <2>2, <3>1, <4>1, RowSteps DEF CaseRows, RowsHaveOwners
    <3>2. CASE pc \notin Reverts
      BY <2>1, <2>2, <3>2 DEF is_pre_active_maker_listing
    <3> QED BY <3>1, <3>2
  <2> QED BY <1>4, <2>2 DEF CaseRows
<1> QED BY <1>2, <1>3, <1>4 DEF CaseRows

LEMMA CursorKeptStep ==
  ASSUME IInv, LifeInv, CursorKept, [Next]_vars
  PROVE  CursorKept'
<1> USE DEF world, ui, locals, history, listener, Goto
<1>1. /\ TypeOK /\ NothingStoredYet /\ RowsHaveOwners
      /\ SaveOrder => Awaited
  BY DEF IInv, Control, LifeInv, SaveOrder, Awaited
<1>2. SUFFICES ASSUME base' # NoRow, row' # NoRow PROVE base'.seen = row'.seen
  BY DEF CursorKept
<1>3. \/ base' = base /\ pc \in {"revertWrite", "upsertWrite"} /\ pc' = pc
      \/ base' = row /\ UNCHANGED row
  <2>1. CASE Handling
    BY <1>2, <2>1 DEF RowsHaveOwners, Handling, NewOrderLookup, DropTake, Forget, RevertStatus,
       SaveChild, ReadForUpsert, WriteUpsert, Snapshot, RecordDispute, TrackChat, StatusWrite, PublishRow,
       AdvanceCursor, Cleanup, Finish, LifeInv
  <2>2. CASE ~Handling
    BY <1>2, <2>2 DEF RowsHaveOwners, Next, ListenerNext, TrackOrder, Receive, StartHandling, Publish, SaveOrder,
       ShowResult, HandleNotification, DeleteOrder, ForgetDeleted, Restart, Reload, StartListener,
       Finish, vars, Handling, LifeInv
  <2> QED BY <2>1, <2>2
<1>4. CASE base' = base /\ pc \in {"revertWrite", "upsertWrite"} /\ pc' = pc
  <2>1. ~SaveOrder /\ ~SaveChild /\ ~AdvanceCursor /\ ~RevertStatus /\ ~StatusWrite
    BY <1>1, <1>2, <1>4 DEF SaveChild, AdvanceCursor, RevertStatus, StatusWrite, RowsHaveOwners
  <2>2. row # NoRow
    BY <1>1, <1>2, <2>1, RowSteps
  <2>3. row'.seen = row.seen \/ row'.seen = base.seen
    BY <1>1, <1>2, <2>1, <2>2, StatusSteps
  <2> QED BY <1>2, <1>4, <2>2, <2>3 DEF CursorKept
<1> QED BY <1>2, <1>3, <1>4

LEMMA LateTaskStep ==
  ASSUME TakesAreRespawned, IInv, LifeInv, LateTask, [Next]_vars
  PROVE  LateTask'
<1> USE DEF world, ui, locals, history, listener, Goto
<1>1. /\ TypeOK /\ UNCHANGED trade /\ AwaitedIsNew /\ RowsHaveOwners /\ ChildIsNew /\ DeletedForGood
      /\ reloads \in Nat
  BY ShownSources, BoundsAssumption DEF IInv, LifeInv, TypeOK
<1>2. CASE Reload
  BY <1>1, <1>2 DEF Reload, LateTask, Respawns
<1>3. CASE Restart
  <2>1. UNCHANGED reloads /\ inbox' = {} /\ flow' # "saving"
    BY <1>3 DEF Restart
  <2> QED BY <1>1, <2>1 DEF LateTask, Respawns
<1>4. CASE SaveOrder
  <2>1. Awaited /\ UNCHANGED reloads /\ flow' \in {"done", "untracked"}
        /\ ("track" \in inbox' => flow = "saving" \/ "track" \in inbox)
    BY <1>4 DEF SaveOrder, Awaited
  <2> QED BY <1>1, <2>1 DEF LateTask, Respawns, AwaitedIsNew
<1>5. CASE SaveChild
  <2>1. /\ row = NoRow /\ UNCHANGED <<reloads, flow, dropped>> /\ pc = "saveChild" /\ pc' = "seen"
        /\ row' = SavedRow("Pending", TRUE)
    BY <1>1, <1>5 DEF SaveChild, ChildIsNew
  <2>2. ~Live' \/ trade.maker
    BY <1>1, <2>1 DEF Live, StoredAnew, SavedRow
  <2> QED BY <1>1, <2>1, <2>2 DEF LateTask, Respawns, TakesAreRespawned
<1>6. CASE ~Reload /\ ~Restart /\ ~SaveOrder /\ ~SaveChild
  <2>1. /\ UNCHANGED reloads /\ ("track" \in inbox' => "track" \in inbox)
        /\ flow' = "saving" => flow = "saving"
    BY <1>6 DEF Next, ListenerNext, Handling, NewOrderLookup, DropTake, Forget, RevertStatus,
     ReadForUpsert, WriteUpsert, Snapshot, RecordDispute, TrackChat, StatusWrite, PublishRow,
     AdvanceCursor, Cleanup, TrackOrder, Receive, Publish, ShowResult, HandleNotification,
     DeleteOrder, ForgetDeleted, vars
  <2>2. Live' => Live
    BY <1>6, ComesAlive
  <2> QED BY <1>1, <2>1, <2>2 DEF LateTask, Respawns
<1> QED BY <1>2, <1>3, <1>4, <1>5, <1>6

\* What the card shows was said by Mostro, and nothing its twins say is missing.
CardSaid ==
  (Live \/ Awaited) /\ msg # NoMsg =>
    /\ Said(msg.status) /\ TwinsAreShown(msg)
    /\ Respawns => /\ msg.ts <= Now
                   /\ \/ msg.action \in {"TakeBuy", "TakeSell"}
                      \/ \E k \in 1 .. published : Twins(trade.dms[k], msg)

\* So was what the row says.
RowSaid ==
  Live => /\ Said(row.status)
          /\ snap # NoRow => Said(snap.status)
          /\ Respawns => row.seen <= Now /\ row.created <= Now /\ (base # NoRow => base.created <= Now)

\* The card that was looked at under the lock is still the card.
PriorIsShown ==
  (Live \/ Awaited) /\ pc \in {"statusWrite", "publish"} /\ prior # NoMsg =>
    msg # NoMsg /\ Twins(msg, prior) /\ msg.status = prior.status

\* A placeholder made of the reply does not show less than the row says.
PlaceholderFits ==
  Live /\ "result" \in inbox /\ msg = NoMsg =>
    /\ pc # "dropTake"
    /\ pc \in StartPcs \cup {"seen", "cleanup"} => row.status = trade.saved
    /\ pc \in LaterPcs => Known = trade.saved
    /\ pc \in {"statusWrite", "publish"} => prior = NoMsg

\* A listing that comes back for a stored order and is neither a lost take nor a
\* republished order is one the order has left behind.
LostAreLost ==
  Live /\ pc \in LaterPcs \cup {"snapshot"} /\ is_pending_listing(dm) =>
    IF pc = "snapshot" THEN row.status \notin PreActiveStatuses
    ELSE snap # NoRow /\ snap.status \notin PreActiveStatuses

\* The messages of a conversation in which the listener is respawned.
LEMMA TimesGrow ==
  ASSUME RespawnedMoveForward, TypeOK, Respawns, [Next]_vars
  PROVE  /\ \A i \in 1 .. published : trade.dms[i].ts <= Now
         /\ Now <= Now' /\ Now \in Nat /\ Now' \in Nat
<1>1. /\ UNCHANGED trade /\ published \in Nat /\ published' \in Nat /\ Len(trade.dms) \in Nat
      /\ published <= Len(trade.dms) /\ published' <= Len(trade.dms) /\ trade \in Trades
      /\ trade.dms \in Seq(Dms)
  <2>1. UNCHANGED trade /\ TypeOK'
    BY ShownSources, StepTyped
  <2>2. published \in 0 .. Len(trade.dms) /\ published' \in 0 .. Len(trade.dms) /\ trade \in Trades
    BY <2>1 DEF TypeOK
  <2>3. Len(trade.dms) \in Nat /\ trade.dms \in Seq(Dms)
    BY <2>2, TradeTyped
  <2> QED BY <2>1, <2>2, <2>3
<1>2. \A i \in 1 .. Len(trade.dms) : trade.dms[i].ts \in Nat
  <2>1. \A i \in 1 .. Len(trade.dms) : trade.dms[i] \in Dms
    BY <1>1
  <2> QED BY <2>1 DEF Dms
<1>3. \A i, j \in 1 .. Len(trade.dms) : i <= j => trade.dms[i].ts <= trade.dms[j].ts
  <2>1. \A i, j \in 1 .. Len(trade.dms) : i < j => trade.dms[i].ts <= trade.dms[j].ts
    BY DEF RespawnedMoveForward, Respawns
  <2> QED BY <1>1, <1>2, <2>1
<1>4. published' = published \/ published' = published + 1
  BY <1>1 DEF Next, ListenerNext, Handling, NewOrderLookup, DropTake, Forget, RevertStatus, SaveChild,
     ReadForUpsert, WriteUpsert, Snapshot, RecordDispute, TrackChat, StatusWrite, PublishRow,
     AdvanceCursor, Cleanup, TrackOrder, Receive, Publish, SaveOrder, ShowResult, HandleNotification,
     DeleteOrder, ForgetDeleted, Restart, Reload, vars, world
<1>5. \A i \in 1 .. published : trade.dms[i].ts <= Now
  BY <1>1, <1>3 DEF Now
<1>6. Now <= Now'
  BY <1>1, <1>2, <1>3, <1>4 DEF Now
<1>7. Now \in Nat /\ Now' \in Nat
  BY <1>1, <1>2 DEF Now
<1> QED BY <1>5, <1>6, <1>7

LEMMA SaidGrows ==
  ASSUME TypeOK, [Next]_vars
  PROVE  /\ UNCHANGED trade
         /\ \A s : Said(s) => Said(s)'
         /\ \A i \in 1 .. published : i \in 1 .. published'
<1>1. UNCHANGED trade /\ published \in Nat
  BY ShownSources, TradeTyped DEF TypeOK
<1>2. published' = published \/ published' = published + 1
  BY <1>1 DEF Next, ListenerNext, Handling, NewOrderLookup, DropTake, Forget, RevertStatus, SaveChild,
     ReadForUpsert, WriteUpsert, Snapshot, RecordDispute, TrackChat, StatusWrite, PublishRow,
     AdvanceCursor, Cleanup, TrackOrder, Receive, Publish, SaveOrder, ShowResult, HandleNotification,
     DeleteOrder, ForgetDeleted, Restart, Reload, vars, world
<1>3. \A i \in 1 .. published : i \in 1 .. published'
  BY <1>1, <1>2
<1> QED BY <1>1, <1>3 DEF Said, Respawns, Cand

\* Where the order of messages does not count, any status will do.
LEMMA SaidAtLarge ==
  ASSUME ~Respawns, NEW s, s # NoStatus
  PROVE  Said(s)
  BY DEF Said

LEMMA SavedIsSaid ==
  ASSUME TypeOK
  PROVE  Said(trade.saved) /\ trade.saved # NoStatus
  BY TradeTyped DEF Said, TypeOK, Statuses, TerminalTradeStatuses, PreActiveStatuses, NoStatus

\* An order that has left the first phases is not listed again.
LEMMA ListingRejected ==
  ASSUME NEW s \in Statuses, s \notin PreActiveStatuses
  PROVE  ~Le(s, "Pending")
<1>1. s # NoStatus /\ s # "Pending" /\ "Pending" \notin TerminalTradeStatuses
  BY DEF Statuses, PreActiveStatuses, TerminalTradeStatuses, NoStatus
<1>2. status_phase_rank_for_actor("Pending", trade.kind) = 0
  BY DEF status_phase_rank_for_actor
<1>3. status_phase_rank_for_actor(s, trade.kind) \notin {0, 1, 2}
  BY DEF status_phase_rank_for_actor, PreActiveStatuses, NoRank
<1>4. status_phase_rank_for_actor(s, trade.kind) # NoRank => status_phase_rank_for_actor(s, trade.kind) > 0
  BY <1>3, RankType DEF NoRank
<1>5. ~RankAllows(s, "Pending", trade.kind)
  BY <1>2, <1>4, RankType DEF RankAllows
<1> QED BY <1>1, <1>5 DEF Le, should_apply_status_transition, is_terminal_trade_status

\* What the guard makes of a message when the row was there.
LEMMA KnownDecides ==
  ASSUME OrdersNameTheirStatus, TypeOK, KindsAgree, ToldInv, pc # "idle", snap # NoRow
  PROVE  /\ snap.status \in Statuses /\ snap.status # NoStatus
         /\ status_from_db = snap.status /\ baseline_status = snap.status
         /\ effective_order_kind = trade.kind
         /\ should_accept_candidate <=> status_candidate # NoStatus /\ Le(snap.status, status_candidate)
         /\ is_pending_listing(dm) => status_candidate = "Pending"
<1>1. snap \in Rows /\ snap.status # NoStatus
  BY DEF TypeOK, ToldInv, RowTold, Told, NoStatus
<1>2. snap.status \in Statuses
  BY <1>1 DEF Rows, StatusOpt
<1>3. status_from_db = snap.status /\ baseline_status = snap.status
  BY <1>1 DEF status_from_db, baseline_status
<1>4. effective_order_kind = trade.kind
  BY KindKnown
<1>5. is_pending_listing(dm) => status_candidate = "Pending"
  BY HandledTold DEF is_pending_listing, small_order_ref_from_payload
<1> QED BY <1>1, <1>2, <1>3, <1>4, <1>5 DEF should_accept_candidate, Le

\* No listing gets past the snapshot of a respawned conversation.
LEMMA NoLateListing ==
  ASSUME RespawnedMoveForward, TypeOK, RowSaid, LostAreLost, Respawns, Live,
         pc \in LaterPcs \/ (pc = "snapshot")
  PROVE  ~is_pending_listing(dm)
<1>1. SUFFICES ASSUME is_pending_listing(dm) PROVE FALSE
  OBVIOUS
<1>2. /\ trade \in Trades /\ cur \in 1 .. Len(trade.dms)
      /\ published \in Nat /\ Len(trade.dms) \in Nat /\ published <= Len(trade.dms)
  BY TradeTyped DEF TypeOK, LaterPcs
<1>3. /\ trade.saved \in PreActiveStatuses
      /\ \A j \in 1 .. published : NamesStatus(trade.dms[j]) => Cand(j) \in PreActiveStatuses
  BY <1>1, <1>2 DEF RespawnedMoveForward, Respawns, dm, Cand
<1>4. \A s : Said(s) => s \in PreActiveStatuses
  BY <1>3 DEF Said
<1> QED BY <1>1, <1>4 DEF LostAreLost, RowSaid

\* What a handled message says of a live order.
LEMMA HandledSaid ==
  ASSUME RespawnedMoveForward, TypeOK, RowSaid, LostAreLost, Live, pc \in LaterPcs,
         status_candidate # NoStatus
  PROVE  Said(status_candidate) /\ (Respawns => NamesStatus(dm))
<1>1. cur \in 1 .. published
  BY TradeTyped DEF TypeOK, LaterPcs
<1>2. CASE Respawns
  <2>1. NamesStatus(dm)
    BY <1>2, NoLateListing DEF NamesStatus, status_candidate
  <2> QED BY <1>1, <1>2, <2>1 DEF Said, Cand, dm, status_candidate
<1> QED BY <1>2, SaidAtLarge

\* Everything about the rows and the card but where they differ.
Settings ==
  /\ EarlySays /\ ResultInTime /\ LateTask /\ CursorKept /\ CaseRows
  /\ CardSaid /\ RowSaid /\ PriorIsShown /\ PlaceholderFits /\ LostAreLost

\* The listener's decision about a live order, or about one that is awaited.
LEMMA EarlyDecided ==
  ASSUME RepliesAgree, IInv, LifeInv, EarlySays, Live \/ Awaited, pc \in LaterPcs, snap = NoRow
  PROVE  /\ ~trade.maker /\ cur <= trade.early
         /\ status_candidate = trade.saved /\ effective_order_status = trade.saved
         /\ StatusToWrite \in {trade.saved, NoStatus}
         /\ Live => row.status = trade.saved
         /\ msg # NoMsg => msg.status = trade.saved
<1>1. TypeOK /\ pc # "idle" /\ SnapshotTaken
  BY DEF IInv, LifeInv, LaterPcs
<1>2. ~trade.maker /\ cur <= trade.early
  BY <1>1, AwaitedHandling DEF SnapshotTaken
<1>3. /\ prior # NoMsg => prior.status = trade.saved
      /\ Live => row.status = trade.saved
      /\ msg # NoMsg => msg.status = trade.saved
  BY DEF EarlySays
<1> QED BY <1>1, <1>2, <1>3, EarlyDecides

LEMMA DecidedSaid ==
  ASSUME OrdersNameTheirStatus, RepliesAgree, TwinsAgree, RespawnedMoveForward,
         IInv, ToldInv, LifeInv, EarlySays, RowSaid, LostAreLost,
         Live \/ Awaited, pc \in {"statusWrite", "publish"}
  PROVE  /\ Said(effective_order_status)
         /\ StatusToWrite # NoStatus => Said(StatusToWrite)
         /\ TwinsAreShown(order_message)
<1>1. /\ TypeOK /\ pc # "idle" /\ pc \in LaterPcs /\ SnapshotTaken /\ KindsAgree
      /\ trade \in Trades /\ cur \in 1 .. Len(trade.dms)
  BY TradeTyped DEF IInv, LifeInv, LaterPcs, Control, TypeOK
<1>2. \A i \in 1 .. Len(trade.dms) : Twins(trade.dms[i], order_message) => Cand(i) = status_candidate
  <2>1. order_message.ts = dm.ts /\ order_message.action = dm.action
    BY DEF order_message
  <2> QED BY <1>1, <2>1 DEF TwinsAgree, Twins, Cand, status_candidate, dm
<1>3. order_message.status = effective_order_status
  BY DEF order_message
<1>4. CASE snap = NoRow
  BY <1>1, <1>2, <1>3, <1>4, EarlyDecided, SavedIsSaid DEF TwinsAreShown
<1>5. CASE snap # NoRow
  <2>1. Live
    BY <1>5 DEF EarlySays
  <2>2. Said(snap.status)
    BY <1>5, <2>1 DEF RowSaid
  <2>3. status_candidate # NoStatus => Said(status_candidate)
    BY <1>1, <2>1, HandledSaid
  <2>4. /\ status_from_db = snap.status /\ baseline_status = snap.status
        /\ should_accept_candidate <=> status_candidate # NoStatus /\ Le(snap.status, status_candidate)
    BY <1>1, <1>5, KnownDecides
  <2>5. effective_order_status = IF should_accept_candidate THEN status_candidate ELSE snap.status
    BY <2>4 DEF effective_order_status
  <2>6. StatusToWrite \in {status_candidate, snap.status, NoStatus}
    BY <2>4 DEF StatusToWrite
  <2>7. TwinsAreShown(order_message)
    <3> SUFFICES ASSUME NEW i \in 1 .. Len(trade.dms), Twins(trade.dms[i], order_message),
                        NamesStatus(trade.dms[i]), Le(order_message.status, Cand(i))
                 PROVE  Cand(i) = order_message.status
      BY DEF TwinsAreShown
    <3>1. Cand(i) = status_candidate /\ Cand(i) # NoStatus
      BY <1>2 DEF NamesStatus, Cand
    <3> QED BY <1>3, <2>4, <2>5, <3>1
  <2> QED BY <2>2, <2>3, <2>4, <2>5, <2>6, <2>7
<1> QED BY <1>4, <1>5

\* The rows that are made outside the listener have no twins that say more.
LEMMA ResultRowSaid ==
  ASSUME OrdersNameTheirStatus, RepliesAgree, TwinsAgree, TakesAreRespawned, IInv, ResultInTime,
         "result" \in inbox, NEW m,
         \/ trade.reply = "created" /\ m = ResultRow("NewOrder", FALSE)
         \/ trade.reply = "addInvoice" /\ m = ResultRow("AddInvoice", TRUE)
  PROVE  /\ m.status = trade.saved /\ m.ts = Now /\ TwinsAreShown(m)
         /\ Respawns => \E k \in 1 .. published : Twins(trade.dms[k], m)
<1>1. /\ TypeOK /\ trade \in Trades /\ published \in Nat /\ published <= Len(trade.dms) /\ Len(trade.dms) \in Nat
      /\ published <= trade.early /\ (~trade.maker => published > 0) /\ trade.early \in Nat
      /\ trade.maker <=> trade.reply = "created"
  BY TradeTyped DEF IInv, TypeOK, ResultInTime, RepliesAgree
<1>2. /\ m.status = trade.saved /\ m.ts = Now
      /\ m.action = IF trade.maker THEN "NewOrder" ELSE "AddInvoice"
  BY <1>1 DEF ResultRow
<1>3. CASE trade.maker
  <2>1. \A i \in 1 .. Len(trade.dms) : Twins(trade.dms[i], m) => is_pending_listing(trade.dms[i])
    BY <1>1, <1>2, <1>3 DEF OrdersNameTheirStatus, Twins
  <2>2. ~Respawns
    BY <1>3 DEF TakesAreRespawned, Respawns
  <2> QED BY <1>2, <2>1, <2>2 DEF TwinsAreShown, NamesStatus
<1>4. CASE ~trade.maker
  <2>1. published \in 1 .. Len(trade.dms) /\ published \in 1 .. published /\ Now = trade.dms[published].ts
    BY <1>1, <1>4 DEF Now
  <2>2. Cand(published) = trade.saved /\ trade.dms[published].action = "AddInvoice"
    BY <1>1, <1>4, <2>1 DEF RepliesAgree, Cand
  <2>3. Twins(trade.dms[published], m)
    BY <1>2, <1>4, <2>1, <2>2 DEF Twins
  <2>4. ASSUME NEW i \in 1 .. Len(trade.dms), Twins(trade.dms[i], m) PROVE Cand(i) = m.status
    <3>1. Twins(trade.dms[i], trade.dms[published])
      BY <2>3, <2>4 DEF Twins
    <3> QED BY <1>1, <1>2, <2>1, <2>2, <3>1 DEF TwinsAgree, Cand
  <2> QED BY <1>2, <2>1, <2>3, <2>4 DEF TwinsAreShown
<1> QED BY <1>3, <1>4

LEMMA HistoryRowSaid ==
  ASSUME OrdersNameTheirStatus, TwinsAgree, IInv, LifeInv, row # NoRow, ~StoredAnew,
         NEW m, m = db_order_to_history_message(row)
  PROVE  /\ m.status = row.status /\ TwinsAreShown(m)
         /\ m.ts \in {row.seen, row.created}
         /\ ~trade.maker => m.action \in {"TakeBuy", "TakeSell"}
<1>1. /\ TypeOK /\ trade \in Trades /\ row \in Rows /\ (row.mine <=> trade.maker)
      /\ trade.maker \in BOOLEAN
  BY TradeTyped DEF IInv, LifeInv, RowsHaveOwners, StoredAnew, TypeOK, Rows
<1>2. /\ m.status = row.status /\ m.ts \in {row.seen, row.created}
      /\ ~trade.maker => m.action \in {"TakeBuy", "TakeSell"}
      /\ trade.maker => m.action = IF row.status = "WaitingMakerBond" THEN "PayBondInvoice" ELSE "NewOrder"
  BY <1>1 DEF db_order_to_history_message
<1>3. \A i \in 1 .. Len(trade.dms) : trade.dms[i].action \notin {"TakeBuy", "TakeSell"}
  <2>1. \A i \in 1 .. Len(trade.dms) : trade.dms[i] \in Dms
    BY <1>1, TradeTyped
  <2> QED BY <2>1 DEF Dms
<1>4. ASSUME NEW i \in 1 .. Len(trade.dms), Twins(trade.dms[i], m), NamesStatus(trade.dms[i])
      PROVE  Cand(i) = m.status
  <2>1. trade.maker /\ trade.dms[i].action = m.action
    BY <1>2, <1>3, <1>4 DEF Twins
  <2>2. trade.dms[i].action # "NewOrder"
    BY <1>1, <1>4 DEF OrdersNameTheirStatus, NamesStatus
  <2> QED BY <1>1, <1>2, <2>1, <2>2 DEF TwinsAgree, Cand
<1> QED BY <1>2, <1>4 DEF TwinsAreShown

LEMMA CardSaidStep ==
  ASSUME OrdersNameTheirStatus, RepliesAgree, TwinsAgree, TakesAreRespawned, RespawnedMoveForward,
         IInv, ToldInv, LifeInv, Settings, [Next]_vars
  PROVE  CardSaid'
<1> USE DEF world, ui, locals, history, listener
<1>1. /\ TypeOK /\ UNCHANGED trade /\ AwaitedIsNew /\ RowsHaveOwners /\ NothingStoredYet
      /\ trade \in Trades /\ cur \in 0 .. published
      /\ \A s : Said(s) => Said(s)'
      /\ \A i \in 1 .. published : i \in 1 .. published'
  BY ShownSources, SaidGrows DEF IInv, LifeInv, Control, TypeOK
<1>2. /\ \A m : TwinsAreShown(m) => TwinsAreShown(m)'
      /\ Respawns' <=> Respawns
      /\ Respawns => ~trade.maker
  BY <1>1 DEF TwinsAreShown, Cand, Le, Respawns, TakesAreRespawned
<1>3. SUFFICES ASSUME Live' \/ Awaited', msg' # NoMsg
               PROVE  /\ Said(msg.status)' /\ TwinsAreShown(msg)'
                      /\ Respawns => /\ msg'.ts <= Now'
                                     /\ \/ msg'.action \in {"TakeBuy", "TakeSell"}
                                        \/ \E k \in 1 .. published' : Twins(trade.dms[k], msg')
  BY <1>1, <1>2 DEF CardSaid
<1>4. \/ Live \/ Awaited
      \/ trade.maker /\ (Restart \/ Reload)
  <2>1. Awaited' => Awaited
    BY DEF Awaited, Next, ListenerNext, Handling, NewOrderLookup, DropTake, Forget, RevertStatus,
       SaveChild, ReadForUpsert, WriteUpsert, Snapshot, RecordDispute, TrackChat, StatusWrite, PublishRow,
       AdvanceCursor, Cleanup, TrackOrder, Receive, Publish, SaveOrder, ShowResult, HandleNotification,
       DeleteOrder, ForgetDeleted, Restart, Reload, vars, Goto
  <2> QED BY <1>3, <2>1, ComesAlive
<1>5. Respawns => Now <= Now' /\ Now \in Nat /\ Now' \in Nat /\ \A i \in 1 .. published : trade.dms[i].ts <= Now
  BY <1>1, TimesGrow
\* What is known of a card before the step is known of it afterwards.
<1>6. ASSUME NEW m, Said(m.status), TwinsAreShown(m), m.status = msg'.status, m.ts = msg'.ts, m.action = msg'.action,
             Respawns => /\ m.ts <= Now /\ m.ts \in Int
                         /\ \/ m.action \in {"TakeBuy", "TakeSell"}
                            \/ \E k \in 1 .. published : Twins(trade.dms[k], m)
      PROVE  /\ Said(msg.status)' /\ TwinsAreShown(msg)'
             /\ Respawns => /\ msg'.ts <= Now'
                            /\ \/ msg'.action \in {"TakeBuy", "TakeSell"}
                               \/ \E k \in 1 .. published' : Twins(trade.dms[k], msg')
  <2>1. TwinsAreShown(msg')
    BY <1>6 DEF TwinsAreShown, Twins
  <2>2. Respawns => msg'.ts <= Now'
    BY <1>5, <1>6
  <2>3. Said(msg.status)'
    <3>1. Said(m.status)'
      BY <1>1, <1>6
    <3> QED BY <1>6, <3>1 DEF Said
  <2>4. TwinsAreShown(msg)'
    BY <1>1, <2>1 DEF TwinsAreShown, Cand, Le
  <2>5. Respawns => \/ msg'.action \in {"TakeBuy", "TakeSell"}
                    \/ \E k \in 1 .. published' : Twins(trade.dms[k], msg')
    BY <1>1, <1>6 DEF Twins
  <2> QED BY <2>2, <2>3, <2>4, <2>5
<1>7. CASE /\ msg # NoMsg
           /\ msg'.status = msg.status /\ msg'.ts = msg.ts /\ msg'.action = msg.action
           /\ Live \/ Awaited
  <2>1. msg \in Msgs /\ msg.ts \in Int
    BY <1>1, <1>7 DEF TypeOK, Msgs
  <2> QED BY <1>6, <1>7, <2>1 DEF Settings, CardSaid
<1>8. CASE PublishRow /\ msg' = order_message /\ (Live \/ Awaited)
  <2>1. pc = "publish" /\ pc # "idle" /\ cur \in 1 .. published /\ cur \in 1 .. Len(trade.dms) /\ dm \in Dms
    BY <1>1, <1>8, HandledTyped, TradeTyped DEF PublishRow, TypeOK
  <2>2. Said(order_message.status) /\ TwinsAreShown(order_message)
    BY <1>1, <1>8, <2>1, DecidedSaid DEF Settings, order_message
  <2>3. order_message.ts = dm.ts /\ order_message.action = dm.action /\ dm.ts \in Int
    BY <2>1 DEF order_message, Dms
  <2>4. Respawns => /\ order_message.ts <= Now
                    /\ \E k \in 1 .. published : Twins(trade.dms[k], order_message)
    BY <1>5, <2>1, <2>3 DEF dm, Twins
  <2> QED BY <1>6, <1>8, <2>2, <2>3, <2>4
<1>9. CASE /\ ShowResult
           /\ \/ trade.reply = "created" /\ msg' = ResultRow("NewOrder", FALSE)
              \/ trade.reply = "addInvoice" /\ msg' = ResultRow("AddInvoice", TRUE)
  <2>1. "result" \in inbox
    BY <1>9 DEF ShowResult
  <2>2. /\ msg'.status = trade.saved /\ msg'.ts = Now /\ TwinsAreShown(msg')
        /\ Respawns => \E k \in 1 .. published : Twins(trade.dms[k], msg')
    BY <1>9, <2>1, ResultRowSaid DEF Settings
  <2>3. Said(msg'.status)
    BY <1>1, <2>2, SavedIsSaid
  <2> QED BY <1>5, <1>6, <2>2, <2>3
<1>10. CASE row # NoRow /\ msg' = db_order_to_history_message(row) /\ UNCHANGED row /\ (ForgetDeleted \/ Restart)
  <2>1. Restart /\ Live'
    <3>1. ~Awaited
      BY <1>1, <1>10 DEF NothingStoredYet
    <3>2. ~Awaited'
      BY <1>10, <3>1 DEF ForgetDeleted, Restart, Awaited
    <3>3. ForgetDeleted => ~Live'
      BY DEF ForgetDeleted, Live, Forgotten
    <3> QED BY <1>3, <1>10, <3>2, <3>3
  <2>2. ~StoredAnew /\ row \in Rows
    BY <1>1, <1>10, <2>1 DEF Live, StoredAnew, TypeOK
  <2>3. /\ msg'.status = row.status /\ TwinsAreShown(msg') /\ msg'.ts \in {row.seen, row.created}
        /\ ~trade.maker => msg'.action \in {"TakeBuy", "TakeSell"}
    BY <1>10, <2>2, HistoryRowSaid
  <2>4. Respawns => Live
    BY <1>1, <1>2, <1>4, <1>10 DEF NothingStoredYet
  <2>5. row.status # NoStatus
    BY <1>10 DEF ToldInv, RowTold, Told, NoStatus
  <2>6. Said(row.status)
    BY <2>4, <2>5, SaidAtLarge DEF Settings, RowSaid
  <2>7. Respawns => row.seen <= Now /\ row.created <= Now
    BY <2>4 DEF Settings, RowSaid
  <2>8. row.seen \in Int /\ row.created \in Int
    BY <2>2 DEF Rows, NoTs
  <2> QED BY <1>2, <1>6, <2>3, <2>6, <2>7, <2>8
<1>11. CASE trade.maker /\ Reload
  BY <1>1, <1>2, <1>11 DEF Reload, Respawns
<1>12. CASE trade.maker /\ Restart
  BY <1>3, <1>10, <1>12 DEF Restart
<1> QED BY <1>1, <1>3, <1>4, <1>7, <1>8, <1>9, <1>10, <1>11, <1>12, CardSteps

\* How a live order goes on being one, but for a restart of the maker's process.
LEMMA LivesOn ==
  ASSUME TakesAreRespawned, IInv, LifeInv, [Next]_vars, Live'
  PROVE  \/ Live /\ ~SaveOrder /\ ~SaveChild /\ ~DropTake /\ ~DeleteOrder /\ ~ForgetDeleted
         \/ Awaited /\ SaveOrder
         \/ trade.maker /\ ~Respawns /\ Restart /\ UNCHANGED row
<1> USE DEF world, ui, locals, history, listener, Goto
<1>1. /\ UNCHANGED trade /\ NothingStoredYet /\ ChildIsNew
      /\ Reload => Respawns
      /\ Respawns => ~trade.maker
      /\ SaveOrder => Awaited
  BY ShownSources DEF IInv, LifeInv, Control, Reload, Respawns, TakesAreRespawned, SaveOrder, Awaited, TypeOK
<1>2. CASE Live
  <2>1. ~SaveOrder /\ ~SaveChild
    BY <1>1, <1>2 DEF Live, NothingStoredYet, ChildIsNew, SaveChild
  <2>2. ~DropTake /\ ~DeleteOrder /\ ~ForgetDeleted
    BY DEF Live, DropTake, DeleteOrder, ForgetDeleted, Forgotten
  <2> QED BY <1>2, <2>1, <2>2
<1>3. CASE ~Live
  BY <1>1, <1>3, ComesAlive DEF Restart
<1> QED BY <1>2, <1>3

\* Where the locals of a handler come from.
LEMMA LocalSteps ==
  ASSUME TypeOK, [Next]_vars
  PROVE  /\ snap' \in {snap, NoRow} \/ (snap' = row /\ UNCHANGED row)
         /\ base' \in {base, NoRow} \/ (base' = row /\ UNCHANGED row)
  BY DEF Next, ListenerNext, Handling, NewOrderLookup, DropTake, Forget, RevertStatus,
     SaveChild, ReadForUpsert, WriteUpsert, Snapshot, RecordDispute, TrackChat, StatusWrite, PublishRow,
     AdvanceCursor, Cleanup, TrackOrder, Receive, Publish, SaveOrder, ShowResult, HandleNotification,
     DeleteOrder, ForgetDeleted, Restart, Reload, StartListener, StartHandling, Finish, vars,
     world, ui, locals, history, listener, Goto

\* How the status and the cursor of a live row change.
LEMMA LiveStatusSteps ==
  ASSUME OrdersNameTheirStatus, IInv, UpsertsOnly, LifeInv, CaseRows, CursorKept,
         [Next]_vars, Live, Live'
  PROVE  /\ row # NoRow /\ row' # NoRow
         /\ row'.created = row.created \/ (base # NoRow /\ row'.created = base.created)
         /\ \/ row'.seen = row.seen
            \/ AdvanceCursor /\ row'.status = row.status /\ row'.seen = dm.ts
         /\ \/ row'.status = row.status
            \/ /\ WriteUpsert("upsertWrite", "dispute") /\ Upserts(dm)
               /\ row'.status = dm.status /\ status_candidate = dm.status
            \/ StatusWrite /\ StatusToWrite # NoStatus /\ row'.status = StatusToWrite
            \/ pc \in {"revertWrite", "revertStatus"} /\ trade.maker /\ row'.status = "Pending"
<1> USE DEF world, ui, locals, history, listener, Goto
<1>1. /\ TypeOK /\ row # NoRow /\ row' # NoRow /\ ~SaveOrder /\ ~SaveChild
      /\ ~StoredAnew
      /\ pc \in ListingPcs => is_pending_listing(dm)
  BY DEF IInv, LifeInv, Control, ListingsOnly, Live, NothingStoredYet, ChildIsNew, SaveOrder, SaveChild, Awaited
<1>2. pc \in {"revertWrite", "revertStatus"} => trade.maker /\ dm.status = "Pending"
  BY <1>1 DEF CaseRows, StoredAnew, ListingPcs, is_pending_listing
<1>3. WriteUpsert("upsertWrite", "dispute") => Upserts(dm) /\ status_candidate = dm.status
  BY <1>1, HandledTold DEF WriteUpsert, UpsertsOnly
<1>4. WriteUpsert("revertWrite", "revertStatus") => pc = "revertWrite"
  BY DEF WriteUpsert
<1>5. RevertStatus => pc = "revertStatus"
  BY DEF RevertStatus
<1>6. base # NoRow => base.seen = row.seen
  BY <1>1 DEF CursorKept
<1> HIDE DEF world, ui, locals, history, listener, Goto
<1> QED BY <1>1, <1>2, <1>3, <1>4, <1>5, <1>6, StatusSteps

LEMMA RowSaidStep ==
  ASSUME OrdersNameTheirStatus, RepliesAgree, TwinsAgree, TakesAreRespawned, RespawnedMoveForward,
         IInv, UpsertsOnly, ToldInv, LifeInv, Settings, [Next]_vars
  PROVE  RowSaid'
<1> USE DEF world, ui, locals, history, listener
<1>1. /\ TypeOK /\ UNCHANGED trade /\ RowsHaveOwners /\ NothingStoredYet
      /\ \A s : Said(s) => Said(s)'
      /\ Respawns' <=> Respawns
      /\ Respawns => ~trade.maker
      /\ trade.saved # NoStatus /\ Said(trade.saved)
  BY ShownSources, SaidGrows, SavedIsSaid DEF IInv, LifeInv, Control, Respawns, TakesAreRespawned, TypeOK
<1>2. SUFFICES ASSUME Live'
               PROVE  /\ Said(row'.status)
                      /\ snap' # NoRow => Said(snap'.status)
                      /\ Respawns => /\ row'.seen <= Now' /\ row'.created <= Now'
                                     /\ base' # NoRow => base'.created <= Now'
  <2> SUFFICES ASSUME Live' PROVE RowSaid'
    BY DEF RowSaid
  <2>1. /\ Said(row'.status)
        /\ snap' # NoRow => Said(snap'.status)
        /\ Respawns => /\ row'.seen <= Now' /\ row'.created <= Now'
                       /\ base' # NoRow => base'.created <= Now'
    BY <1>2
  <2>2. ASSUME NEW s, Said(s) PROVE Said(s)'
    BY <1>1, <2>2
  <2>3. Said(row.status)' /\ (snap' # NoRow => Said(snap.status)')
    <3>1. \A s : s = row'.status => Said(s)'
      BY <1>1, <2>1
    <3>2. \A s : snap' # NoRow /\ s = snap'.status => Said(s)'
      BY <1>1, <2>1
    <3> QED BY <3>1, <3>2 DEF Said
  <2> QED BY <1>1, <2>1, <2>3 DEF RowSaid
<1>3. Respawns => /\ Now <= Now' /\ Now \in Nat /\ Now' \in Nat
                  /\ \A i \in 1 .. published : trade.dms[i].ts <= Now
  BY <1>1, TimesGrow
<1>4. /\ row # NoRow => row.seen \in Int /\ row.created \in Int
      /\ base # NoRow => base.seen \in Int /\ base.created \in Int
  BY <1>1 DEF TypeOK, Rows, NoTs
<1>5. CASE Awaited /\ SaveOrder
  <2>1. /\ row' = SavedRow(trade.saved, trade.maker) /\ UNCHANGED <<snap, base, published>>
        /\ snap = NoRow /\ base = NoRow
    BY <1>1, <1>5 DEF SaveOrder, Settings, EarlySays, RowsHaveOwners
  <2>2. row'.status = trade.saved /\ row'.seen = -1 /\ row'.created = Now
    BY <2>1 DEF SavedRow, NoTs
  <2> QED BY <1>1, <1>3, <2>1, <2>2
<1>6. CASE trade.maker /\ ~Respawns /\ Restart /\ UNCHANGED row
  <2>1. row # NoRow /\ snap' = NoRow
    BY <1>2, <1>6 DEF Live, Restart, StartListener, StartHandling, Finish
  <2>2. row'.status # NoStatus
    BY <1>6, <2>1 DEF ToldInv, RowTold, Told, NoStatus
  <2> QED BY <1>6, <2>1, <2>2, SaidAtLarge
<1>7. CASE Live
  <2>1. /\ Said(row.status) /\ (snap # NoRow => Said(snap.status)) /\ row # NoRow /\ row' # NoRow
        /\ Respawns => row.seen <= Now /\ row.created <= Now /\ (base # NoRow => base.created <= Now)
    BY <1>2, <1>7 DEF Settings, RowSaid, Live
  <2>2. Said(row'.status)
    <3>1. CASE WriteUpsert("upsertWrite", "dispute") /\ row'.status = dm.status /\ status_candidate = dm.status
               /\ Upserts(dm)
      <4>1. pc \in LaterPcs /\ pc # "idle"
        BY <3>1 DEF WriteUpsert, LaterPcs
      <4>2. dm.status # NoStatus
        BY <1>1, <3>1, <4>1, HandledTold DEF Told, NoStatus
      <4> QED BY <1>1, <1>7, <3>1, <4>1, <4>2, HandledSaid DEF Settings
    <3>2. CASE StatusWrite /\ StatusToWrite # NoStatus /\ row'.status = StatusToWrite
      <4>1. pc \in {"statusWrite", "publish"}
        BY <3>2 DEF StatusWrite
      <4> QED BY <1>1, <1>7, <3>2, <4>1, DecidedSaid DEF Settings
    <3>3. CASE trade.maker /\ row'.status = "Pending"
      BY <1>1, <3>3, SaidAtLarge DEF NoStatus
    <3> QED BY <1>2, <1>7, <2>1, <3>1, <3>2, <3>3, LiveStatusSteps DEF Settings
  <2>3. snap' # NoRow => Said(snap'.status)
    BY <1>1, <2>1, LocalSteps
  <2>4. ASSUME Respawns
        PROVE  /\ row'.seen <= Now' /\ row'.created <= Now'
               /\ base' # NoRow => base'.created <= Now'
    <3>1. row'.seen <= Now
      <4>1. CASE AdvanceCursor /\ row'.seen = dm.ts
        <5>1. cur \in 1 .. published
          BY <1>1, <4>1 DEF AdvanceCursor, TypeOK
        <5> QED BY <1>3, <2>4, <4>1, <5>1 DEF dm
      <4> QED BY <1>2, <1>7, <2>1, <2>4, <4>1, LiveStatusSteps DEF Settings
    <3>2. row'.created <= Now
      BY <1>2, <1>7, <2>1, <2>4, LiveStatusSteps DEF Settings
    <3>3. base' # NoRow => base'.created <= Now
      BY <1>1, <2>1, <2>4, LocalSteps
    <3>4. row' \in Rows /\ (base' # NoRow => base' \in Rows)
      BY <1>1, <2>1, StepTyped DEF TypeOK
    <3>5. row'.seen \in Int /\ row'.created \in Int /\ (base' # NoRow => base'.created \in Int)
      BY <3>4 DEF Rows, NoTs
    <3> QED BY <1>3, <2>4, <3>1, <3>2, <3>3, <3>5
  <2> QED BY <2>2, <2>3, <2>4
<1> QED BY <1>2, <1>5, <1>6, <1>7, LivesOn

LEMMA PriorIsShownStep ==
  ASSUME TakesAreRespawned, IInv, LifeInv, Settings, [Next]_vars
  PROVE  PriorIsShown'
<1> USE DEF world, ui, locals, history, listener, Goto
<1>1. TypeOK /\ NothingStoredYet /\ AwaitedIsNew
  BY DEF IInv, LifeInv, Control
<1>2. SUFFICES ASSUME Live' \/ Awaited', pc' \in {"statusWrite", "publish"}, prior' # NoMsg
               PROVE  msg' # NoMsg /\ Twins(msg', prior') /\ msg'.status = prior'.status
  BY DEF PriorIsShown
<1>3. ~Restart /\ ~Reload
  BY <1>1, <1>2, LaterSteps DEF LaterPcs
<1>4. Live \/ Awaited
  <2>1. Awaited' => Awaited
    BY DEF Awaited, Next, ListenerNext, Handling, NewOrderLookup, DropTake, Forget, RevertStatus,
       SaveChild, ReadForUpsert, WriteUpsert, Snapshot, RecordDispute, TrackChat, StatusWrite, PublishRow,
       AdvanceCursor, Cleanup, TrackOrder, Receive, Publish, SaveOrder, ShowResult, HandleNotification,
       DeleteOrder, ForgetDeleted, Restart, Reload, vars, Goto
  <2> QED BY <1>2, <1>3, <2>1, LivesOn
<1>5. ~ForgetDeleted
  BY <1>1, <1>4 DEF Live, Forgotten, ForgetDeleted, AwaitedIsNew
<1>6. CASE TrackChat
  BY <1>2, <1>6 DEF TrackChat, Twins
<1>7. CASE ~TrackChat
  <2>1. /\ pc \in {"statusWrite", "publish"} /\ prior' = prior /\ ~PublishRow /\ ~Forget
    <3>1. CASE Handling
      BY <1>2, <1>7, <3>1 DEF Handling, NewOrderLookup, DropTake, Forget, RevertStatus,
         SaveChild, ReadForUpsert, WriteUpsert, Snapshot, RecordDispute, StatusWrite, PublishRow,
         AdvanceCursor, Cleanup, Finish
    <3>2. CASE ~Handling
      BY <1>2, <1>3, <3>2 DEF Next, ListenerNext, TrackOrder, Receive, StartHandling, Publish, SaveOrder,
         ShowResult, HandleNotification, DeleteOrder, ForgetDeleted, vars, Handling
    <3> QED BY <3>1, <3>2
  <2>2. msg # NoMsg /\ Twins(msg, prior) /\ msg.status = prior.status
    BY <1>2, <1>4, <2>1 DEF Settings, PriorIsShown
  <2>3. msg' # NoMsg /\ msg'.status = msg.status /\ msg'.ts = msg.ts /\ msg'.action = msg.action
    <3>1. msg' # NoMsg
      <4>1. CASE Handling
        BY <2>1, <2>2, <4>1 DEF Handling, NewOrderLookup, DropTake, Forget, RevertStatus,
           SaveChild, ReadForUpsert, WriteUpsert, Snapshot, RecordDispute, TrackChat, StatusWrite, PublishRow,
           AdvanceCursor, Cleanup
      <4>2. CASE HandleNotification \/ ShowResult
        <5>1. msg' = msg \/ msg' = [msg EXCEPT !.popup = TRUE]
          BY <2>2, <4>2 DEF HandleNotification, ShowResult
        <5>2. msg \in Msgs
          BY <1>1, <2>2 DEF TypeOK
        <5>3. [msg EXCEPT !.popup = TRUE] \in Msgs
          BY <5>2 DEF Msgs
        <5> QED BY <2>2, <5>1, <5>3, AbsentAssumption
      <4>3. CASE ~Handling /\ ~HandleNotification /\ ~ShowResult
        BY <1>3, <1>5, <2>2, <4>3 DEF Next, ListenerNext, TrackOrder, Receive, Publish, SaveOrder,
           DeleteOrder, vars
      <4> QED BY <4>1, <4>2, <4>3
    <3> HIDE DEF world, ui, locals, history, listener, Goto
    <3> QED BY <1>1, <1>3, <1>5, <2>1, <2>2, <3>1, CardSteps
  <2> QED BY <2>1, <2>2, <2>3 DEF Twins
<1> QED BY <1>6, <1>7

LEMMA LostAreLostStep ==
  ASSUME TakesAreRespawned, IInv, LifeInv, Settings, [Next]_vars
  PROVE  LostAreLost'
<1> USE DEF world, ui, locals, history, listener, Goto
<1>1. TypeOK /\ UNCHANGED trade
  BY ShownSources DEF IInv
<1>2. SUFFICES ASSUME Live', pc' \in LaterPcs \cup {"snapshot"}, is_pending_listing(dm)'
               PROVE  IF pc' = "snapshot" THEN row'.status \notin PreActiveStatuses
                      ELSE snap' # NoRow /\ snap'.status \notin PreActiveStatuses
  BY DEF LostAreLost
<1>3. CASE pc' = "snapshot"
  <2>1. \/ pc = "snapshot" /\ UNCHANGED <<cur, snap>> /\ ~Handling
        \/ NewOrderLookup
    <3>1. CASE Handling
      BY <1>3, <3>1 DEF Handling, NewOrderLookup, DropTake, Forget, RevertStatus,
         SaveChild, ReadForUpsert, WriteUpsert, Snapshot, RecordDispute, TrackChat, StatusWrite, PublishRow,
         AdvanceCursor, Cleanup, Finish
    <3>2. CASE Restart \/ Reload \/ \E i \in fresh : Receive(i)
      BY <1>1, <1>2, <1>3, <3>2 DEF Restart, Reload, Receive, StartListener, StartHandling, Finish, dm
    <3>3. CASE ~Handling /\ ~Restart /\ ~Reload /\ ~\E i \in fresh : Receive(i)
      BY <1>3, <3>3 DEF Next, ListenerNext, TrackOrder, Publish, SaveOrder,
         ShowResult, HandleNotification, DeleteOrder, ForgetDeleted, vars
    <3> QED BY <3>1, <3>2, <3>3
  <2>2. CASE pc = "snapshot" /\ UNCHANGED <<cur, snap>> /\ ~Handling
    <3>1. is_pending_listing(dm)
      BY <1>1, <1>2, <2>2 DEF dm
    <3>2. ~Awaited
      BY <2>2, <3>1, NoListingWhileAwaited
    <3>3. ~Restart
      BY <1>1, <1>2, <1>3 DEF Restart, StartListener, StartHandling, Finish, dm
    <3>4. Live /\ ~SaveOrder
      BY <1>2, <3>2, <3>3, LivesOn
    <3>5. row' = row \/ row' = NoRow
      BY <2>2, <3>4 DEF Next, ListenerNext, TrackOrder, Receive, Publish, SaveOrder,
         ShowResult, HandleNotification, DeleteOrder, ForgetDeleted, Restart, Reload, vars
    <3> QED BY <1>2, <1>3, <2>2, <3>1, <3>4, <3>5 DEF Settings, LostAreLost, Live
  <2>3. CASE NewOrderLookup
    <3>1. UNCHANGED row /\ ~is_pre_active_taker_take(row) /\ ~is_pre_active_maker_listing(row)
      BY <1>3, <2>3 DEF NewOrderLookup
    <3>2. row' # NoRow
      BY <1>2 DEF Live
    <3> QED BY <1>3, <3>1, <3>2 DEF is_pre_active_taker_take, is_pre_active_maker_listing
  <2> QED BY <2>1, <2>2, <2>3
<1>4. CASE pc' \in LaterPcs
  <2>1. /\ ~Restart /\ ~Reload
        /\ \/ pc = "snapshot" /\ Snapshot /\ UNCHANGED <<row, cur>> /\ snap' = row
           \/ pc \in LaterPcs /\ UNCHANGED <<cur, snap>>
    BY <1>1, <1>4, LaterSteps DEF Snapshot
  <2>2. is_pending_listing(dm) /\ pc # "idle"
    BY <1>1, <1>2, <2>1 DEF dm, LaterPcs
  <2>3. ~Awaited
    BY <2>2, NoListingWhileAwaited
  <2>4. Live
    BY <1>2, <2>1, <2>3, LivesOn
  <2>5. pc' # "snapshot" /\ (pc \in LaterPcs => pc # "snapshot")
    BY <1>4 DEF LaterPcs
  <2> QED BY <2>1, <2>2, <2>4, <2>5 DEF Settings, LostAreLost, Live
<1> QED BY <1>2, <1>3, <1>4

\* While a message is handled the card is compared with the status the row had when
\* the message was looked at, and the message itself is still to come.
Judged == IF pc \in LaterPcs \ {"publish"} THEN Known ELSE row.status
Card   == IF pc = "statusWrite" THEN prior ELSE msg
ToCome == IF pc \in {"idle", "publish", "seen", "cleanup"} THEN fresh ELSE fresh \cup {cur}

RowFollows ==
  Live =>
    /\ pc \in StartPcs \cup LaterPcs \cup {"seen", "cleanup"} =>
         (pc = "publish" /\ should_replace_row) \/ Agree(Judged, Card, ToCome)
    /\ pc \in LaterPcs \ {"publish"} => RowMoved
    /\ pc = "publish" => row.status = effective_order_status

\* The reply is still waiting to be shown: every message handled so far is one of the first.
LEMMA ResultWaits ==
  ASSUME IInv, LifeInv, Settings, Live, "result" \in inbox
  PROVE  /\ pc # "idle" => cur <= trade.early /\ ~is_pending_listing(dm)
         /\ pc \notin ListingPcs /\ pc # "forgetTake"
<1>1. /\ TypeOK /\ published <= trade.early /\ trade \in Trades /\ published \in Nat /\ published <= Len(trade.dms)
      /\ trade.early \in Nat /\ cur \in 0 .. published /\ Len(trade.dms) \in Nat
  BY TradeTyped DEF IInv, TypeOK, Settings, ResultInTime
<1>2. pc # "idle" => cur <= trade.early /\ cur \in 1 .. Len(trade.dms)
  BY <1>1 DEF TypeOK
<1>3. pc # "idle" => ~is_pending_listing(dm)
  BY <1>1, <1>2, ReplyComesFirst DEF dm
<1>4. pc \notin ListingPcs
  BY <1>3 DEF IInv, Control, ListingsOnly, ListingPcs
<1>5. pc # "forgetTake"
  BY DEF Settings, CaseRows, Live
<1> QED BY <1>2, <1>3, <1>4, <1>5

LEMMA PlaceholderFitsStep ==
  ASSUME OrdersNameTheirStatus, RepliesAgree, TakesAreRespawned,
         IInv, UpsertsOnly, ToldInv, LifeInv, Settings, RowFollows, [Next]_vars
  PROVE  PlaceholderFits'
<1> USE DEF world, ui, locals, history, listener, Goto
<1>1. TypeOK /\ UNCHANGED trade /\ trade \in Trades /\ trade.maker \in BOOLEAN
  BY ShownSources, TradeTyped DEF IInv, TypeOK
<1>2. SUFFICES ASSUME Live', "result" \in inbox', msg' = NoMsg
               PROVE  /\ pc' # "dropTake"
                      /\ pc' \in StartPcs \cup {"seen", "cleanup"} => row'.status = trade.saved
                      /\ pc' \in LaterPcs => (IF snap' = NoRow THEN trade.saved ELSE snap'.status) = trade.saved
                      /\ pc' \in {"statusWrite", "publish"} => prior' = NoMsg
  BY <1>1 DEF PlaceholderFits, Known
<1>3. ~Restart
  BY <1>2 DEF Restart
<1>4. CASE Awaited /\ SaveOrder
  <2>1. /\ UNCHANGED <<pc, snap, prior, msg>> /\ row' = SavedRow(trade.saved, trade.maker)
        /\ snap = NoRow /\ pc # "dropTake"
    BY <1>4 DEF SaveOrder, Settings, EarlySays, CaseRows
  <2>2. pc \in {"statusWrite", "publish"} => prior = NoMsg
    BY <1>2, <1>4, <2>1 DEF Settings, PriorIsShown
  <2> QED BY <2>1, <2>2 DEF SavedRow
<1>5. CASE Live /\ ~SaveOrder /\ ~SaveChild /\ ~DropTake /\ ~DeleteOrder /\ ~ForgetDeleted
  <2>1. "result" \in inbox
    BY <1>2, <1>3, <1>5 DEF Next, ListenerNext, Handling, NewOrderLookup, Forget, RevertStatus,
       ReadForUpsert, WriteUpsert, Snapshot, RecordDispute, TrackChat, StatusWrite, PublishRow,
       AdvanceCursor, Cleanup, TrackOrder, Receive, Publish, ShowResult, HandleNotification,
       Reload, vars
  <2>2. /\ pc # "idle" => cur <= trade.early /\ ~is_pending_listing(dm)
        /\ pc \notin ListingPcs /\ pc # "forgetTake" /\ row # NoRow
    BY <1>5, <2>1, ResultWaits DEF Live
  <2>3. msg = NoMsg
    <3>1. SUFFICES ASSUME msg # NoMsg PROVE msg' # NoMsg
      BY <1>2
    <3>2. msg \in Msgs /\ [msg EXCEPT !.popup = TRUE] \in Msgs
      BY <1>1, <3>1 DEF TypeOK, Msgs
    <3>3. CASE HandleNotification \/ ShowResult
      <4>1. msg' = msg \/ msg' = [msg EXCEPT !.popup = TRUE]
        BY <3>1, <3>3 DEF HandleNotification, ShowResult
      <4> QED BY <3>1, <3>2, <4>1, AbsentAssumption
    <3>4. CASE PublishRow
      <4>1. order_message \in Msgs
        BY <1>1, <3>4, LocalsTyped DEF PublishRow
      <4> QED BY <3>1, <3>4, <4>1, AbsentAssumption DEF PublishRow
    <3>5. CASE Handling /\ ~PublishRow
      BY <2>2, <3>1, <3>5 DEF Handling, NewOrderLookup, Forget, RevertStatus, DropTake, SaveChild,
         ReadForUpsert, WriteUpsert, Snapshot, RecordDispute, TrackChat, StatusWrite, ListingPcs,
         AdvanceCursor, Cleanup
    <3>6. CASE TrackOrder \/ Publish \/ Reload \/ UNCHANGED vars \/ \E i \in fresh : Receive(i)
      BY <3>1, <3>6 DEF TrackOrder, Publish, Reload, vars, Receive
    <3> QED BY <1>3, <1>5, <3>3, <3>4, <3>5, <3>6 DEF Next, ListenerNext
  <2>4. /\ pc # "dropTake"
        /\ pc \in StartPcs \cup {"seen", "cleanup"} => row.status = trade.saved
        /\ pc \in LaterPcs => Known = trade.saved
        /\ pc \in {"statusWrite", "publish"} => prior = NoMsg
    BY <1>5, <2>1, <2>3 DEF Settings, PlaceholderFits
  <2>5. pc # "idle" /\ ~trade.maker => status_candidate = trade.saved
    <3>1. pc # "idle" => cur \in 1 .. Len(trade.dms)
      BY <1>1, TradeTyped DEF TypeOK
    <3> QED BY <1>1, <2>2, <3>1 DEF RepliesAgree, status_candidate, dm
  <2>6. pc \in LaterPcs \ {"publish"} => row.status = trade.saved \/ (Upserts(dm) /\ row.status = status_candidate)
    <3>1. pc \in LaterPcs => pc # "idle"
      BY DEF LaterPcs
    <3> QED BY <1>1, <1>5, <2>4, <3>1, HandledTold DEF RowFollows, RowMoved
  <2>7. pc = "publish" => row.status \in {trade.saved, status_candidate}
    <3>1. SUFFICES ASSUME pc = "publish" PROVE row.status \in {trade.saved, status_candidate}
      OBVIOUS
    <3>2. row.status = effective_order_status /\ prior = NoMsg /\ Known = trade.saved
      BY <1>5, <2>4, <3>1 DEF RowFollows, LaterPcs
    <3>3. snap = NoRow \/ snap.status = trade.saved
      BY <3>2 DEF Known
    <3>4. snap = NoRow => effective_order_status = trade.saved
      BY <1>5, <3>1, EarlyDecided DEF Settings, LaterPcs
    <3>5. snap # NoRow => baseline_status = snap.status
      BY <1>1, <3>1, KnownDecides DEF IInv, Control
    <3> QED BY <3>2, <3>3, <3>4, <3>5 DEF effective_order_status
  <2>8. CASE Reload
    <3>1. ~trade.maker /\ UNCHANGED row /\ pc' \in {"idle", "lookup", "snapshot"}
      BY <2>8 DEF Reload, StartListener, StartHandling, Finish, TakesAreRespawned
    <3>2. pc \in StartPcs \cup LaterPcs \cup {"seen", "cleanup"}
      BY <1>1, <2>2, <2>4 DEF TypeOK, Pcs, StartPcs, LaterPcs, ListingPcs
    <3>3. row.status = trade.saved
      <4>1. pc \in LaterPcs => pc # "idle"
        BY DEF LaterPcs
      <4> QED BY <2>4, <2>5, <2>6, <2>7, <3>1, <3>2, <4>1
    <3> QED BY <3>1, <3>3 DEF LaterPcs
  <2>9. CASE Snapshot
    <3>1. /\ pc = "snapshot" /\ UNCHANGED <<row, prior>> /\ snap' = row
          /\ pc' = "dropTake" => dm.action = "Canceled" /\ dm.payload = "none" /\ is_pre_active_taker_take(row)
          /\ pc' \in {"dropTake", "upsertRead", "dispute"}
      BY <2>9 DEF Snapshot
    <3>2. row.status = trade.saved
      BY <2>4, <3>1 DEF StartPcs
    <3>3. pc' # "dropTake"
      <4>1. SUFFICES ASSUME pc' = "dropTake" PROVE FALSE
        OBVIOUS
      <4>2. ~trade.maker /\ row.status \in PreActiveStatuses
        BY <3>1, <4>1 DEF is_pre_active_taker_take, LifeInv, RowsHaveOwners
      <4>3. status_candidate = "Canceled"
        BY <3>1, <4>1 DEF status_candidate, resolved_status_candidate, small_order_ref_from_payload,
           inferred_status_from_trade_action
      <4> QED BY <2>5, <3>1, <3>2, <4>2, <4>3 DEF PreActiveStatuses
    <3> QED BY <3>1, <3>2, <3>3 DEF StartPcs
  <2>10. CASE TrackChat
    <3>1. /\ pc = "trackChat" /\ UNCHANGED <<row, snap>> /\ prior' = NoMsg
          /\ pc' \in {"seen", "statusWrite"}
          /\ pc' = "seen" => IsInvoice(dm) /\ ~is_actionable_notification(dm)
      BY <2>3, <2>10 DEF TrackChat
    <3>2. pc \in LaterPcs \ {"publish"} /\ pc # "idle"
      BY <3>1 DEF LaterPcs
    <3>3. pc' = "seen" => row.status = trade.saved
      <4>1. pc' = "seen" => ~Upserts(dm)
        <5>1. cur \in 1 .. Len(trade.dms)
          BY <1>1, <3>2, TradeTyped DEF TypeOK
        <5>2. dm.payload # "emptyInvoice"
          BY <1>1, <5>1 DEF OrdersNameTheirStatus, dm
        <5> QED BY <3>1, <5>2 DEF Upserts, IsInvoice, is_actionable_notification
      <4> QED BY <2>6, <3>2, <4>1
    <3> QED BY <2>4, <3>1, <3>2, <3>3 DEF StartPcs, LaterPcs, Known
  <2>11. CASE PublishRow
    <3>1. pc = "publish" /\ prior = NoMsg /\ pc # "idle"
      BY <2>4, <2>11 DEF PublishRow
    <3>2. msg' = order_message
      BY <2>11, <3>1 DEF PublishRow, should_replace_row
    <3> QED BY <1>1, <1>2, <3>1, <3>2, LocalsTyped, AbsentAssumption
  <2>12. CASE AdvanceCursor \/ Cleanup
    <3>1. row'.status = row.status /\ pc \in {"seen", "cleanup"} /\ pc' \in {"cleanup", "idle"}
      <4>1. row \in Rows
        BY <1>1, <2>2 DEF TypeOK
      <4> QED BY <2>12, <4>1 DEF AdvanceCursor, Cleanup, Finish, Rows
    <3> QED BY <2>4, <3>1 DEF LaterPcs
  <2>13. CASE ReadForUpsert("upsertRead", "upsertWrite") \/ WriteUpsert("upsertWrite", "dispute") \/ RecordDispute
    <3>1. pc \in {"upsertRead", "upsertWrite", "dispute"} /\ pc' \in {"upsertWrite", "dispute", "trackChat"}
          /\ UNCHANGED snap
      BY <2>13 DEF ReadForUpsert, WriteUpsert, RecordDispute
    <3> QED BY <2>4, <3>1 DEF LaterPcs, StartPcs, Known
  <2>14. CASE StatusWrite
    BY <2>4, <2>14 DEF StatusWrite, LaterPcs, StartPcs, Known
  <2>15. CASE TrackOrder \/ Publish \/ HandleNotification \/ UNCHANGED vars
    <3>1. UNCHANGED <<pc, row, snap, prior>>
      BY <2>15 DEF TrackOrder, Publish, HandleNotification, vars
    <3> QED BY <2>4, <3>1 DEF Known
  <2>16. CASE \E i \in fresh : Receive(i)
    <3>1. pc = "idle" /\ UNCHANGED row /\ pc' \in {"idle", "lookup", "snapshot"}
      BY <2>16 DEF Receive, StartHandling
    <3> QED BY <2>4, <3>1 DEF LaterPcs, StartPcs
  <2>17. ~ShowResult
    BY <1>2 DEF ShowResult
  <2>18. /\ ~NewOrderLookup /\ ~Forget /\ ~RevertStatus
         /\ ~ReadForUpsert("revertRead", "revertWrite") /\ ~WriteUpsert("revertWrite", "revertStatus")
    BY <2>2 DEF NewOrderLookup, Forget, RevertStatus, ReadForUpsert, WriteUpsert, ListingPcs
  <2> QED BY <1>3, <1>5, <2>8, <2>9, <2>10, <2>11, <2>12, <2>13, <2>14, <2>15, <2>16, <2>17, <2>18
          DEF Next, ListenerNext, Handling
<1> QED BY <1>2, <1>3, <1>4, <1>5, LivesOn

\* Until the first message of a respawned conversation has been handled the row has no
\* cursor, and the listener that takes over is given the newest message only: neither
\* the row nor the card is ahead of what that message says.
NoCursor ==
  Live /\ Respawns /\ row.seen = NoTs =>
    /\ \A i \in NextUp : NamesStatus(trade.dms[i]) =>
         Le(row.status, Cand(i)) /\ (pc \in LaterPcs => Le(Known, Cand(i)))
    /\ msg # NoMsg =>
         /\ Le(msg.status, row.status)
         /\ \A k \in trade.early + 1 .. published : Twins(trade.dms[k], msg) =>
              /\ k = published => row.status = msg.status
              /\ \A i \in NextUp : i >= k
    /\ pc = "cleanup" => row.status = trade.saved /\ cur <= trade.early

LEMMA LeOrders ==
  /\ \A s : Le(s, s)
  /\ \A s1, s2, s3 : s2 \in Statuses /\ Le(s1, s2) /\ Le(s2, s3) => Le(s1, s3)
  /\ \A s : s # NoStatus => ~Le(s, NoStatus)
<1>1. ASSUME NEW s PROVE Le(s, s)
  BY DEF Le, should_apply_status_transition
<1>2. ASSUME NEW s1, NEW s2 \in Statuses, NEW s3, Le(s1, s2), Le(s2, s3) PROVE Le(s1, s3)
  BY <1>2, TransitionTransitive DEF Le
<1>3. ASSUME NEW s, s # NoStatus PROVE ~Le(s, NoStatus)
  BY <1>3 DEF Le, should_apply_status_transition, is_terminal_trade_status, TerminalTradeStatuses, RankAllows,
     status_phase_rank_for_actor, NoStatus, NoRank
<1> QED BY <1>1, <1>2, <1>3

\* The messages of a respawned conversation name one status after the other.
LEMMA NamesInOrder ==
  ASSUME RespawnedMoveForward, TypeOK, Respawns, NEW i \in 1 .. Len(trade.dms), NamesStatus(trade.dms[i])
  PROVE  /\ Cand(i) \in Statuses
         /\ Le(trade.saved, Cand(i)) /\ (Le(Cand(i), trade.saved) => Cand(i) = trade.saved)
         /\ \A j \in 1 .. Len(trade.dms) : NamesStatus(trade.dms[j]) /\ i < j =>
              Le(Cand(i), Cand(j)) /\ (Le(Cand(j), Cand(i)) => Cand(i) = Cand(j))
         /\ \A s : Said(s) /\ published <= i => Le(s, Cand(i))
<1>1. /\ trade \in Trades /\ trade \in Respawned /\ trade.dms \in Seq(Dms)
      /\ published \in Nat /\ Len(trade.dms) \in Nat /\ published <= Len(trade.dms)
  BY TradeTyped DEF TypeOK, Respawns
<1>2. Cand(i) \in Statuses
  <2>1. trade.dms[i] \in Dms
    BY <1>1
  <2> QED BY <2>1, CandidateTyped DEF Cand, NamesStatus, StatusOpt
<1>3. /\ StrictlyBefore(trade.saved, Cand(i), trade.kind)
      /\ \A j \in 1 .. Len(trade.dms) : NamesStatus(trade.dms[j]) =>
           /\ i < j => StrictlyBefore(Cand(i), Cand(j), trade.kind)
           /\ j < i => StrictlyBefore(Cand(j), Cand(i), trade.kind)
  BY <1>1 DEF RespawnedMoveForward, Cand
<1>4. /\ Le(trade.saved, Cand(i)) /\ (Le(Cand(i), trade.saved) => Cand(i) = trade.saved)
      /\ \A j \in 1 .. Len(trade.dms) : NamesStatus(trade.dms[j]) =>
           /\ i < j => Le(Cand(i), Cand(j)) /\ (Le(Cand(j), Cand(i)) => Cand(i) = Cand(j))
           /\ j < i => Le(Cand(j), Cand(i))
  BY <1>3 DEF StrictlyBefore, Le
<1>5. ASSUME NEW s, Said(s), published <= i PROVE Le(s, Cand(i))
  <2>1. s = trade.saved \/ \E j \in 1 .. published : NamesStatus(trade.dms[j]) /\ Cand(j) = s
    BY <1>5 DEF Said
  <2>2. CASE \E j \in 1 .. published : NamesStatus(trade.dms[j]) /\ Cand(j) = s
    <3>1. PICK j \in 1 .. published : NamesStatus(trade.dms[j]) /\ Cand(j) = s
      BY <2>2
    <3>2. j \in 1 .. Len(trade.dms) /\ (j < i \/ j = i)
      BY <1>1, <1>5
    <3> QED BY <1>4, <3>1, <3>2, LeOrders
  <2> QED BY <1>4, <2>1, <2>2
<1> QED BY <1>2, <1>4, <1>5

\* A message that does not replace the card is older, and has nothing to add to it.
LEMMA NotReplaced ==
  ASSUME OrdersNameTheirStatus, TypeOK, KindsAgree, ToldInv, CardSaid, PriorIsShown,
         Live, pc \in {"statusWrite", "publish"}, snap # NoRow, ~should_replace_row,
         dm.action # "NewOrder", status_candidate # NoStatus, Le(msg.status, status_candidate)
  PROVE  status_candidate = msg.status
<1>1. prior # NoMsg /\ msg # NoMsg /\ Twins(msg, prior) /\ msg.status = prior.status
  BY DEF PriorIsShown, should_replace_row
<1>2. cur \in 1 .. Len(trade.dms) /\ pc # "idle"
  BY TradeTyped DEF TypeOK
<1>3. effective_order_kind = trade.kind
  BY <1>2, KnownDecides
<1>4. dm.ts \in Int /\ prior.ts \in Int
  <2>1. dm \in Dms /\ prior \in Msgs
    BY <1>1, <1>2, HandledTyped DEF TypeOK
  <2> QED BY <2>1 DEF Dms, Msgs
<1>5. CASE dm.ts < prior.ts
  BY <1>1, <1>3, <1>5 DEF should_replace_row, should_strictly_advance_status, Le
<1>6. CASE ~(dm.ts < prior.ts)
  <2>1. Twins(dm, msg)
    BY <1>1, <1>4, <1>6 DEF should_replace_row, Twins
  <2>2. NamesStatus(dm)
    BY DEF NamesStatus, is_pending_listing, status_candidate
  <2> QED BY <1>1, <1>2, <2>1, <2>2 DEF CardSaid, TwinsAreShown, Cand, dm, status_candidate
<1> QED BY <1>5, <1>6

\* Storing the decision about a message leaves the row with the status the card is about
\* to show, or the card as good as it was.
LEMMA WriteAgrees ==
  ASSUME OrdersNameTheirStatus, RepliesAgree, RespawnedMoveForward,
         IInv, ToldInv, LifeInv, Settings, RowFollows, Live, pc = "statusWrite"
  PROVE  /\ effective_order_status = IF StatusToWrite = NoStatus THEN row.status ELSE StatusToWrite
         /\ should_replace_row \/ Agree(effective_order_status, msg, fresh)
<1>1. /\ TypeOK /\ KindsAgree /\ pc # "idle" /\ pc \in LaterPcs \ {"publish"}
      /\ trade \in Trades /\ cur \in 1 .. Len(trade.dms)
  BY TradeTyped DEF IInv, Control, LaterPcs, TypeOK
<1>2. Agree(Known, prior, fresh \cup {cur}) /\ RowMoved
  BY <1>1 DEF RowFollows, Judged, Card, ToCome
<1>3. CASE snap = NoRow
  <2>1. /\ effective_order_status = trade.saved /\ StatusToWrite \in {trade.saved, NoStatus}
        /\ row.status = trade.saved /\ (msg # NoMsg => msg.status = trade.saved)
        /\ trade.saved # NoStatus
    BY <1>1, <1>3, EarlyDecided, SavedIsSaid DEF Settings
  <2> QED BY <2>1 DEF Agree
<1>4. CASE snap # NoRow
  <2>1. /\ snap.status # NoStatus /\ snap.status \in Statuses /\ Known = snap.status
        /\ status_from_db = snap.status /\ baseline_status = snap.status
        /\ should_accept_candidate <=> status_candidate # NoStatus /\ Le(snap.status, status_candidate)
        /\ is_pending_listing(dm) => status_candidate = "Pending"
    BY <1>1, <1>4, KnownDecides DEF Known
  <2>2. effective_order_status = IF should_accept_candidate THEN status_candidate ELSE snap.status
    BY <2>1 DEF effective_order_status
  <2>3. row.status = snap.status \/ (row.status = status_candidate /\ status_candidate # NoStatus)
    <3>1. Upserts(dm) => status_candidate = dm.status /\ status_candidate # NoStatus
      BY <1>1, HandledTold DEF Told, NoStatus
    <3> QED BY <1>2, <2>1, <3>1 DEF RowMoved
  <2>4. effective_order_status = IF StatusToWrite = NoStatus THEN row.status ELSE StatusToWrite
    <3>1. CASE should_accept_candidate
      BY <2>1, <2>2, <2>3, <3>1 DEF StatusToWrite
    <3>2. CASE ~should_accept_candidate
      BY <2>1, <2>2, <2>3, <3>2 DEF StatusToWrite
    <3> QED BY <3>1, <3>2
  <2>5. ASSUME ~should_replace_row, msg # NoMsg, msg.status # effective_order_status
        PROVE  reloads > 0 /\ (tracked => \E i \in fresh : Repairs(i, effective_order_status, msg))
    <3>1. prior # NoMsg /\ Twins(msg, prior) /\ msg.status = prior.status
      BY <2>5 DEF Settings, PriorIsShown, should_replace_row
    <3>2. CASE is_pending_listing(dm)
      <4>1. snap.status \notin PreActiveStatuses
        BY <1>1, <3>2 DEF Settings, LostAreLost, LaterPcs
      <4>2. effective_order_status = Known
        BY <2>1, <2>2, <3>2, <4>1, ListingRejected
      <4>3. reloads > 0
        BY <1>2, <2>5, <3>1, <4>2 DEF Agree
      <4>4. Respawns
        BY <4>3 DEF Settings, LateTask
      <4> QED BY <1>1, <3>2, <4>4, NoLateListing DEF Settings
    <3>3. CASE ~is_pending_listing(dm)
      <4>1. dm.action # "NewOrder"
        BY <1>1, <3>3 DEF OrdersNameTheirStatus, dm
      <4>2. status_candidate # NoStatus /\ Le(msg.status, status_candidate) => status_candidate = msg.status
        BY <1>1, <1>4, <2>5, <4>1, NotReplaced DEF Settings
      <4>3. prior.status # Known
        BY <2>1, <2>2, <2>5, <3>1, <4>2
      <4>4. reloads > 0 /\ (tracked => \E i \in fresh \cup {cur} : Repairs(i, Known, prior))
        BY <1>2, <3>1, <4>3 DEF Agree
      <4>5. Respawns
        BY <4>4 DEF Settings, LateTask
      <4>6. ASSUME NEW i \in fresh \cup {cur}, Repairs(i, Known, prior)
            PROVE  i \in fresh /\ Repairs(i, effective_order_status, msg)
        <5> DEFINE e == trade.dms[i]
        <5>1. i \in 1 .. Len(trade.dms)
          BY <1>1, <4>6, TradeTyped DEF TypeOK
        <5>2. CASE is_pending_listing(e)
          BY <3>3, <4>6, <5>2 DEF Repairs, dm
        <5>3. CASE e.ts >= prior.ts /\ ~Twins(e, prior)
          <6>1. e.ts >= msg.ts /\ ~Twins(e, msg)
            BY <3>1, <5>3 DEF Twins
          <6>2. i # cur
            <7>1. dm.ts \in Int /\ prior.ts \in Int
              <8>1. dm \in Dms /\ prior \in Msgs
                BY <1>1, <3>1, HandledTyped DEF TypeOK
              <8> QED BY <8>1 DEF Dms, Msgs
            <7>2. i = cur => e = dm
              BY DEF dm
            <7> QED BY <2>5, <4>1, <5>3, <7>1, <7>2 DEF should_replace_row, Twins
          <6> QED BY <4>6, <6>1, <6>2 DEF Repairs
        <5>4. CASE /\ ~is_pending_listing(e)
                   /\ Cand(i) \in {Known, prior.status} /\ Le(Known, Cand(i)) /\ Le(prior.status, Cand(i))
          <6>1. NamesStatus(e) /\ Cand(i) # NoStatus
            BY <2>1, <5>4, LeOrders DEF NamesStatus, Cand
          <6>2. Cand(cur) = status_candidate
            BY DEF Cand, status_candidate, dm
          <6>3. i # cur
            BY <2>1, <2>2, <2>5, <3>1, <4>2, <5>4, <6>1, <6>2
          <6>4. CASE ~should_accept_candidate
            BY <2>1, <2>2, <3>1, <4>6, <5>4, <6>3, <6>4 DEF Repairs
          <6>5. CASE should_accept_candidate
            <7>1. effective_order_status = Cand(cur) /\ NamesStatus(dm) /\ Le(Known, Cand(cur))
              BY <2>1, <2>2, <3>3, <6>2, <6>5 DEF NamesStatus, status_candidate
            <7>2. CASE i < cur
              <8>1. Cand(i) \in Statuses /\ Le(Cand(i), Cand(cur))
                BY <1>1, <4>5, <5>1, <6>1, <7>1, <7>2, NamesInOrder DEF dm
              <8>2. Le(msg.status, Cand(cur))
                BY <3>1, <5>4, <8>1, LeOrders
              <8> QED BY <2>1, <2>5, <4>2, <6>2, <6>5, <7>1, <8>2
            <7>3. CASE cur < i
              <8>1. Le(Cand(cur), Cand(i)) /\ (Le(Cand(i), Cand(cur)) => Cand(cur) = Cand(i))
                BY <1>1, <4>5, <5>1, <6>1, <7>1, <7>3, NamesInOrder DEF dm
              <8>2. Cand(i) \in {effective_order_status, msg.status}
                BY <3>1, <5>4, <7>1, <8>1
              <8> QED BY <3>1, <4>6, <5>4, <6>3, <7>1, <8>1, <8>2 DEF Repairs
            <7> QED BY <1>1, <5>1, <6>3, <7>2, <7>3, TradeTyped
          <6> QED BY <6>4, <6>5
        <5> QED BY <4>6, <5>2, <5>3, <5>4 DEF Repairs
      <4> QED BY <4>4, <4>6
    <3> QED BY <3>2, <3>3
  <2> QED BY <2>4, <2>5 DEF Agree
<1> QED BY <1>3, <1>4

\* What a new listener is given brings the row and the card together: everything there
\* is, or without a cursor the newest message.
LEMMA RedeliveredRepairs ==
  ASSUME RespawnedMoveForward, RepliesAgree, TakesAreRespawned, TypeOK, Settings, NoCursor,
         Live, Respawns, msg # NoMsg, msg.status # row.status, IsStartupActive(row)
  PROVE  \E i \in Redelivered(row) : Repairs(i, row.status, msg)
<1>1. /\ trade \in Trades /\ ~trade.maker /\ trade.early \in Nat /\ Len(trade.dms) \in Nat
      /\ published \in Nat /\ published <= Len(trade.dms)
      /\ Said(row.status) /\ Said(msg.status) /\ msg.ts <= Now
  BY TradeTyped DEF TypeOK, TakesAreRespawned, Respawns, Settings, RowSaid, CardSaid
<1>2. \E i \in 1 .. published : NamesStatus(trade.dms[i]) /\ Cand(i) \in {row.status, msg.status}
                                /\ Le(row.status, Cand(i)) /\ Le(msg.status, Cand(i))
  <2>1. ASSUME NEW s1, NEW i \in 1 .. published, Said(s1), NamesStatus(trade.dms[i]), s1 # Cand(i)
        PROVE  \E j \in 1 .. published : NamesStatus(trade.dms[j]) /\ Cand(j) \in {s1, Cand(i)}
                                         /\ Le(s1, Cand(j)) /\ Le(Cand(i), Cand(j))
    <3>1. i \in 1 .. Len(trade.dms)
      BY <1>1
    <3>2. CASE s1 = trade.saved
      <4>1. Le(s1, Cand(i)) /\ Le(Cand(i), Cand(i))
        BY <2>1, <3>1, <3>2, NamesInOrder, LeOrders
      <4> QED BY <2>1, <4>1
    <3>3. CASE \E j \in 1 .. published : NamesStatus(trade.dms[j]) /\ Cand(j) = s1
      <4>1. PICK j \in 1 .. published : NamesStatus(trade.dms[j]) /\ Cand(j) = s1
        BY <3>3
      <4>2. j \in 1 .. Len(trade.dms) /\ (j < i \/ i < j)
        BY <1>1, <2>1, <4>1
      <4>3. j < i => Le(Cand(j), Cand(i))
        BY <2>1, <3>1, <4>1, <4>2, NamesInOrder
      <4>4. i < j => Le(Cand(i), Cand(j))
        BY <2>1, <3>1, <4>1, <4>2, NamesInOrder
      <4>5. Le(Cand(i), Cand(i)) /\ Le(Cand(j), Cand(j))
        BY LeOrders
      <4> QED BY <2>1, <4>1, <4>2, <4>3, <4>4, <4>5
    <3> QED BY <2>1, <3>2, <3>3 DEF Said
  <2>2. CASE row.status # trade.saved
    <3>1. PICK i \in 1 .. published : NamesStatus(trade.dms[i]) /\ Cand(i) = row.status
      BY <1>1, <2>2 DEF Said
    <3> QED BY <1>1, <2>1, <3>1
  <2>3. CASE row.status = trade.saved
    <3>1. PICK i \in 1 .. published : NamesStatus(trade.dms[i]) /\ Cand(i) = msg.status
      BY <1>1, <2>3 DEF Said
    <3> QED BY <1>1, <2>1, <3>1
  <2> QED BY <2>2, <2>3
<1>3. published # 0
  BY <1>1, <1>2
<1>4. CASE row.seen # NoTs
  BY <1>2, <1>3, <1>4 DEF Redelivered, Repairs
<1>5. CASE row.seen = NoTs
  <2>1. published \in Redelivered(row) /\ published \in 1 .. Len(trade.dms) /\ trade.dms[published].ts >= msg.ts
    BY <1>1, <1>3, <1>5, TradeTyped DEF Redelivered, Now, TypeOK, Msgs
  <2>2. ~Twins(trade.dms[published], msg)
    <3>1. SUFFICES ASSUME Twins(trade.dms[published], msg) PROVE FALSE
      OBVIOUS
    <3>2. published <= trade.early
      BY <1>1, <1>5, <2>1, <3>1 DEF NoCursor
    <3>3. \A i \in 1 .. published : Cand(i) = trade.saved
      BY <1>1, <3>2 DEF RepliesAgree, Cand
    <3> QED BY <1>1, <3>3 DEF Said
  <2> QED BY <2>1, <2>2 DEF Repairs
<1> QED BY <1>4, <1>5

LEMMA DecisionKept ==
  ASSUME UNCHANGED <<trade, cur, snap, prior>>
  PROVE  /\ effective_order_status' = effective_order_status
         /\ should_replace_row' <=> should_replace_row
         /\ dm' = dm
  BY DEF effective_order_status, should_replace_row, should_accept_candidate, baseline_status, status_from_db,
     status_candidate, effective_order_kind, dm

LEMMA RowFollowsStep ==
  ASSUME OrdersNameTheirStatus, RepliesAgree, TakesAreRespawned, RespawnedMoveForward,
         IInv, UpsertsOnly, ToldInv, LifeInv, Settings, RowFollows, NoCursor, [Next]_vars
  PROVE  RowFollows'
<1> USE DEF world, ui, locals, history, listener, Goto
<1> DEFINE NextAgree(s, m, F) == m # NoMsg => \/ m.status = s
                                              \/ reloads' > 0 /\ (tracked' => \E i \in F : Repairs(i, s, m))
           NextKnown == IF snap' = NoRow THEN trade.saved ELSE snap'.status
           NextToCome == IF pc' = "idle" THEN fresh' ELSE fresh' \cup {cur'}
           Follows == /\ pc' \in StartPcs => NextAgree(row'.status, msg', NextToCome)
                      /\ pc' \in {"seen", "cleanup"} => NextAgree(row'.status, msg', fresh')
                      /\ pc' \in LaterPcs \ {"statusWrite", "publish"} => NextAgree(NextKnown, msg', fresh' \cup {cur'})
                      /\ pc' = "statusWrite" => NextAgree(NextKnown, prior', fresh' \cup {cur'})
                      /\ pc' \in LaterPcs \ {"publish"} =>
                           (row'.status = NextKnown) \/ (Upserts(dm') /\ row'.status = dm'.status)
                      /\ pc' = "publish" => /\ row'.status = effective_order_status'
                                            /\ should_replace_row' \/ NextAgree(row'.status, msg', fresh')
<1>1. /\ TypeOK /\ UNCHANGED trade /\ trade \in Trades /\ NothingStoredYet
      /\ reloads \in Nat
  BY ShownSources, BoundsAssumption DEF IInv, Control, TypeOK
<1>2. SUFFICES ASSUME Live' PROVE Follows
  <2>1. Agree(Judged, Card, ToCome)' <=> NextAgree(Judged', Card', ToCome')
    BY <1>1 DEF Agree, Repairs, Cand, Le
  <2>2. /\ pc' \in StartPcs => Judged' = row'.status /\ Card' = msg' /\ ToCome' = NextToCome
        /\ pc' \in {"seen", "cleanup"} => Judged' = row'.status /\ Card' = msg' /\ ToCome' = fresh'
        /\ pc' \in LaterPcs \ {"statusWrite", "publish"} =>
             Judged' = NextKnown /\ Card' = msg' /\ ToCome' = fresh' \cup {cur'}
        /\ pc' = "statusWrite" => Judged' = NextKnown /\ Card' = prior' /\ ToCome' = fresh' \cup {cur'}
        /\ pc' = "publish" => Judged' = row'.status /\ Card' = msg' /\ ToCome' = fresh'
    BY <1>1 DEF Judged, Card, ToCome, Known, StartPcs, LaterPcs
  <2>3. ASSUME Follows, pc' \in StartPcs \cup LaterPcs \cup {"seen", "cleanup"}
        PROVE  (pc' = "publish" /\ should_replace_row') \/ Agree(Judged, Card, ToCome)'
    <3> HIDE DEF NextAgree, NextKnown, NextToCome
    <3> QED BY <2>1, <2>2, <2>3
  <2>4. Follows => /\ pc' \in LaterPcs \ {"publish"} => RowMoved'
                   /\ pc' = "publish" => row'.status = effective_order_status'
    <3> HIDE DEF NextAgree, NextToCome
    <3> QED BY <1>1 DEF RowMoved, Known
  <2>5. ASSUME Follows, Live' PROVE RowFollows'
    <3> HIDE DEF Follows
    <3> QED BY <2>3, <2>4, <2>5 DEF RowFollows, StartPcs, LaterPcs
  <2>6. SUFFICES ASSUME Live' PROVE RowFollows'
    BY DEF RowFollows
  <2> QED BY <1>2, <2>5, <2>6
<1>3. CASE Awaited /\ SaveOrder
  <2>1. /\ row' = SavedRow(trade.saved, trade.maker) /\ UNCHANGED <<pc, cur, snap, prior, msg>>
        /\ snap = NoRow
        /\ msg # NoMsg => msg.status = trade.saved
        /\ prior # NoMsg => prior.status = trade.saved
    BY <1>3 DEF SaveOrder, Settings, EarlySays
  <2>2. row'.status = trade.saved
    BY <2>1 DEF SavedRow
  <2>3. pc = "publish" => effective_order_status = trade.saved
    BY <1>3, <2>1, EarlyDecided DEF Settings, LaterPcs
  <2> QED BY <1>1, <2>1, <2>2, <2>3, DecisionKept
<1>4. CASE Restart
  <2>1. /\ pc' \in {"idle", "lookup", "snapshot"}
        /\ msg' = IF row = NoRow THEN NoMsg ELSE db_order_to_history_message(row)
    BY <1>4 DEF Restart, StartListener, StartHandling, Finish
  <2>2. msg' # NoMsg => msg'.status = row'.status
    BY <1>1, <1>4, <2>1 DEF db_order_to_history_message, Restart
  <2> QED BY <2>1, <2>2 DEF LaterPcs
<1>5. CASE /\ Live /\ ~Restart
           /\ ~SaveOrder /\ ~SaveChild /\ ~DropTake /\ ~DeleteOrder /\ ~ForgetDeleted
  <2>1. /\ ~Forgotten /\ row # NoRow /\ row' # NoRow
        /\ row \in Rows /\ row' \in Rows
    <3>1. ~Forgotten /\ row # NoRow /\ row' # NoRow
      BY <1>2, <1>5 DEF Live
    <3>2. row' \in Rows \cup {NoRow}
      BY <1>1, StepTyped DEF TypeOK
    <3> QED BY <1>1, <3>1, <3>2 DEF TypeOK
  \* What is known now, and how it is carried over.
  <2>2. /\ pc \in StartPcs \cup {"seen", "cleanup"} => Agree(row.status, msg, ToCome)
        /\ pc \in LaterPcs \ {"statusWrite", "publish"} => Agree(Known, msg, fresh \cup {cur})
        /\ pc = "statusWrite" => Agree(Known, prior, fresh \cup {cur})
        /\ pc \in LaterPcs \ {"publish"} => RowMoved
        /\ pc = "publish" => /\ row.status = effective_order_status
                             /\ should_replace_row \/ Agree(row.status, msg, fresh)
    BY <1>5 DEF RowFollows, Judged, Card, ToCome, StartPcs, LaterPcs
  <2>3. ASSUME reloads' = reloads, reloads > 0 /\ tracked' => tracked,
               NEW s, NEW m, NEW m2, NEW F, NEW G, Agree(s, m, F), F \subseteq G,
               m2 # NoMsg => m # NoMsg /\ m2.status = m.status /\ m2.ts = m.ts /\ m2.action = m.action
        PROVE  NextAgree(s, m2, G)
    BY <2>3 DEF Agree, Repairs, Twins
  <2>4. CASE TrackOrder
    <3>1. UNCHANGED <<pc, cur, row, msg, reloads, fresh>> /\ pc = "idle" /\ reloads = 0
      BY <1>1, <1>5, <2>4 DEF TrackOrder, Settings, LateTask
    <3> QED BY <2>2, <3>1 DEF Agree, StartPcs, LaterPcs
  <2>5. CASE \E i \in fresh : Receive(i)
    <3>1. PICK i \in fresh : Receive(i)
      BY <2>5
    <3>2. /\ pc = "idle" /\ cur' = i /\ fresh' = fresh \ {i} /\ UNCHANGED <<row, msg, reloads, tracked>>
          /\ pc' \in {"lookup", "snapshot"}
      BY <2>1, <3>1 DEF Receive, StartHandling, Forgotten
    <3>3. Agree(row.status, msg, fresh) /\ fresh \subseteq NextToCome
      BY <2>2, <3>2 DEF StartPcs, ToCome
    <3> QED BY <2>3, <3>2, <3>3 DEF LaterPcs
  <2>6. CASE Reload
    <3>1. /\ UNCHANGED <<row, msg>> /\ Respawns /\ reloads' = reloads + 1
          /\ tracked' = IsStartupActive(row) /\ fresh' = Redelivered(row)
          /\ pc' \in {"idle", "lookup", "snapshot"}
      BY <1>1, <2>6 DEF Reload, StartListener, StartHandling, Finish, Respawns
    <3>2. NextAgree(row.status, msg, fresh')
      BY <1>1, <1>5, <3>1, RedeliveredRepairs
    <3> QED BY <3>1, <3>2 DEF LaterPcs
  \* The row, the message and the decision stay; the card may have been a placeholder.
  <2>7. CASE Publish \/ HandleNotification \/ ShowResult \/ UNCHANGED vars
    <3>1. /\ UNCHANGED <<pc, cur, snap, prior, row, reloads, tracked>>
          /\ fresh \subseteq fresh'
      BY <2>7 DEF Publish, HandleNotification, ShowResult, vars
    <3>2. dm' = dm /\ effective_order_status' = effective_order_status /\ (should_replace_row' <=> should_replace_row)
      BY <1>1, <3>1, DecisionKept
    <3>3. CASE msg' # NoMsg => /\ msg # NoMsg
                               /\ msg'.status = msg.status /\ msg'.ts = msg.ts /\ msg'.action = msg.action
      <4> HIDE DEF NextAgree
      <4>1. /\ ToCome \subseteq NextToCome /\ fresh \cup {cur} \subseteq fresh' \cup {cur'}
            /\ pc \in {"seen", "cleanup"} => ToCome = fresh
        BY <3>1 DEF ToCome
      <4>2. pc \in StartPcs => NextAgree(row'.status, msg', NextToCome)
        BY <2>2, <2>3, <3>1, <3>3, <4>1
      <4>3. pc \in {"seen", "cleanup"} => NextAgree(row'.status, msg', fresh')
        BY <2>2, <2>3, <3>1, <3>3, <4>1
      <4>4. pc \in LaterPcs \ {"statusWrite", "publish"} => NextAgree(Known, msg', fresh' \cup {cur'})
        BY <2>2, <2>3, <3>1, <3>3, <4>1
      <4>5. pc = "statusWrite" => NextAgree(Known, prior', fresh' \cup {cur'})
        BY <2>2, <2>3, <3>1, <4>1
      <4>6. pc = "publish" => should_replace_row' \/ NextAgree(row'.status, msg', fresh')
        BY <2>2, <2>3, <3>1, <3>2, <3>3, <4>1
      <4>7. NextKnown = Known
        BY <3>1 DEF Known
      <4>8. pc \in LaterPcs \ {"publish"} => row'.status = NextKnown \/ (Upserts(dm') /\ row'.status = dm'.status)
        BY <2>2, <3>1, <3>2, <4>7 DEF RowMoved
      <4> HIDE DEF NextKnown, NextToCome
      <4> QED BY <2>2, <3>1, <3>2, <4>2, <4>3, <4>4, <4>5, <4>6, <4>7, <4>8
    <3>4. CASE /\ ShowResult /\ msg = NoMsg
               /\ \/ trade.reply = "created" /\ msg' = ResultRow("NewOrder", FALSE)
                  \/ trade.reply = "addInvoice" /\ msg' = ResultRow("AddInvoice", TRUE)
      <4>1. msg'.status = trade.saved
        BY <3>4 DEF ResultRow
      <4>2. /\ pc \in StartPcs \cup {"seen", "cleanup"} => row.status = trade.saved
            /\ pc \in LaterPcs => Known = trade.saved
            /\ pc \in {"statusWrite", "publish"} => prior = NoMsg
        BY <1>5, <3>4 DEF Settings, PlaceholderFits, ShowResult
      <4>3. NextKnown = Known
        BY <3>1 DEF Known
      <4>4. pc \in LaterPcs \ {"publish"} => row'.status = NextKnown \/ (Upserts(dm') /\ row'.status = dm'.status)
        BY <2>2, <3>1, <3>2, <4>3 DEF RowMoved
      <4>5. prior = NoMsg => should_replace_row
        BY DEF should_replace_row
      <4> HIDE DEF NextKnown
      <4> QED BY <2>2, <3>1, <3>2, <4>1, <4>2, <4>3, <4>4, <4>5 DEF LaterPcs
    <3> QED BY <1>1, <1>5, <2>7, <3>1, <3>3, <3>4, CardSteps DEF PublishRow
  <2>8. CASE Handling
    <3>1. UNCHANGED reloads /\ (tracked' => tracked)
      <4>1. CASE Cleanup
        BY <1>1, <4>1 DEF Cleanup, TypeOK
      <4>2. CASE ~Cleanup
        <5>1. UNCHANGED <<reloads, tracked>>
          BY <2>8, <4>2 DEF Handling, NewOrderLookup, Forget, RevertStatus, DropTake, SaveChild,
             ReadForUpsert, WriteUpsert, Snapshot, RecordDispute, TrackChat, StatusWrite, PublishRow,
             AdvanceCursor
        <5> QED BY <5>1
      <4> QED BY <4>1, <4>2
    <3>2. CASE NewOrderLookup \/ ReadForUpsert("revertRead", "revertWrite")
      <4>1. pc \in StartPcs /\ UNCHANGED <<row, msg, fresh, cur>> /\ pc' \in StartPcs \cup {"dropTake", "saveChild"}
            /\ pc # "idle" /\ pc' # "idle"
        BY <3>2 DEF NewOrderLookup, ReadForUpsert, StartPcs
      <4>2. Agree(row.status, msg, fresh \cup {cur})
        BY <2>2, <4>1 DEF ToCome, StartPcs
      <4>3. NextAgree(row'.status, msg', fresh' \cup {cur'})
        BY <2>3, <3>1, <4>1, <4>2
      <4> HIDE DEF NextAgree
      <4> QED BY <4>1, <4>3 DEF StartPcs, LaterPcs
    <3>3. CASE Forget
      BY <3>3 DEF Forget, LaterPcs, StartPcs
    <3>4. CASE RevertStatus \/ WriteUpsert("revertWrite", "revertStatus")
      BY <3>4 DEF RevertStatus, WriteUpsert, LaterPcs, StartPcs
    <3>5. CASE Snapshot
      <4>1. /\ pc = "snapshot" /\ UNCHANGED <<row, msg, fresh, cur>> /\ snap' = row
            /\ pc' \in {"dropTake", "upsertRead", "dispute"}
        BY <3>5 DEF Snapshot
      <4>2. NextKnown = row'.status
        BY <2>1, <4>1
      <4>3. Agree(row.status, msg, fresh \cup {cur})
        BY <2>2, <4>1 DEF ToCome, StartPcs
      <4>4. NextAgree(NextKnown, msg', fresh' \cup {cur'})
        BY <2>3, <3>1, <4>1, <4>2, <4>3
      <4> HIDE DEF NextAgree, NextKnown
      <4> QED BY <4>1, <4>2, <4>4 DEF StartPcs
    <3>6. CASE ReadForUpsert("upsertRead", "upsertWrite") \/ WriteUpsert("upsertWrite", "dispute") \/ RecordDispute
      <4>1. /\ pc \in {"upsertRead", "upsertWrite", "dispute"} /\ pc' \in {"upsertWrite", "dispute", "trackChat"}
            /\ UNCHANGED <<msg, fresh, cur, snap>>
        BY <3>6 DEF ReadForUpsert, WriteUpsert, RecordDispute
      <4>2. NextKnown = Known /\ dm' = dm
        BY <1>1, <4>1 DEF Known, dm
      <4>3. row'.status = row.status \/ (Upserts(dm) /\ row'.status = dm.status)
        BY <1>2, <1>5, <3>6, <4>1, LiveStatusSteps DEF Settings, StatusWrite
      <4>4. Agree(Known, msg, fresh \cup {cur}) /\ RowMoved
        BY <2>2, <4>1 DEF LaterPcs
      <4>5. NextAgree(NextKnown, msg', fresh' \cup {cur'})
        BY <2>3, <3>1, <4>1, <4>2, <4>4
      <4>6. row'.status = NextKnown \/ (Upserts(dm') /\ row'.status = dm'.status)
        BY <4>2, <4>3, <4>4 DEF RowMoved
      <4> HIDE DEF NextAgree, NextKnown
      <4> QED BY <4>1, <4>5, <4>6 DEF StartPcs
    <3>7. CASE TrackChat
      <4>1. /\ pc = "trackChat" /\ UNCHANGED <<row, msg, fresh, cur, snap>> /\ prior' = msg
            /\ pc' = IF IsInvoice(dm) /\ ~is_actionable_notification(dm) THEN "seen" ELSE "statusWrite"
        BY <3>7 DEF TrackChat
      <4>2. NextKnown = Known /\ dm' = dm
        BY <1>1, <4>1 DEF Known, dm
      <4>3. Agree(Known, msg, fresh \cup {cur}) /\ RowMoved
        BY <2>2, <4>1 DEF LaterPcs
      <4>4. CASE pc' = "statusWrite"
        <5>1. NextAgree(NextKnown, prior', fresh' \cup {cur'})
          BY <2>3, <3>1, <4>1, <4>2, <4>3
        <5>2. row'.status = NextKnown \/ (Upserts(dm') /\ row'.status = dm'.status)
          BY <4>1, <4>2, <4>3 DEF RowMoved
        <5> HIDE DEF NextAgree, NextKnown
        <5> QED BY <4>4, <5>1, <5>2 DEF StartPcs
      <4>5. CASE pc' = "seen"
        <5>1. cur \in 1 .. Len(trade.dms)
          BY <1>1, <4>1, TradeTyped DEF TypeOK
        <5>2. IsInvoice(dm) /\ ~is_actionable_notification(dm) /\ ~Upserts(dm)
          <6>1. dm.payload # "emptyInvoice"
            BY <1>1, <5>1 DEF OrdersNameTheirStatus, dm
          <6> QED BY <4>1, <4>5, <6>1 DEF Upserts, IsInvoice, is_actionable_notification
        <5>3. ~(reloads > 0)
          BY <1>1, <5>1, <5>2 DEF Settings, LateTask, Respawns, RespawnedMoveForward, dm
        <5>4. row.status = Known /\ (msg # NoMsg => msg.status = Known)
          BY <4>3, <5>2, <5>3 DEF RowMoved, Agree
        <5> QED BY <4>1, <4>5, <5>4 DEF StartPcs, LaterPcs
      <4> QED BY <4>1, <4>4, <4>5
    <3>8. CASE StatusWrite
      <4>1. /\ pc = "statusWrite" /\ pc' = "publish" /\ UNCHANGED <<msg, fresh, cur, snap, prior>>
            /\ row' = IF StatusToWrite = NoStatus THEN row ELSE [row EXCEPT !.status = StatusToWrite]
        BY <2>1, <3>8 DEF StatusWrite
      <4>2. row'.status = IF StatusToWrite = NoStatus THEN row.status ELSE StatusToWrite
        BY <2>1, <4>1 DEF Rows
      <4>3. row'.status = effective_order_status
        BY <1>5, <4>1, <4>2, WriteAgrees
      <4>4. should_replace_row \/ Agree(row'.status, msg, fresh)
        BY <1>5, <4>1, <4>3, WriteAgrees
      <4>5. effective_order_status' = effective_order_status /\ (should_replace_row' <=> should_replace_row)
        BY <1>1, <4>1, DecisionKept
      <4>6. should_replace_row' \/ NextAgree(row'.status, msg', fresh')
        BY <2>3, <3>1, <4>1, <4>4, <4>5
      <4> HIDE DEF NextAgree
      <4> QED BY <4>1, <4>3, <4>5, <4>6 DEF StartPcs
    <3>9. CASE PublishRow
      <4>1. /\ pc = "publish" /\ pc' = "seen" /\ UNCHANGED <<row, fresh>>
            /\ msg' = IF should_replace_row THEN order_message ELSE msg
        BY <3>9 DEF PublishRow
      <4>2. order_message.status = effective_order_status
        BY DEF order_message
      <4>3. NextAgree(row'.status, msg', fresh')
        BY <2>2, <2>3, <3>1, <4>1, <4>2
      <4> HIDE DEF NextAgree
      <4> QED BY <4>1, <4>3 DEF StartPcs, LaterPcs
    <3>10. CASE AdvanceCursor
      <4>1. /\ pc = "seen" /\ pc' = "cleanup" /\ UNCHANGED <<msg, fresh>> /\ row'.status = row.status
        BY <2>1, <3>10 DEF AdvanceCursor, Rows
      <4>2. NextAgree(row'.status, msg', fresh')
        BY <2>2, <2>3, <3>1, <4>1 DEF ToCome
      <4> HIDE DEF NextAgree
      <4> QED BY <4>1, <4>2 DEF StartPcs, LaterPcs
    <3>11. CASE Cleanup
      <4>1. /\ pc = "cleanup" /\ pc' = "idle" /\ UNCHANGED <<row, msg>>
            /\ fresh' = IF tracked' THEN fresh ELSE {}
        BY <3>11 DEF Cleanup, Finish
      <4>2. Agree(row.status, msg, fresh)
        BY <2>2, <4>1 DEF ToCome
      <4>3. NextAgree(row'.status, msg', fresh')
        BY <3>1, <4>1, <4>2 DEF Agree
      <4> HIDE DEF NextAgree
      <4> QED BY <4>1, <4>3 DEF StartPcs, LaterPcs
    <3> QED BY <1>5, <2>8, <3>2, <3>3, <3>4, <3>5, <3>6, <3>7, <3>8, <3>9, <3>10, <3>11 DEF Handling
  <2> QED BY <1>5, <2>4, <2>5, <2>6, <2>7, <2>8 DEF Next, ListenerNext
<1> QED BY <1>2, <1>3, <1>4, <1>5, LivesOn

LEMMA NoCursorStep ==
  ASSUME OrdersNameTheirStatus, RepliesAgree, TwinsAgree, TakesAreRespawned, RespawnedMoveForward,
         IInv, UpsertsOnly, ToldInv, LifeInv, Settings, RowFollows, NoCursor, [Next]_vars
  PROVE  NoCursor'
<1> USE DEF world, ui, locals, history, listener, Goto
<1> DEFINE Ahead == IF pc' = "idle" THEN fresh' ELSE {cur'}
           NextKnown == IF snap' = NoRow THEN trade.saved ELSE snap'.status
           RowBehind == \A i \in Ahead : NamesStatus(trade.dms[i]) =>
                          Le(row'.status, Cand(i)) /\ (pc' \in LaterPcs => Le(NextKnown, Cand(i)))
           CardBehind == msg' # NoMsg =>
             /\ Le(msg'.status, row'.status)
             /\ \A k \in trade.early + 1 .. published' : Twins(trade.dms[k], msg') =>
                  /\ k = published' => row'.status = msg'.status
                  /\ \A i \in Ahead : i >= k
           CleanupBehind == pc' = "cleanup" => row'.status = trade.saved /\ cur' <= trade.early
<1>1. /\ TypeOK /\ UNCHANGED trade /\ trade \in Trades /\ NothingStoredYet
      /\ published \in Nat /\ Len(trade.dms) \in Nat /\ published <= Len(trade.dms) /\ trade.early \in Nat
      /\ published' \in Nat /\ published' <= Len(trade.dms)
      /\ fresh \subseteq 1 .. published /\ cur \in 0 .. published /\ (pc # "idle" => cur # 0)
  <2>1. TypeOK /\ TypeOK' /\ UNCHANGED trade /\ NothingStoredYet
    BY ShownSources, StepTyped DEF IInv, Control
  <2>2. published \in 0 .. Len(trade.dms) /\ published' \in 0 .. Len(trade.dms) /\ trade \in Trades
    BY <2>1 DEF TypeOK
  <2>3. Len(trade.dms) \in Nat /\ trade.early \in Nat
    BY <2>2, TradeTyped
  <2> QED BY <2>1, <2>2, <2>3 DEF TypeOK
<1>2. SUFFICES ASSUME Live', Respawns, row'.seen = NoTs PROVE RowBehind /\ CardBehind /\ CleanupBehind
  <2>1. NextUp' = Ahead /\ Known' = NextKnown /\ (Respawns' <=> Respawns)
    BY <1>1 DEF NextUp, Known, Respawns
  <2>2. RowBehind => \A i \in NextUp' : NamesStatus(trade.dms[i])' =>
                       Le(row.status, Cand(i))' /\ (pc' \in LaterPcs => Le(Known, Cand(i))')
    BY <1>1, <2>1 DEF Le, Cand
  <2>3. CardBehind => (msg # NoMsg =>
         /\ Le(msg.status, row.status)
         /\ \A k \in trade.early + 1 .. published : Twins(trade.dms[k], msg) =>
              /\ k = published => row.status = msg.status
              /\ \A i \in NextUp : i >= k)'
    BY <1>1, <2>1 DEF Le, Twins
  <2>4. CleanupBehind => (pc = "cleanup" => row.status = trade.saved /\ cur <= trade.early)'
    BY <1>1
  <2> HIDE DEF RowBehind, CardBehind, CleanupBehind
  <2>5. SUFFICES ASSUME Live', Respawns', row'.seen = NoTs PROVE NoCursor'
    BY DEF NoCursor
  <2>6. RowBehind /\ CardBehind /\ CleanupBehind
    BY <1>2, <2>1, <2>5
  <2> QED BY <2>2, <2>3, <2>4, <2>6 DEF NoCursor, Respawns
<1>3. ~trade.maker /\ \A s : Le(s, s)
  BY <1>1, <1>2, LeOrders DEF TakesAreRespawned, Respawns
<1>4. CASE Awaited /\ SaveOrder
  <2>1. /\ row' = SavedRow(trade.saved, trade.maker) /\ UNCHANGED <<pc, cur, snap, fresh, msg, published>>
        /\ snap = NoRow
        /\ msg # NoMsg => msg.status = trade.saved
    BY <1>4 DEF SaveOrder, Settings, EarlySays
  <2>2. row'.status = trade.saved /\ published <= trade.early
    BY <1>1, <1>4, <2>1 DEF SavedRow, NothingStoredYet
  <2>3. Ahead \subseteq 1 .. Len(trade.dms)
    BY <1>1, <2>1
  <2>4. RowBehind
    BY <1>1, <1>2, <2>1, <2>2, <2>3, NamesInOrder
  <2>5. CardBehind /\ CleanupBehind
    BY <1>1, <1>3, <2>1, <2>2
  <2> QED BY <2>4, <2>5
<1>5. CASE Live /\ ~SaveOrder /\ ~SaveChild /\ ~DropTake /\ ~DeleteOrder /\ ~ForgetDeleted
  <2>1. /\ row # NoRow /\ row' # NoRow /\ row \in Rows /\ row' \in Rows /\ ~Forgotten
        /\ Said(row.status)
    <3>1. row # NoRow /\ row' # NoRow /\ row' \in Rows \cup {NoRow} /\ ~Forgotten
      BY <1>2, <1>5, StepTyped DEF Live, TypeOK, IInv
    <3> QED BY <1>1, <1>5, <3>1 DEF TypeOK, Settings, RowSaid
  <2>2. ~AdvanceCursor
    <3>1. SUFFICES ASSUME AdvanceCursor PROVE FALSE
      OBVIOUS
    <3>2. pc = "seen" /\ row' = IF row.seen >= dm.ts THEN row ELSE [row EXCEPT !.seen = dm.ts]
      BY <2>1, <3>1 DEF AdvanceCursor
    <3>3. dm.ts \in Nat /\ row.seen \in Int
      <4>1. dm \in Dms
        BY <1>1, <3>2, HandledTyped
      <4> QED BY <2>1, <4>1 DEF Dms, Rows, NoTs
    <3> QED BY <1>2, <2>1, <3>2, <3>3 DEF Rows, NoTs
  <2>3. row.seen = NoTs
    BY <1>2, <1>5, <2>2, LiveStatusSteps DEF Settings
  <2>4. /\ \A i \in NextUp : NamesStatus(trade.dms[i]) =>
             Le(row.status, Cand(i)) /\ (pc \in LaterPcs => Le(Known, Cand(i)))
        /\ msg # NoMsg =>
             /\ Le(msg.status, row.status)
             /\ \A k \in trade.early + 1 .. published : Twins(trade.dms[k], msg) =>
                  /\ k = published => row.status = msg.status
                  /\ \A i \in NextUp : i >= k
        /\ pc = "cleanup" => row.status = trade.saved /\ cur <= trade.early
    BY <1>2, <1>5, <2>3 DEF NoCursor
  <2>5. NextUp \subseteq 1 .. published /\ NextUp \subseteq 1 .. Len(trade.dms)
    BY <1>1 DEF NextUp
  <2>6. CASE Publish
    <3>1. /\ published' = published + 1 /\ UNCHANGED <<pc, cur, snap, row, msg>>
          /\ fresh' \subseteq fresh \cup {published'}
      BY <2>6 DEF Publish
    <3>2. /\ \A i \in Ahead : i \in NextUp \/ (pc' = "idle" /\ i = published')
          /\ published' \in 1 .. Len(trade.dms) /\ NextKnown = Known
      BY <1>1, <3>1 DEF NextUp, Known
    <3>3. NamesStatus(trade.dms[published']) => Le(row.status, Cand(published'))
      BY <1>1, <1>2, <2>1, <3>1, <3>2, NamesInOrder
    <3>4. RowBehind
      BY <2>4, <3>1, <3>2, <3>3 DEF LaterPcs
    <3>5. ASSUME msg # NoMsg, NEW k \in trade.early + 1 .. published', Twins(trade.dms[k], msg)
          PROVE  k # published' /\ k \in trade.early + 1 .. published
      <4>1. k \in 1 .. Len(trade.dms)
        BY <1>1
      <4>2. msg.action \notin {"TakeBuy", "TakeSell"}
        <5>1. trade.dms[k] \in Dms
          BY <1>1, <4>1, TradeTyped
        <5> QED BY <3>5, <5>1 DEF Dms, Twins
      <4>3. PICK j \in 1 .. published : Twins(trade.dms[j], msg)
        BY <1>2, <1>5, <3>5, <4>2 DEF Settings, CardSaid
      <4>4. j \in 1 .. Len(trade.dms) /\ Twins(trade.dms[j], trade.dms[k])
        BY <1>1, <3>5, <4>3 DEF Twins
      <4>5. j = k
        BY <1>1, <1>2, <4>1, <4>4 DEF RespawnedMoveForward, Respawns
      <4> QED BY <1>1, <3>1, <4>3, <4>5
    <3>6. CardBehind
      <4>1. ASSUME msg # NoMsg, NEW k \in trade.early + 1 .. published', Twins(trade.dms[k], msg),
                   NEW i \in Ahead
            PROVE  i >= k
        BY <1>1, <2>4, <3>1, <3>2, <3>5, <4>1
      <4> HIDE DEF Ahead
      <4> QED BY <2>4, <3>1, <3>5, <4>1
    <3> QED BY <2>4, <3>1, <3>4, <3>6
  <2>7. CASE \E i \in fresh : Receive(i)
    <3>1. PICK i \in fresh : Receive(i)
      BY <2>7
    <3>2. /\ pc = "idle" /\ cur' = i /\ pc' \in {"lookup", "snapshot"}
          /\ UNCHANGED <<published, row, msg>>
      BY <2>1, <3>1 DEF Receive, StartHandling, Forgotten
    <3>3. Ahead \subseteq NextUp
      BY <3>1, <3>2 DEF NextUp
    <3> QED BY <2>4, <3>2, <3>3 DEF LaterPcs
  <2>8. CASE TrackOrder \/ HandleNotification \/ ShowResult \/ UNCHANGED vars
    <3>1. UNCHANGED <<pc, cur, fresh, row, snap, published>>
      BY <2>8 DEF TrackOrder, HandleNotification, ShowResult, vars
    <3>2. Ahead = NextUp /\ NextKnown = Known
      BY <3>1 DEF NextUp, Known
    <3>3. RowBehind /\ CleanupBehind
      <4> HIDE DEF Ahead, NextKnown
      <4> QED BY <2>4, <3>1, <3>2
    <3>4. CASE msg' # NoMsg => /\ msg # NoMsg
                               /\ msg'.status = msg.status /\ msg'.ts = msg.ts /\ msg'.action = msg.action
      <4> HIDE DEF Ahead
      <4> QED BY <2>4, <3>1, <3>2, <3>3, <3>4 DEF Twins
    <3>5. CASE /\ ShowResult /\ msg = NoMsg
               /\ \/ trade.reply = "created" /\ msg' = ResultRow("NewOrder", FALSE)
                  \/ trade.reply = "addInvoice" /\ msg' = ResultRow("AddInvoice", TRUE)
      <4>1. msg'.status = trade.saved
        BY <3>5 DEF ResultRow
      <4>2. published <= trade.early
        BY <3>5 DEF ShowResult, Settings, ResultInTime
      <4>3. Le(trade.saved, row.status)
        <5>1. row.status = trade.saved \/ \E j \in 1 .. published : NamesStatus(trade.dms[j]) /\ Cand(j) = row.status
          BY <1>2, <2>1 DEF Said
        <5>2. \A j \in 1 .. published : j \in 1 .. Len(trade.dms)
          BY <1>1
        <5> QED BY <1>1, <1>2, <1>3, <5>1, <5>2, NamesInOrder
      <4> QED BY <1>1, <3>1, <3>3, <4>1, <4>2, <4>3
    <3>6. ~Restart
      <4>1. UNCHANGED restarts
        BY <2>8 DEF TrackOrder, HandleNotification, ShowResult, vars
      <4>2. restarts \in Int
        BY <1>1, BoundsAssumption DEF TypeOK
      <4> QED BY <4>1, <4>2 DEF Restart
    <3> QED BY <1>1, <1>5, <2>8, <3>1, <3>4, <3>5, <3>6, CardSteps DEF PublishRow
  <2>9. CASE Reload \/ Restart
    <3>1. /\ UNCHANGED <<published, row>> /\ StartListener
          /\ msg' = msg \/ (Restart /\ msg' = db_order_to_history_message(row))
      BY <2>1, <2>9 DEF Reload, Restart
    <3>2. fresh' \subseteq {published}
      BY <2>3, <3>1 DEF StartListener, Redelivered
    <3>3. ASSUME NEW i \in 1 .. published, Freshest(i) PROVE i = published
      <4>1. SUFFICES ASSUME i # published PROVE FALSE
        OBVIOUS
      <4>2. i \in 1 .. Len(trade.dms) /\ published \in 1 .. Len(trade.dms) /\ i < published
        BY <1>1, <4>1
      <4>3. trade.dms[i].ts <= trade.dms[published].ts
        BY <1>1, <1>2, <4>2 DEF RespawnedMoveForward, Respawns
      <4>4. trade.dms[published].ts < trade.dms[i].ts
        BY <1>1, <3>3, <4>2 DEF Freshest
      <4>5. trade.dms[i] \in Dms /\ trade.dms[published] \in Dms
        BY <1>1, <4>2, TradeTyped
      <4> QED BY <4>3, <4>4, <4>5 DEF Dms
    <3>4. Ahead \subseteq {published} /\ pc' \in {"idle", "lookup", "snapshot"}
      <4>1. /\ pc' \in {"idle", "lookup", "snapshot"}
            /\ pc' = "idle" \/ \E i \in 1 .. published : Freshest(i) /\ cur' = i
        BY <3>1 DEF StartListener, StartHandling, Finish
      <4> QED BY <3>2, <3>3, <4>1
    <3>5. Ahead \subseteq 1 .. Len(trade.dms)
      <4>1. fresh' \subseteq 1 .. published /\ (pc' # "idle" => cur' \in 1 .. published)
        BY <1>1, <3>1 DEF StartListener, StartHandling, Finish, Redelivered
      <4> QED BY <1>1, <4>1
    <3> HIDE DEF Ahead
    <3>6. RowBehind /\ CleanupBehind
      <4>1. ASSUME NEW i \in Ahead, NamesStatus(trade.dms[i]) PROVE Le(row.status, Cand(i))
        BY <1>1, <1>2, <2>1, <3>4, <3>5, <4>1, NamesInOrder
      <4> QED BY <3>1, <3>4, <4>1 DEF LaterPcs
    <3>7. CASE msg' = msg
      <4>1. \A k \in trade.early + 1 .. published : \A i \in Ahead : i >= k
        BY <1>1, <3>4
      <4> QED BY <2>4, <3>1, <3>6, <3>7, <4>1
    <3>8. CASE Restart /\ msg' = db_order_to_history_message(row)
      <4>1. msg'.status = row.status /\ msg'.action \in {"TakeBuy", "TakeSell"}
        BY <1>3, <1>5, <2>1, <3>8, HistoryRowSaid DEF Live
      <4>2. \A k \in trade.early + 1 .. published : ~Twins(trade.dms[k], msg')
        <5>1. \A k \in 1 .. Len(trade.dms) : trade.dms[k].action \notin {"TakeBuy", "TakeSell"}
          <6>1. \A k \in 1 .. Len(trade.dms) : trade.dms[k] \in Dms
            BY <1>1, TradeTyped
          <6> QED BY <6>1 DEF Dms
        <5> QED BY <1>1, <4>1, <5>1 DEF Twins
      <4> QED BY <1>3, <3>1, <3>6, <4>1, <4>2
    <3> QED BY <3>1, <3>7, <3>8
  <2>10. CASE Cleanup
    <3>1. /\ pc = "cleanup" /\ pc' = "idle" /\ UNCHANGED <<row, msg, published>> /\ fresh' \subseteq fresh
      BY <2>10 DEF Cleanup, Finish
    <3>2. row.status = trade.saved /\ cur <= trade.early /\ NextUp = {cur}
      BY <2>4, <3>1 DEF NextUp
    <3>3. RowBehind
      <4>1. fresh' \subseteq 1 .. Len(trade.dms)
        BY <1>1, <3>1
      <4> QED BY <1>1, <1>2, <3>1, <3>2, <4>1, NamesInOrder DEF LaterPcs
    <3>4. CardBehind
      <4>1. ASSUME msg # NoMsg, NEW k \in trade.early + 1 .. published, Twins(trade.dms[k], msg) PROVE FALSE
        BY <1>1, <2>4, <3>2, <4>1
      <4> QED BY <2>4, <3>1, <4>1
    <3> QED BY <3>1, <3>3, <3>4
  <2>11. CASE Snapshot
    <3>1. /\ pc = "snapshot" /\ UNCHANGED <<row, msg, published, cur>> /\ snap' = row
          /\ pc' \in {"dropTake", "upsertRead", "dispute"}
      BY <2>11 DEF Snapshot
    <3>2. Ahead = NextUp /\ NextKnown = row.status
      BY <2>1, <3>1 DEF NextUp
    <3> HIDE DEF Ahead, NextKnown
    <3> QED BY <2>4, <3>1, <3>2
  <2>12. CASE PublishRow
    <3>1. /\ pc = "publish" /\ pc' = "seen" /\ UNCHANGED <<row, published, cur>>
          /\ msg' = IF should_replace_row THEN order_message ELSE msg
      BY <2>12 DEF PublishRow
    <3>2. Ahead = {cur} /\ NextUp = {cur}
      BY <3>1 DEF NextUp
    <3>3. RowBehind /\ CleanupBehind
      <4> HIDE DEF Ahead
      <4> QED BY <2>4, <3>1, <3>2 DEF LaterPcs
    <3>4. CASE msg' = order_message
      <4>1. order_message.status = row.status /\ order_message.ts = dm.ts /\ order_message.action = dm.action
        BY <1>5, <3>1 DEF RowFollows, order_message
      <4>2. ASSUME NEW k \in trade.early + 1 .. published, Twins(trade.dms[k], order_message) PROVE k = cur
        <5>1. k \in 1 .. Len(trade.dms) /\ cur \in 1 .. Len(trade.dms)
          BY <1>1, <3>1
        <5>2. Twins(trade.dms[k], trade.dms[cur])
          BY <4>1, <4>2 DEF Twins, dm
        <5> QED BY <1>1, <1>2, <5>1, <5>2 DEF RespawnedMoveForward, Respawns
      <4>3. cur >= cur
        BY <1>1
      <4> HIDE DEF Ahead
      <4> QED BY <1>3, <3>1, <3>2, <3>3, <3>4, <4>1, <4>2, <4>3
    <3>5. CASE msg' = msg
      <4> HIDE DEF Ahead
      <4> QED BY <2>4, <3>1, <3>2, <3>3, <3>5
    <3> QED BY <3>1, <3>4, <3>5
  <2>13. CASE Handling /\ ~Cleanup /\ ~Snapshot /\ ~PublishRow
    <3>1. /\ pc # "idle" /\ pc' \notin {"idle", "cleanup"} /\ UNCHANGED <<cur, snap, published>>
          /\ msg' \in {msg, NoMsg} /\ (pc' \in LaterPcs => pc \in LaterPcs)
      BY <1>5, <2>2, <2>13 DEF Handling, NewOrderLookup, Forget, RevertStatus, LaterPcs,
         ReadForUpsert, WriteUpsert, RecordDispute, TrackChat, StatusWrite
    <3>2. Ahead = {cur} /\ NextUp = {cur} /\ NextKnown = Known /\ cur \in 1 .. Len(trade.dms)
      BY <1>1, <3>1 DEF NextUp, Known
    <3>3. row'.status = row.status \/ (NamesStatus(dm) /\ row'.status = Cand(cur))
      <4>1. status_candidate = Cand(cur)
        BY DEF status_candidate, Cand, dm
      <4>2. CASE WriteUpsert("upsertWrite", "dispute") /\ Upserts(dm) /\ row'.status = dm.status
                 /\ status_candidate = dm.status
        <5>1. pc \in LaterPcs
          BY <4>2 DEF WriteUpsert, LaterPcs
        <5>2. status_candidate # NoStatus
          BY <1>1, <3>1, <4>2, HandledTold DEF Told, NoStatus
        <5> QED BY <1>1, <1>2, <1>5, <4>1, <4>2, <5>1, <5>2, HandledSaid DEF Settings
      <4>3. CASE StatusWrite /\ StatusToWrite # NoStatus /\ row'.status = StatusToWrite
        <5>1. pc \in LaterPcs
          BY <4>3 DEF StatusWrite, LaterPcs
        <5>2. status_candidate # NoStatus
          BY <4>3 DEF StatusToWrite, should_accept_candidate
        <5>3. NamesStatus(dm)
          BY <1>1, <1>2, <1>5, <5>1, <5>2, HandledSaid DEF Settings
        <5>4. Le(Known, Cand(cur))
          BY <2>4, <3>2, <5>1, <5>3 DEF dm
        <5>5. CASE should_accept_candidate
          BY <4>1, <4>3, <5>3, <5>5 DEF StatusToWrite
        <5>6. CASE ~should_accept_candidate
          <6>1. snap # NoRow
            BY <4>3, <5>6 DEF StatusToWrite, status_from_db
          <6>2. should_accept_candidate <=> status_candidate # NoStatus /\ Le(snap.status, status_candidate)
            BY <1>1, <3>1, <6>1, KnownDecides DEF IInv, Control
          <6> QED BY <4>1, <5>2, <5>4, <5>6, <6>1, <6>2 DEF Known
        <5> QED BY <5>5, <5>6
      <4> QED BY <1>2, <1>3, <1>5, <4>2, <4>3, LiveStatusSteps DEF Settings
    <3> HIDE DEF Ahead, NextKnown
    <3>4. RowBehind /\ CleanupBehind
      BY <1>3, <2>4, <3>1, <3>2, <3>3
    <3>5. CASE row'.status = row.status
      BY <2>4, <3>1, <3>2, <3>4, <3>5
    <3>6. CASE NamesStatus(dm) /\ row'.status = Cand(cur)
      <4>1. Le(row.status, Cand(cur))
        BY <2>4, <3>2, <3>6 DEF dm
      <4>2. row.status \in Statuses
        BY <1>2, <2>1 DEF Rows, StatusOpt, Said
      <4>3. msg # NoMsg => Le(msg.status, Cand(cur))
        BY <2>4, <4>1, <4>2, LeOrders
      <4>4. ASSUME msg # NoMsg, Twins(trade.dms[published], msg), published \in trade.early + 1 .. published
            PROVE  Cand(cur) = msg.status
        <5>1. cur >= published
          BY <2>4, <3>2, <4>4
        <5>2. cur = published
          BY <1>1, <5>1
        <5> QED BY <1>5, <3>2, <3>6, <4>3, <4>4, <5>2 DEF Settings, CardSaid, TwinsAreShown, dm
      <4> QED BY <2>4, <3>1, <3>2, <3>4, <3>6, <4>3, <4>4
    <3> QED BY <3>3, <3>5, <3>6
  <2> QED BY <1>5, <2>2, <2>6, <2>7, <2>8, <2>9, <2>10, <2>11, <2>12, <2>13 DEF Next, ListenerNext, Handling
<1> QED BY <1>2, <1>3, <1>4, <1>5, LivesOn

RowsInv == Settings /\ RowFollows /\ NoCursor

LEMMA InitRows == ASSUME Init PROVE RowsInv
<1>1. published = 0 /\ trade.early \in Nat
  BY TradeTyped DEF Init
<1>2. EarlySays /\ ResultInTime /\ LateTask /\ CursorKept /\ CaseRows
  BY DEF Init, EarlySays, ResultInTime, LateTask, CursorKept, CaseRows, Live, LaterPcs
<1>3. CardSaid /\ RowSaid /\ PriorIsShown /\ PlaceholderFits /\ LostAreLost
  BY DEF Init, CardSaid, RowSaid, PriorIsShown, PlaceholderFits, LostAreLost, Live
<1>4. RowFollows /\ NoCursor
  BY DEF Init, RowFollows, NoCursor, Live
<1> QED BY <1>2, <1>3, <1>4 DEF RowsInv, Settings

LEMMA RowsInvariant ==
  ASSUME OrdersNameTheirStatus, RepliesAgree, TwinsAgree, TakesAreRespawned, RespawnedMoveForward
  PROVE  Spec => []RowsInv
<1>1. Init => RowsInv
  BY InitRows
<1>2. IInv /\ UpsertsOnly /\ ToldInv /\ LifeInv /\ RowsInv /\ [Next]_vars => RowsInv'
  <2>1. SUFFICES ASSUME IInv, UpsertsOnly, ToldInv, LifeInv, RowsInv, [Next]_vars PROVE RowsInv'
    OBVIOUS
  <2>2. Settings /\ RowFollows /\ NoCursor
    BY <2>1 DEF RowsInv
  <2>3. EarlySays' /\ ResultInTime' /\ LateTask' /\ CursorKept' /\ CaseRows'
    BY <2>1, <2>2, EarlySaysStep, ResultInTimeStep, LateTaskStep, CursorKeptStep, CaseRowsStep DEF Settings
  <2>4. CardSaid' /\ RowSaid' /\ PriorIsShown' /\ PlaceholderFits' /\ LostAreLost'
    BY <2>1, <2>2, CardSaidStep, RowSaidStep, PriorIsShownStep, PlaceholderFitsStep, LostAreLostStep
  <2>5. RowFollows' /\ NoCursor'
    BY <2>1, <2>2, RowFollowsStep, NoCursorStep
  <2> QED BY <2>3, <2>4, <2>5 DEF RowsInv, Settings
<1> QED BY <1>1, <1>2, Invariance, ToldInvariant, LifeInvariant, PTL DEF Spec

\* For every conversation that names its statuses in order where the listener is
\* respawned in it: between two messages the Messages tab shows the status the database
\* holds, whatever was interrupted between the two writes (handle_trade_dm_for_order), but
\* for an order of the user's own that was deleted.
THEOREM RowsAlwaysAgree ==
  ASSUME OrdersNameTheirStatus, RepliesAgree, TwinsAgree, TakesAreRespawned, RespawnedMoveForward
  PROVE  Spec => [](~trade.maker \/ ~Forgotten => RowsAgree)
<1>1. LifeInv /\ RowsInv => (~trade.maker \/ ~Forgotten => RowsAgree)
  <2> SUFFICES ASSUME LifeInv, RowsInv, ~trade.maker \/ ~Forgotten, row # NoRow, msg # NoMsg,
                      AtRest, reloads > 0 => Quiescent /\ tracked, ~StoredAnew
               PROVE  msg.status = row.status
    BY DEF RowsAgree
  <2>1. Live
    BY DEF Live, LifeInv, DeletedForGood, StoredAnew
  <2>2. Agree(row.status, msg, fresh)
    BY <2>1 DEF RowsInv, RowFollows, AtRest, StartPcs, Judged, Card, ToCome, LaterPcs
  <2> QED BY <2>2 DEF Agree, Quiescent
<1> QED BY <1>1, LifeInvariant, RowsInvariant, PTL

-----------------------------------------------------------------------------
(* The timeline of the card.                                               *)

\* A word that the fiat is confirmed, or about the rating, on the card was sent.
CardTold ==
  msg # NoMsg /\ msg.action \in RateActions \cup ReleaseActions =>
    \E k \in 1 .. published : Twins(trade.dms[k], msg)

\* The card that was looked at under the lock is still there, and showed what the row
\* said; where there was none, the placeholder that came meanwhile does.
CardStands ==
  (Live \/ Awaited) /\ pc \in {"statusWrite", "publish"} /\ msg # NoMsg =>
    IF prior = NoMsg
    THEN msg.status = Known /\ msg.action \in {"AddInvoice", "NewOrder"} /\ trade.reply # "payment"
    ELSE msg.kind = prior.kind /\ (pc = "publish" /\ reloads = 0 => prior.status = Known)

\* The rows that are made outside the listener tell of no end.
LEMMA MadeRows ==
  /\ \A s \in BOOLEAN : /\ ResultRow("NewOrder", s).action = "NewOrder"
                        /\ ResultRow("AddInvoice", s).action = "AddInvoice"
  /\ db_order_to_history_message(row).action \in {"TakeBuy", "TakeSell", "PayBondInvoice", "NewOrder"}
  BY DEF ResultRow, db_order_to_history_message

LEMMA CardToldStep ==
  ASSUME TypeOK, CardTold, [Next]_vars
  PROVE  CardTold'
<1>1. /\ UNCHANGED trade /\ published \in Nat
      /\ \A i \in 1 .. published : i \in 1 .. published'
  BY SaidGrows DEF TypeOK
<1>2. SUFFICES ASSUME msg' # NoMsg, msg'.action \in RateActions \cup ReleaseActions
               PROVE  \E k \in 1 .. published : trade.dms[k].ts = msg'.ts /\ trade.dms[k].action = msg'.action
  BY <1>1 DEF CardTold, Twins
<1>3. CASE msg # NoMsg /\ msg'.ts = msg.ts /\ msg'.action = msg.action
  BY <1>2, <1>3 DEF CardTold, Twins
<1>4. CASE PublishRow /\ msg' = order_message
  <2>1. cur \in 1 .. published
    BY <1>4 DEF PublishRow, TypeOK
  <2>2. order_message.ts = trade.dms[cur].ts /\ order_message.action = trade.dms[cur].action
    BY DEF order_message, dm
  <2> QED BY <1>4, <2>1, <2>2
<1> QED BY <1>2, <1>3, <1>4, CardSteps, MadeRows DEF RateActions, ReleaseActions

LEMMA CardStandsStep ==
  ASSUME TakesAreRespawned, IInv, LifeInv, Settings, RowFollows, CardStands, [Next]_vars
  PROVE  CardStands'
<1> USE DEF world, ui, locals, history, listener, Goto
<1>1. TypeOK /\ UNCHANGED trade /\ NothingStoredYet /\ AwaitedIsNew
  BY ShownSources DEF IInv, LifeInv, Control
<1>2. SUFFICES ASSUME Live' \/ Awaited', pc' \in {"statusWrite", "publish"}, msg' # NoMsg
               PROVE  IF prior' = NoMsg
                      THEN /\ msg'.status = Known' /\ msg'.action \in {"AddInvoice", "NewOrder"}
                           /\ trade.reply # "payment"
                      ELSE msg'.kind = prior'.kind /\ (pc' = "publish" /\ reloads' = 0 => prior'.status = Known')
  BY <1>1 DEF CardStands
<1>3. ~Restart /\ ~Reload
  BY <1>1, <1>2, LaterSteps DEF LaterPcs
<1>4. Live \/ Awaited
  <2>1. Awaited' => Awaited
    BY DEF Awaited, Next, ListenerNext, Handling, NewOrderLookup, DropTake, Forget, RevertStatus,
       SaveChild, ReadForUpsert, WriteUpsert, Snapshot, RecordDispute, TrackChat, StatusWrite, PublishRow,
       AdvanceCursor, Cleanup, TrackOrder, Receive, Publish, SaveOrder, ShowResult, HandleNotification,
       DeleteOrder, ForgetDeleted, Restart, Reload, vars
  <2> QED BY <1>2, <1>3, <2>1, LivesOn
<1>5. ~ForgetDeleted
  BY <1>1, <1>4 DEF Live, Forgotten, ForgetDeleted, AwaitedIsNew
<1>6. CASE TrackChat
  BY <1>2, <1>6 DEF TrackChat
<1>7. CASE ~TrackChat
  <2>1. /\ pc \in {"statusWrite", "publish"} /\ prior' = prior /\ Known' = Known /\ reloads' = reloads
        /\ ~PublishRow /\ (pc' = "publish" => pc = "publish" \/ StatusWrite)
    <3>1. CASE Handling
      BY <1>1, <1>2, <1>7, <3>1 DEF Handling, NewOrderLookup, DropTake, Forget, RevertStatus,
         SaveChild, ReadForUpsert, WriteUpsert, Snapshot, RecordDispute, StatusWrite, PublishRow,
         AdvanceCursor, Cleanup, Finish, Known
    <3>2. CASE ~Handling
      BY <1>1, <1>2, <1>3, <3>2 DEF Next, ListenerNext, TrackOrder, Receive, StartHandling, Publish, SaveOrder,
         ShowResult, HandleNotification, DeleteOrder, ForgetDeleted, vars, Handling, Known
    <3> QED BY <3>1, <3>2
  <2>2. CASE msg # NoMsg
    <3>1. msg'.status = msg.status /\ msg'.action = msg.action /\ msg'.kind = msg.kind
      BY <1>1, <1>2, <1>3, <1>5, <2>1, <2>2, CardSteps
    <3>2. CASE pc = "publish" \/ prior = NoMsg \/ pc' = "statusWrite"
      BY <1>2, <1>4, <2>1, <2>2, <3>1, <3>2 DEF CardStands
    <3>3. CASE pc = "statusWrite" /\ prior # NoMsg
      <4>1. reloads = 0 /\ Live => prior.status = Known
        BY <3>3 DEF RowFollows, StartPcs, LaterPcs, Judged, Card, Agree
      <4>2. Awaited => prior.status = Known
        BY <3>3 DEF Settings, EarlySays, Known
      <4> QED BY <1>4, <2>1, <2>2, <3>1, <3>3, <4>1, <4>2 DEF CardStands
    <3> QED BY <2>1, <3>2, <3>3
  <2>3. CASE msg = NoMsg
    <3>1. /\ "result" \in inbox /\ trade.reply # "payment"
          /\ msg' \in {ResultRow("NewOrder", FALSE), ResultRow("AddInvoice", TRUE)}
      BY <1>1, <1>2, <1>3, <1>5, <2>1, <2>3, CardSteps DEF ShowResult
    <3>2. msg'.status = trade.saved /\ msg'.action \in {"AddInvoice", "NewOrder"}
      BY <3>1 DEF ResultRow
    <3>3. Live
      BY <1>4, <3>1 DEF LifeInv, AwaitedIsNew
    <3>4. prior = NoMsg /\ Known = trade.saved
      BY <2>1, <2>3, <3>1, <3>3 DEF Settings, PlaceholderFits, LaterPcs
    <3> QED BY <2>1, <3>1, <3>2, <3>4
  <2> QED BY <2>2, <2>3
<1> QED BY <1>6, <1>7

\* Where a status lets the trade go, the highlighted column is no earlier one.
LEMMA ColumnsGrow ==
  ASSUME NEW k \in Kinds, NEW s \in Statuses, NEW t \in Statuses \ OffPath,
         should_apply_status_transition(s, t, k)
  PROVE  /\ listing_step_from_status(k, t) >= listing_step_from_status(k, s)
         /\ listing_step_from_status(k, s) \in 0 .. 6 /\ listing_step_from_status(k, t) \in 0 .. 6
         /\ s # "Success" => listing_step_from_status(k, s) <= 4
         /\ s \in TerminalTradeStatuses \/ s = "Success" => t = "Success"
<1>1. k \in {"buy", "sell"}
  BY DEF Kinds
<1>2. CASE s = t
  BY <1>1, <1>2 DEF listing_step_from_status, OffPath, TerminalTradeStatuses
<1>3. CASE s # t
  <2>1. /\ s \notin TerminalTradeStatuses
        /\ t = "Success" \/ RankAllows(s, t, k)
    BY <1>3 DEF should_apply_status_transition, is_terminal_trade_status, OffPath, NoStatus, Statuses,
       TerminalTradeStatuses, PreActiveStatuses
  <2>2. /\ s \in Statuses \ TerminalTradeStatuses
        /\ listing_step_from_status(k, s) \in 0 .. 4 /\ s # "Success"
    BY <1>1, <2>1 DEF listing_step_from_status, TerminalTradeStatuses
  <2>3. CASE t = "Success"
    BY <2>2, <2>3 DEF listing_step_from_status
  <2>4. CASE RankAllows(s, t, k) /\ t # "Success"
    <3>1. t \in {"Pending", "WaitingTakerBond", "WaitingMakerBond", "WaitingPayment", "WaitingBuyerInvoice",
                 "SettledHoldInvoice", "Active", "InProgress", "FiatSent"}
      BY <2>4 DEF Statuses, OffPath, TerminalTradeStatuses, PreActiveStatuses
    <3>2. CASE k = "buy"
      BY <2>2, <2>4, <3>1, <3>2 DEF RankAllows, status_phase_rank_for_actor, FirstPhase, NoKind, NoRank,
         listing_step_from_status, Statuses, TerminalTradeStatuses, PreActiveStatuses
    <3>3. CASE k = "sell"
      BY <2>2, <2>4, <3>1, <3>3 DEF RankAllows, status_phase_rank_for_actor, FirstPhase, NoKind, NoRank,
         listing_step_from_status, Statuses, TerminalTradeStatuses, PreActiveStatuses
    <3> QED BY <1>1, <3>2, <3>3
  <2> QED BY <2>1, <2>3, <2>4, <2>2
<1> QED BY <1>2, <1>3

\* The step of a card of known kind.
LEMMA StepOfCard ==
  ASSUME NEW m, m.kind \in Kinds, m.status \in Statuses
  PROVE  message_trade_timeline_step(m) =
           IF m.action \in RateActions /\ m.status \notin OffPath THEN 6
           ELSE IF m.action \in ReleaseActions /\ m.status \notin OffPath \cup {"Success"} THEN 5
           ELSE listing_step_from_status(m.kind, m.status)
<1>1. m.kind # NoKind /\ m.status # NoStatus
  BY DEF Kinds, NoKind, Statuses, NoStatus, TerminalTradeStatuses, PreActiveStatuses
<1> QED BY <1>1 DEF message_trade_timeline_step, timeline_blocks_post_fiat_action_override, RateActions,
           ReleaseActions

\* A card that comes after another one has no earlier step, if after a word that the fiat
\* is confirmed it shows the success, or an action that comes no earlier.
LEMMA StepsGrow ==
  ASSUME NEW m, NEW n, m.kind \in Kinds, n.kind = m.kind,
         m.status \in Statuses, n.status \in Statuses \ OffPath,
         should_apply_status_transition(m.status, n.status, m.kind),
         m.action \in RateActions \cup ReleaseActions =>
           \/ n.status = "Success"
           \/ n.action \in RateActions
           \/ m.action \in ReleaseActions /\ n.action \in ReleaseActions
  PROVE  message_trade_timeline_step(n) >= message_trade_timeline_step(m)
<1> DEFINE a == listing_step_from_status(m.kind, m.status)
           b == listing_step_from_status(m.kind, n.status)
<1>1. /\ b >= a /\ a \in 0 .. 6 /\ b \in 0 .. 6
      /\ m.status # "Success" => a <= 4
      /\ m.status \in TerminalTradeStatuses \/ m.status = "Success" => n.status = "Success"
  BY ColumnsGrow
<1>2. n.status = "Success" => b = 6
  BY DEF listing_step_from_status
<1>3. n.status \in Statuses /\ n.status \notin OffPath
  OBVIOUS
<1>4. RateActions \cap ReleaseActions = {}
  BY DEF RateActions, ReleaseActions
<1> HIDE DEF a, b
<1>5. message_trade_timeline_step(n) =
        IF n.action \in RateActions THEN 6
        ELSE IF n.action \in ReleaseActions /\ n.status # "Success" THEN 5 ELSE b
  BY <1>3, StepOfCard DEF b
<1>6. message_trade_timeline_step(m) =
        IF m.action \in RateActions /\ m.status \notin OffPath THEN 6
        ELSE IF m.action \in ReleaseActions /\ m.status \notin OffPath \cup {"Success"} THEN 5 ELSE a
  BY StepOfCard DEF a
<1> QED BY <1>1, <1>2, <1>4, <1>5, <1>6

\* The listener's card comes after the one it replaces.
LEMMA PublishedLater ==
  ASSUME AfterFiat, OrdersNameTheirStatus, RepliesAgree,
         IInv, ToldInv, LifeInv, Settings, CardTold, CardStands,
         Live \/ Awaited, pc = "publish", reloads = 0, msg # NoMsg, msg.kind # NoKind,
         order_message.status \notin OffPath, order_message.ts >= msg.ts
  PROVE  message_trade_timeline_step(order_message) >= message_trade_timeline_step(msg)
<1>1. /\ TypeOK /\ trade \in Trades /\ trade.kind \in Kinds /\ KindsAgree /\ SnapshotTaken /\ AwaitedIsNew
      /\ cur \in 1 .. published /\ published \in Nat /\ published <= Len(trade.dms) /\ Len(trade.dms) \in Nat
      /\ trade.saved \in Statuses /\ trade.early \in Nat
  BY TradeTyped DEF IInv, LifeInv, Control, TypeOK
<1>2. msg.kind = trade.kind /\ msg \in Msgs /\ msg.status \in StatusOpt
  BY <1>1 DEF TypeOK, KindsAgree, Msgs
<1>3. msg.status \in Statuses
  BY <1>2 DEF Settings, CardSaid, Said, StatusOpt
<1>4. /\ order_message.status = effective_order_status /\ order_message.kind = effective_order_kind
      /\ order_message.action = dm.action /\ order_message.ts = dm.ts
  BY DEF order_message
\* The statuses.
<1>5. msg.status = Known
  <2>1. CASE prior = NoMsg
    BY <2>1 DEF CardStands
  <2>2. CASE prior # NoMsg
    BY <2>2 DEF CardStands, Settings, PriorIsShown
  <2> QED BY <2>1, <2>2
<1>6. /\ effective_order_status \in Statuses /\ Le(msg.status, effective_order_status)
      /\ status_candidate # NoStatus =>
           \/ effective_order_status = status_candidate
           \/ effective_order_status = msg.status /\ ~Le(msg.status, status_candidate)
  <2>1. CASE snap # NoRow
    <3>1. /\ baseline_status = msg.status
          /\ should_accept_candidate <=> status_candidate # NoStatus /\ Le(msg.status, status_candidate)
      BY <1>1, <1>5, <2>1, KnownDecides DEF Known
    <3>2. status_candidate \in StatusOpt
      BY <1>1, LocalsTyped
    <3> QED BY <1>3, <3>1, <3>2, LeOrders DEF effective_order_status, StatusOpt
  <2>2. CASE snap = NoRow
    <3>1. effective_order_status = trade.saved /\ status_candidate = trade.saved /\ msg.status = trade.saved
      BY <2>2, EarlyDecided DEF Settings, LaterPcs
    <3> QED BY <1>1, <3>1, LeOrders
  <2> QED BY <2>1, <2>2
<1>7. msg.action \in RateActions \cup ReleaseActions =>
        \/ effective_order_status = "Success"
        \/ dm.action \in RateActions
        \/ msg.action \in ReleaseActions /\ dm.action \in ReleaseActions
  <2>1. SUFFICES ASSUME msg.action \in RateActions \cup ReleaseActions,
                        status_candidate \in TerminalTradeStatuses
                 PROVE  effective_order_status = "Success"
    <3>1. ASSUME msg.action \in RateActions \cup ReleaseActions
          PROVE  \/ status_candidate \in TerminalTradeStatuses
                 \/ dm.action \in RateActions
                 \/ msg.action \in ReleaseActions /\ dm.action \in ReleaseActions
      <4>1. PICK k \in 1 .. published : Twins(trade.dms[k], msg)
        BY <3>1 DEF CardTold
      <4>2. /\ k \in 1 .. Len(trade.dms) /\ cur \in 1 .. Len(trade.dms)
            /\ trade.dms[k].action = msg.action /\ dm.ts >= trade.dms[k].ts
        BY <1>1, <1>4, <4>1 DEF Twins
      <4> QED BY <1>1, <3>1, <4>2 DEF AfterFiat, dm, status_candidate
    <3> QED BY <3>1
  <2>2. status_candidate # NoStatus
    BY <2>1 DEF TerminalTradeStatuses, NoStatus
  <2>3. effective_order_status \in TerminalTradeStatuses
    <3>1. msg.status \notin TerminalTradeStatuses => Le(msg.status, status_candidate)
      BY <2>1 DEF Le, should_apply_status_transition, is_terminal_trade_status
    <3> QED BY <1>6, <2>1, <2>2, <3>1
  <2> QED BY <1>4, <2>3 DEF OffPath
\* The kinds.
<1>8. CASE effective_order_kind = trade.kind
  BY <1>1, <1>2, <1>3, <1>4, <1>6, <1>7, <1>8, StepsGrow DEF Le
<1>9. CASE effective_order_kind # trade.kind
  <2>1. /\ prior = NoMsg /\ snap = NoRow /\ ~small_order_ref_from_payload(dm)
        /\ effective_order_kind = NoKind
    <3>1. prior # NoMsg => prior.kind = trade.kind
      BY <1>2 DEF CardStands
    <3>2. dm.action \notin {"TakeBuy", "TakeSell"}
      BY <1>1, HandledTold
    <3>3. trade.kind # NoKind
      BY <1>1 DEF Kinds, NoKind
    <3> QED BY <1>9, <3>1, <3>2, <3>3 DEF effective_order_kind
  <2>2. /\ msg.action \in {"AddInvoice", "NewOrder"} /\ trade.reply = "addInvoice"
        /\ dm.action = "AddInvoice" /\ status_candidate = trade.saved /\ msg.status = trade.saved
    <3>1. /\ msg.action \in {"AddInvoice", "NewOrder"} /\ trade.reply # "payment"
      BY <2>1 DEF CardStands
    <3>2. /\ ~trade.maker /\ cur <= trade.early /\ status_candidate = trade.saved /\ msg.status = trade.saved
      BY <2>1, EarlyDecided DEF Settings, LaterPcs
    <3>3. trade.reply = "addInvoice"
      BY <1>1, <3>1, <3>2, TradeTyped DEF RepliesAgree
    <3> QED BY <1>1, <3>1, <3>2, <3>3 DEF RepliesAgree, dm
  <2>3. msg.status = "WaitingBuyerInvoice"
    BY <2>1, <2>2 DEF status_candidate, resolved_status_candidate, inferred_status_from_trade_action
  <2>4. message_trade_timeline_step(msg) \in {1, 2}
    <3>1. message_trade_timeline_step(msg) = listing_step_from_status(msg.kind, msg.status)
      BY <1>1, <1>2, <1>3, <2>2, StepOfCard DEF RateActions, ReleaseActions
    <3> QED BY <2>3, <3>1 DEF listing_step_from_status
  <2>5. message_trade_timeline_step(order_message) = 2
    <3>1. order_message.kind = NoKind /\ order_message.action = "AddInvoice"
      BY <1>4, <2>1, <2>2
    <3>2. listing_flow_step_from_action(NoKind, "AddInvoice") = 2
      BY DEF listing_flow_step_from_action, NoKind, RateActions, ReleaseActions
    <3> QED BY <3>1, <3>2 DEF message_trade_timeline_step
  <2> QED BY <2>4, <2>5
<1> QED BY <1>8, <1>9

\* For every conversation in which nothing but the end and the rating follows a word
\* that the fiat is confirmed: as long as the order is awaited or is stored and the
\* user's, no message that is not older than the card moves its timeline back
\* (message_trade_timeline_step).
THEOREM TimelineMovesForward ==
  ASSUME AfterFiat, OrdersNameTheirStatus, RepliesAgree, TwinsAgree, TakesAreRespawned, RespawnedMoveForward
  PROVE  Spec /\ [](Live \/ Awaited) => TimelineOnlyForward
<1>1. Init => CardTold /\ CardStands
  BY DEF Init, CardTold, CardStands
<1>2. IInv /\ LifeInv /\ RowsInv /\ CardTold /\ CardStands /\ [Next]_vars => (CardTold /\ CardStands)'
  BY CardToldStep, CardStandsStep DEF IInv, RowsInv
<1>3. IInv /\ ToldInv /\ LifeInv /\ RowsInv /\ CardTold /\ CardStands /\ (Live \/ Awaited) /\ [Next]_vars
        => [TimelineKept]_msg
  <2>1. SUFFICES ASSUME IInv, ToldInv, LifeInv, RowsInv, CardTold, CardStands, Live \/ Awaited, [Next]_vars,
                        restarts' = restarts, reloads' = 0, msg # NoMsg, msg' # NoMsg, msg.kind # NoKind,
                        msg'.status \notin OffPath, msg'.ts >= msg.ts, msg' # msg
                 PROVE  message_trade_timeline_step(msg') >= message_trade_timeline_step(msg)
    BY DEF TimelineKept
  <2>2. TypeOK /\ AwaitedIsNew
    BY <2>1 DEF IInv, LifeInv
  <2>3. ~Restart
    <3>1. restarts \in Nat
      BY <2>2 DEF TypeOK
    <3> QED BY <2>1, <3>1 DEF Restart
  <2>4. ~ForgetDeleted
    BY <2>1, <2>2 DEF Live, Forgotten, ForgetDeleted, AwaitedIsNew
  <2>5. CASE PublishRow /\ msg' = order_message
    <3>1. pc = "publish" /\ reloads = 0
      BY <2>1, <2>5 DEF PublishRow, world
    <3> QED BY <2>1, <2>5, <3>1, PublishedLater DEF RowsInv
  <2>6. CASE msg'.status = msg.status /\ msg'.action = msg.action /\ msg'.kind = msg.kind
    <3>1. message_trade_timeline_step(msg') = message_trade_timeline_step(msg)
      BY <2>6 DEF message_trade_timeline_step
    <3>2. message_trade_timeline_step(msg) \in Int
      BY DEF message_trade_timeline_step, listing_step_from_status, listing_flow_step_from_action
    <3> QED BY <3>1, <3>2
  <2> QED BY <2>1, <2>2, <2>3, <2>4, <2>5, <2>6, CardSteps
<1> QED BY <1>1, <1>2, <1>3, Invariance, ToldInvariant, LifeInvariant, RowsInvariant, PTL
        DEF Spec, TimelineOnlyForward

-----------------------------------------------------------------------------
(* The settled card.                                                       *)

\* A card that tells of a cancel or of confirmed fiat shows a status that goes with it.
EndsShown ==
  msg # NoMsg =>
    /\ msg.action \in {"Canceled", "AdminCanceled"} => msg.status \in CanceledStatuses
    /\ msg.action \in ReleaseActions /\ msg.kind # NoKind => msg.status \in {"FiatSent", "Success"} \cup OffPath

\* A message that came after the order was stored, and was handled, left its time.
SeenIsStored ==
  Live => /\ pc = "cleanup" /\ cur > trade.early => row.seen # NoTs
          /\ \A i \in handled : i > trade.early => row.seen # NoTs

\* A message that ends the trade has been stored when the card is about to show it.
OutcomeIsWritten ==
  /\ Live /\ pc \in {"publish", "seen", "cleanup"}
  /\ trade_message_is_terminal(dm) \/ status_candidate = "Success"
  => row.status \in TerminalTradeStatuses

\* A listing that is reverted had not ended.
RevertedIsOpen ==
  Live /\ pc \in {"revertRead", "revertWrite", "revertStatus"} => row.status \notin TerminalTradeStatuses

\* A success that was handled is stored, or will be handled again.
SuccessKept ==
  Live => \A i \in handled : i > trade.early /\ Cand(i) = "Success" =>
    Judged \in TerminalTradeStatuses \/ i \in ToCome

\* An end that is told is decided, or another one that was known before.
LEMMA EndDecided ==
  ASSUME status_candidate \in TerminalTradeStatuses
  PROVE  /\ effective_order_status \in TerminalTradeStatuses
         /\ effective_order_status \in {status_candidate, baseline_status}
BY DEF effective_order_status, should_accept_candidate, should_apply_status_transition, is_terminal_trade_status,
   TerminalTradeStatuses, NoStatus

LEMMA EndsDecided ==
  ASSUME OutcomesAreTold, OrdersNameTheirStatus, TypeOK, KindsAgree, ToldInv, pc # "idle"
  PROVE  /\ dm.action \in {"Canceled", "AdminCanceled"} => effective_order_status \in CanceledStatuses
         /\ dm.action \in ReleaseActions /\ effective_order_kind # NoKind =>
              effective_order_status \in {"FiatSent", "Success"} \cup OffPath
<1>1. cur \in 1 .. Len(trade.dms) /\ trade \in Trades /\ trade.kind \in Kinds
  BY TradeTyped DEF TypeOK
<1>2. ASSUME dm.action \in {"Canceled", "AdminCanceled"}
      PROVE  effective_order_status \in CanceledStatuses
  <2>1. trade_message_is_terminal(dm)
    BY <1>2 DEF trade_message_is_terminal, ClosingActions
  <2>2. effective_order_status \in TerminalTradeStatuses
    BY <2>1, TerminalCandidate, EndDecided
  <2>3. effective_order_status \in Spoken(trade)
    BY <2>2, DecidedTold DEF Told, TerminalTradeStatuses, NoStatus
  <2>4. Spoken(trade) \cap {"Success", "SettledByAdmin", "CompletedByAdmin"} = {}
    BY <1>1, <1>2 DEF OutcomesAreTold, dm
  <2> QED BY <2>2, <2>3, <2>4 DEF TerminalTradeStatuses, CanceledStatuses
<1>3. ASSUME dm.action \in ReleaseActions, effective_order_kind # NoKind
      PROVE  effective_order_status \in {"FiatSent", "Success"} \cup OffPath
  <2>1. status_candidate \in {"FiatSent", "Success"}
    BY <1>1, <1>3 DEF OutcomesAreTold, dm, status_candidate
  <2>2. baseline_status \in StatusOpt
    BY <1>1, LocalsTyped
  <2>3. CASE status_candidate = "Success"
    BY <2>3, EndDecided DEF TerminalTradeStatuses, OffPath
  <2>4. CASE status_candidate = "FiatSent" /\ ~should_accept_candidate
    <3>1. /\ \/ ~RankAllows(baseline_status, "FiatSent", effective_order_kind)
             \/ baseline_status \in TerminalTradeStatuses
          /\ baseline_status # NoStatus /\ effective_order_status = baseline_status
      BY <2>4 DEF should_accept_candidate, should_apply_status_transition, is_terminal_trade_status, NoStatus,
         effective_order_status
    <3>2. baseline_status \in Statuses
      BY <2>2, <3>1 DEF StatusOpt
    <3>3. baseline_status \notin {"Dispute", "Success"} \cup OffPath =>
            status_phase_rank_for_actor(baseline_status, effective_order_kind) \in 0 .. 4
      BY <1>3, <3>2 DEF status_phase_rank_for_actor, Statuses, PreActiveStatuses, TerminalTradeStatuses, OffPath
    <3>4. status_phase_rank_for_actor("FiatSent", effective_order_kind) = 4
      BY DEF status_phase_rank_for_actor
    <3>5. baseline_status \in {"Dispute", "Success"} \cup OffPath
      BY <3>1, <3>3, <3>4 DEF RankAllows, NoRank, OffPath
    <3> QED BY <3>1, <3>5 DEF OffPath
  <2>5. CASE should_accept_candidate
    BY <2>1, <2>5 DEF effective_order_status
  <2> QED BY <2>1, <2>3, <2>4, <2>5
<1> QED BY <1>2, <1>3

LEMMA EndsShownStep ==
  ASSUME OutcomesAreTold, OrdersNameTheirStatus, IInv, ToldInv, EndsShown, [Next]_vars
  PROVE  EndsShown'
<1>1. TypeOK /\ KindsAgree
  BY DEF IInv, Control
<1>2. CASE msg # NoMsg /\ msg'.status = msg.status /\ msg'.action = msg.action /\ msg'.kind = msg.kind
  BY <1>2 DEF EndsShown
<1>3. CASE PublishRow /\ msg' = order_message
  <2>1. pc # "idle"
    BY <1>3 DEF PublishRow
  <2>2. /\ order_message.status = effective_order_status /\ order_message.kind = effective_order_kind
        /\ order_message.action = dm.action
    BY DEF order_message
  <2> HIDE DEF PublishRow
  <2> QED BY <1>1, <1>3, <2>1, <2>2, EndsDecided DEF EndsShown
<1> QED BY <1>1, <1>2, <1>3, CardSteps, MadeRows DEF EndsShown, ReleaseActions

\* A live order was live before, or has just been stored.
LEMMA StaysLive ==
  ASSUME TakesAreRespawned, IInv, LifeInv, ~trade.maker \/ ~Forgotten, [Next]_vars, Live'
  PROVE  \/ /\ Live /\ ~SaveOrder /\ ~SaveChild /\ ~DropTake /\ ~DeleteOrder /\ ~ForgetDeleted
            /\ row # NoRow /\ row' # NoRow /\ ~dropped
         \/ Awaited /\ SaveOrder
<1>1. CASE trade.maker /\ Restart /\ UNCHANGED row
  <2>1. UNCHANGED trade
    BY <1>1 DEF Restart
  <2> QED BY <1>1, <2>1, LivesOn DEF Live, StoredAnew, Restart, SaveOrder, SaveChild, DropTake, DeleteOrder,
             ForgetDeleted, Forgotten, world
<1>2. CASE Live
  BY <1>2, LivesOn DEF Live, Forgotten, Restart, SaveOrder, SaveChild, DropTake, DeleteOrder, ForgetDeleted
<1> QED BY <1>1, <1>2, LivesOn

\* A payment request without an invoice says nothing that would have to be stored.
LEMMA NoInvoice ==
  ASSUME OrdersNameTheirStatus, TypeOK, pc # "idle", IsInvoice(dm), ~is_actionable_notification(dm)
  PROVE  /\ ~Upserts(dm) /\ ~trade_message_is_terminal(dm) /\ status_candidate # "Success"
<1>1. cur \in 1 .. Len(trade.dms) /\ trade \in Trades
  BY TradeTyped DEF TypeOK
<1>2. dm.payload # "order" /\ dm.payload # "emptyInvoice"
  BY <1>1, ClosingOrderHasEnded DEF OrdersNameTheirStatus, dm
<1>3. dm.payload \notin {"invoice", "invoiceOrder"}
  BY DEF is_actionable_notification, IsInvoice
<1> QED BY <1>2, <1>3 DEF Upserts, IsInvoice, trade_message_is_terminal, ClosingActions, status_candidate,
           resolved_status_candidate, small_order_ref_from_payload, inferred_status_from_trade_action, NoStatus

LEMMA ListingIsNoEnd ==
  ASSUME OrdersNameTheirStatus, TypeOK, pc # "idle", is_pending_listing(dm)
  PROVE  ~trade_message_is_terminal(dm) /\ status_candidate # "Success"
<1>1. status_candidate = "Pending"
  BY HandledTold DEF is_pending_listing, small_order_ref_from_payload
<1> QED BY <1>1 DEF is_pending_listing, trade_message_is_terminal, ClosingActions, is_terminal_trade_status,
           TerminalTradeStatuses

LEMMA SeenIsStoredStep ==
  ASSUME TakesAreRespawned, OrdersNameTheirStatus, IInv, UpsertsOnly, LifeInv, CaseRows, CursorKept,
         ~trade.maker \/ ~Forgotten, SeenIsStored, [Next]_vars
  PROVE  SeenIsStored'
<1> USE DEF world, ui, locals, history, listener, Goto
<1>1. /\ TypeOK /\ UNCHANGED trade /\ NothingStoredYet /\ trade.early \in Nat
      /\ published \in Nat /\ handled \subseteq 1 .. published /\ cur \in 0 .. published
  BY ShownSources, TradeTyped DEF IInv, Control, TypeOK
<1>2. SUFFICES ASSUME Live'
               PROVE  /\ pc' = "cleanup" /\ cur' > trade.early => row'.seen # NoTs
                      /\ \A i \in handled' : i > trade.early => row'.seen # NoTs
  BY <1>1 DEF SeenIsStored
<1>3. CASE Awaited /\ SaveOrder
  BY <1>1, <1>3 DEF SaveOrder, NothingStoredYet
<1>4. CASE Live /\ ~SaveOrder /\ ~SaveChild /\ ~DropTake /\ ~DeleteOrder /\ ~ForgetDeleted
  <2>1. row # NoRow /\ row' # NoRow
    BY <1>2, <1>4 DEF Live
  <2>2. \/ row'.seen = row.seen
        \/ AdvanceCursor /\ row'.seen = dm.ts
    BY <1>2, <1>4, LiveStatusSteps
  <2>3. AdvanceCursor => dm.ts \in Nat
    BY <1>1, HandledTyped DEF AdvanceCursor, Dms
  <2>4. row.seen # NoTs => row'.seen # NoTs
    BY <2>2, <2>3 DEF NoTs
  <2>5. CASE AdvanceCursor
    <3>1. row.seen \in Nat \cup {NoTs}
      BY <1>1, <2>1 DEF TypeOK, Rows
    <3>2. row.seen >= dm.ts \/ row' = [row EXCEPT !.seen = dm.ts]
      BY <2>1, <2>5 DEF AdvanceCursor
    <3>3. row' = [row EXCEPT !.seen = dm.ts] => row'.seen = dm.ts
      BY <1>1, <2>1 DEF TypeOK, Rows
    <3>4. row'.seen # NoTs
      BY <2>3, <2>4, <2>5, <3>1, <3>2, <3>3 DEF NoTs
    <3> QED BY <3>4
  <2>6. CASE Cleanup
    <3>1. handled' = handled \cup {cur} /\ pc = "cleanup" /\ pc' = "idle"
      BY <2>6 DEF Cleanup, Finish
    <3> QED BY <1>4, <2>4, <3>1 DEF SeenIsStored
  <2>7. CASE ~AdvanceCursor /\ ~Cleanup
    <3>1. UNCHANGED handled /\ (pc' = "cleanup" => pc = "cleanup" /\ UNCHANGED cur)
      BY <2>7 DEF Next, ListenerNext, Handling, NewOrderLookup, DropTake, Forget, RevertStatus,
         SaveChild, ReadForUpsert, WriteUpsert, Snapshot, RecordDispute, TrackChat, StatusWrite, PublishRow,
         TrackOrder, Receive, Publish, SaveOrder, ShowResult, HandleNotification,
         DeleteOrder, ForgetDeleted, Restart, Reload, StartListener, StartHandling, Finish, vars
    <3> QED BY <1>4, <2>4, <3>1 DEF SeenIsStored
  <2> QED BY <2>5, <2>6, <2>7
<1> QED BY <1>2, <1>3, <1>4, StaysLive

LEMMA RevertedIsOpenStep ==
  ASSUME TakesAreRespawned, IInv, LifeInv, ~trade.maker \/ ~Forgotten, RevertedIsOpen, [Next]_vars
  PROVE  RevertedIsOpen'
<1> USE DEF world, ui, locals, history, listener, Goto
<1>1. /\ TypeOK /\ ListingsOnly
      /\ "Pending" \notin TerminalTradeStatuses /\ PreActiveStatuses \cap TerminalTradeStatuses = {}
  BY DEF IInv, Control, TerminalTradeStatuses, PreActiveStatuses
<1>2. SUFFICES ASSUME Live', pc' \in {"revertRead", "revertWrite", "revertStatus"}
               PROVE  row'.status \notin TerminalTradeStatuses
  BY DEF RevertedIsOpen
<1>3. CASE Awaited /\ SaveOrder
  <2>1. UNCHANGED pc
    BY <1>3 DEF SaveOrder
  <2> QED BY <1>2, <1>3, <2>1, AwaitedHandling DEF ListingPcs
<1>4. CASE Live /\ row # NoRow /\ row' # NoRow /\ ~SaveOrder /\ ~SaveChild
  <2>1. \/ NewOrderLookup /\ pc' = "revertRead" /\ UNCHANGED row
        \/ pc \in {"revertRead", "revertWrite"}
        \/ pc = "revertStatus" /\ pc' = "revertStatus"
    BY <1>2 DEF Next, ListenerNext, Handling, NewOrderLookup, DropTake, Forget, RevertStatus,
       SaveChild, ReadForUpsert, WriteUpsert, Snapshot, RecordDispute, TrackChat, StatusWrite, PublishRow,
       AdvanceCursor, Cleanup, TrackOrder, Receive, Publish, SaveOrder, ShowResult, HandleNotification,
       DeleteOrder, ForgetDeleted, Restart, Reload, StartListener, StartHandling, Finish, vars
  <2>2. CASE NewOrderLookup /\ pc' = "revertRead" /\ UNCHANGED row
    <3>1. row.status \in PreActiveStatuses
      BY <1>4, <2>2 DEF NewOrderLookup, is_pre_active_maker_listing, is_pre_active_taker_take
    <3> QED BY <1>1, <2>2, <3>1
  <2>3. CASE pc \in {"revertRead", "revertWrite", "revertStatus"}
    <3>1. row.status \notin TerminalTradeStatuses
      BY <1>4, <2>3 DEF RevertedIsOpen
    <3>2. ~AdvanceCursor /\ ~StatusWrite /\ ~WriteUpsert("upsertWrite", "dispute")
      BY <2>3 DEF AdvanceCursor, StatusWrite, WriteUpsert
    <3>3. dm.status = "Pending" \/ pc = "revertRead"
      BY <1>1, <2>3 DEF ListingsOnly, ListingPcs, is_pending_listing
    <3>4. WriteUpsert("revertWrite", "revertStatus") => pc = "revertWrite"
      BY DEF WriteUpsert
    <3> HIDE DEF world, ui, locals, history, listener, Goto
    <3> QED BY <1>1, <1>4, <3>1, <3>2, <3>3, <3>4, StatusSteps
  <2> QED BY <2>1, <2>2, <2>3
<1> QED BY <1>2, <1>3, <1>4, StaysLive

LEMMA OutcomeIsWrittenStep ==
  ASSUME TakesAreRespawned, OrdersNameTheirStatus, RepliesAgree, RespawnedMoveForward,
         IInv, UpsertsOnly, ToldInv, LifeInv, Settings, RowFollows,
         ~trade.maker \/ ~Forgotten, OutcomeIsWritten, [Next]_vars
  PROVE  OutcomeIsWritten'
<1> USE DEF world, ui, locals, history, listener, Goto
<1>1. /\ TypeOK /\ UNCHANGED trade /\ ListingsOnly /\ CaseRows /\ CursorKept
  BY ShownSources DEF IInv, Control, Settings
<1>2. SUFFICES ASSUME Live', pc' \in {"publish", "seen", "cleanup"},
                      trade_message_is_terminal(dm') \/ status_candidate' = "Success"
               PROVE  row'.status \in TerminalTradeStatuses
  BY DEF OutcomeIsWritten, trade_message_is_terminal
<1>3. CASE Awaited /\ SaveOrder
  <2>1. UNCHANGED <<pc, cur>> /\ row' = SavedRow(trade.saved, trade.maker)
    BY <1>3 DEF SaveOrder
  <2>2. /\ dm' = dm /\ status_candidate' = status_candidate /\ row'.status = trade.saved /\ pc # "idle"
    BY <1>1, <1>2, <2>1 DEF dm, status_candidate, SavedRow
  <2>3. status_candidate \in TerminalTradeStatuses
    BY <1>1, <1>2, <2>2, TerminalCandidate DEF TerminalTradeStatuses
  <2>4. ~trade.maker /\ cur <= trade.early /\ cur \in 1 .. Len(trade.dms) /\ trade \in Trades
    BY <1>1, <1>3, <2>2, AwaitedHandling, TradeTyped DEF TypeOK
  <2>5. status_candidate = trade.saved
    BY <2>4 DEF RepliesAgree, status_candidate, dm
  <2> QED BY <2>2, <2>3, <2>5
<1>4. CASE Live /\ row # NoRow /\ row' # NoRow /\ ~SaveOrder /\ ~SaveChild
  <2>1. /\ UNCHANGED cur /\ pc # "idle"
        /\ \/ StatusWrite
           \/ TrackChat /\ pc' = "seen"
           \/ Forget
           \/ pc \in {"publish", "seen", "cleanup"}
    <3>1. ~SaveChild
      BY <1>4
    <3> QED BY <1>2, <3>1 DEF Next, ListenerNext, Handling, NewOrderLookup, DropTake, Forget, RevertStatus,
       ReadForUpsert, WriteUpsert, Snapshot, RecordDispute, TrackChat, StatusWrite, PublishRow,
       AdvanceCursor, Cleanup, TrackOrder, Receive, Publish, SaveOrder, ShowResult, HandleNotification,
       DeleteOrder, ForgetDeleted, Restart, Reload, StartListener, StartHandling, Finish, vars
  <2>2. dm' = dm /\ status_candidate' = status_candidate
    BY <1>1, <2>1 DEF dm, status_candidate
  <2>3. trade_message_is_terminal(dm) \/ status_candidate = "Success"
    BY <1>2, <2>2
  <2>4. CASE StatusWrite
    <3>1. status_candidate \in TerminalTradeStatuses
      BY <1>1, <2>1, <2>3, TerminalCandidate DEF TerminalTradeStatuses
    <3>2. effective_order_status = IF StatusToWrite = NoStatus THEN row.status ELSE StatusToWrite
      BY <1>4, <2>4, WriteAgrees DEF StatusWrite
    <3>3. row'.status = effective_order_status
      <4>1. row \in Rows
        BY <1>1, <1>4 DEF TypeOK
      <4>2. row' = IF StatusToWrite = NoStatus THEN row ELSE [row EXCEPT !.status = StatusToWrite]
        BY <1>4, <2>4 DEF StatusWrite
      <4> QED BY <3>2, <4>1, <4>2 DEF Rows
    <3> QED BY <3>1, <3>3, EndDecided
  <2>5. CASE TrackChat /\ pc' = "seen"
    BY <1>1, <2>1, <2>3, <2>5, NoInvoice DEF TrackChat
  <2>6. CASE Forget
    <3>1. is_pending_listing(dm)
      BY <1>1, <1>4, <2>6 DEF Forget, CaseRows, ListingsOnly, ListingPcs
    <3> QED BY <1>1, <2>1, <2>3, <3>1, ListingIsNoEnd
  <2>7. CASE pc \in {"publish", "seen", "cleanup"}
    <3>1. row.status \in TerminalTradeStatuses
      BY <1>4, <2>3, <2>7 DEF OutcomeIsWritten
    <3>2. ~StatusWrite /\ ~WriteUpsert("upsertWrite", "dispute")
      BY <2>7 DEF StatusWrite, WriteUpsert
    <3> QED BY <1>1, <1>2, <1>4, <2>7, <3>1, <3>2, LiveStatusSteps
  <2> QED BY <2>1, <2>4, <2>5, <2>6, <2>7
<1> QED BY <1>2, <1>3, <1>4, StaysLive

\* What had ended when the message was looked at stays ended.
LEMMA EndStands ==
  ASSUME OrdersNameTheirStatus, RepliesAgree, RespawnedMoveForward,
         IInv, ToldInv, LifeInv, Settings, RowFollows, Live, StatusWrite
  PROVE  /\ row'.status = effective_order_status
         /\ Known \in TerminalTradeStatuses \/ status_candidate \in TerminalTradeStatuses
              => row'.status \in TerminalTradeStatuses
<1>1. /\ TypeOK /\ KindsAgree /\ pc = "statusWrite" /\ pc # "idle" /\ pc \in LaterPcs /\ row # NoRow
  BY DEF IInv, Control, LaterPcs, StatusWrite, Live
<1>2. row'.status = effective_order_status
  <2>1. row \in Rows
    BY <1>1 DEF TypeOK
  <2>2. row' = IF StatusToWrite = NoStatus THEN row ELSE [row EXCEPT !.status = StatusToWrite]
    BY <1>1 DEF StatusWrite
  <2>3. effective_order_status = IF StatusToWrite = NoStatus THEN row.status ELSE StatusToWrite
    BY <1>1, WriteAgrees
  <2> QED BY <2>1, <2>2, <2>3 DEF Rows
<1>3. CASE status_candidate \in TerminalTradeStatuses
  BY <1>2, <1>3, EndDecided
<1>4. CASE Known \in TerminalTradeStatuses /\ snap # NoRow
  <2>1. /\ baseline_status = Known
        /\ should_accept_candidate => Le(Known, status_candidate)
    BY <1>1, <1>4, KnownDecides DEF Known
  <2>2. should_accept_candidate => status_candidate = Known
    BY <1>4, <2>1, TerminalIsFinal DEF Le
  <2> QED BY <1>2, <1>4, <2>1, <2>2 DEF effective_order_status
<1>5. CASE Known \in TerminalTradeStatuses /\ snap = NoRow
  BY <1>1, <1>2, <1>5, EarlyDecided DEF Known, Settings
<1> QED BY <1>2, <1>3, <1>4, <1>5

LEMMA SuccessKeptStep ==
  ASSUME TakesAreRespawned, OrdersNameTheirStatus, RepliesAgree, RespawnedMoveForward,
         IInv, UpsertsOnly, ToldInv, LifeInv, Settings, RowFollows, ~trade.maker \/ ~Forgotten,
         SeenIsStored, OutcomeIsWritten, RevertedIsOpen, SuccessKept, [Next]_vars
  PROVE  SuccessKept'
<1> USE DEF world, ui, locals, history, listener, Goto
<1>1. /\ TypeOK /\ UNCHANGED trade /\ NothingStoredYet /\ ListingsOnly /\ CaseRows
      /\ SubscribedWhileHandling /\ trade.early \in Nat
      /\ published \in Nat /\ handled \subseteq 1 .. published /\ cur \in 0 .. published
  BY ShownSources, TradeTyped DEF IInv, Control, Settings, TypeOK
<1>2. SUFFICES ASSUME Live', NEW i \in handled', i > trade.early, Cand(i) = "Success"
               PROVE  Judged' \in TerminalTradeStatuses \/ i \in ToCome'
  BY <1>1 DEF SuccessKept, Cand
<1>3. CASE Awaited /\ SaveOrder
  BY <1>1, <1>2, <1>3 DEF SaveOrder, NothingStoredYet
<1>4. CASE /\ Live /\ ~SaveOrder /\ ~SaveChild /\ ~DropTake /\ ~DeleteOrder /\ ~ForgetDeleted
           /\ row # NoRow /\ row' # NoRow /\ ~dropped
  <2>1. i \in handled => Judged \in TerminalTradeStatuses \/ i \in ToCome
    BY <1>2, <1>4 DEF SuccessKept
  <2>2. i = cur => status_candidate = "Success"
    BY <1>2 DEF Cand, status_candidate, dm
  <2>3. "Success" \in TerminalTradeStatuses /\ TerminalDmStatuses \subseteq TerminalTradeStatuses
    BY DEF TerminalTradeStatuses, TerminalDmStatuses
  <2>4. CASE Restart \/ Reload
    <3>1. /\ UNCHANGED <<row, published>> /\ i \in handled /\ pc' \in {"idle", "lookup", "snapshot"}
          /\ fresh' = Redelivered(row)
      BY <1>2, <2>4 DEF Restart, Reload, StartListener, StartHandling, Finish
    <3>2. Judged' = row.status /\ fresh' \subseteq ToCome'
      BY <3>1 DEF Judged, ToCome, LaterPcs
    <3>3. row.seen # NoTs
      BY <1>2, <1>4, <3>1 DEF SeenIsStored
    <3>4. row.status \notin TerminalTradeStatuses => fresh' = 1 .. published
      BY <1>1, <1>4, <2>3, <3>1, <3>3 DEF Redelivered, IsStartupActive
    <3> QED BY <1>1, <3>1, <3>2, <3>4
  <2>5. ASSUME NEW k \in fresh, Receive(k) PROVE Judged' \in TerminalTradeStatuses \/ i \in ToCome'
    <3>1. /\ UNCHANGED row /\ i \in handled /\ pc = "idle" /\ pc' \in {"lookup", "snapshot"}
          /\ fresh' = fresh \ {k} /\ cur' = k
      BY <1>2, <1>4, <2>5 DEF Receive, StartHandling
    <3> QED BY <2>1, <3>1 DEF Judged, ToCome, LaterPcs
  <2>6. CASE Snapshot
    <3>1. /\ UNCHANGED <<row, cur, fresh>> /\ i \in handled /\ pc = "snapshot" /\ snap' = row
          /\ pc' \in {"dropTake", "upsertRead", "dispute"}
      BY <1>2, <2>6 DEF Snapshot
    <3> QED BY <1>4, <2>1, <3>1 DEF Judged, ToCome, LaterPcs, Known
  <2>7. CASE NewOrderLookup \/ ReadForUpsert("revertRead", "revertWrite")
    <3>1. /\ UNCHANGED <<row, cur, fresh>> /\ i \in handled /\ pc \in {"lookup", "revertRead"}
          /\ pc' \in {"dropTake", "revertRead", "saveChild", "snapshot", "revertWrite"}
      BY <1>2, <2>7 DEF NewOrderLookup, ReadForUpsert
    <3> QED BY <2>1, <3>1 DEF Judged, ToCome, LaterPcs
  <2>8. CASE WriteUpsert("revertWrite", "revertStatus") \/ RevertStatus
    <3>1. /\ UNCHANGED <<cur, fresh>> /\ i \in handled /\ pc \in {"revertWrite", "revertStatus"}
          /\ pc' \in {"revertStatus", "revertForget"}
      BY <1>2, <2>8 DEF WriteUpsert, RevertStatus
    <3>2. row.status \notin TerminalTradeStatuses
      BY <1>4, <3>1 DEF RevertedIsOpen
    <3> QED BY <2>1, <3>1, <3>2 DEF Judged, ToCome, LaterPcs
  <2>9. CASE Forget
    <3>1. /\ UNCHANGED <<row, cur, fresh>> /\ i \in handled /\ pc = "revertForget" /\ pc' = "seen"
      BY <1>1, <1>2, <1>4, <2>9 DEF Forget, CaseRows
    <3>2. i # cur
      BY <1>1, <2>2, <3>1, ListingIsNoEnd DEF ListingsOnly, ListingPcs
    <3> QED BY <2>1, <3>1, <3>2 DEF Judged, ToCome, LaterPcs
  <2>10. CASE \/ ReadForUpsert("upsertRead", "upsertWrite") \/ WriteUpsert("upsertWrite", "dispute")
              \/ RecordDispute \/ (TrackChat /\ pc' = "statusWrite")
    <3>1. /\ UNCHANGED <<cur, fresh, snap>> /\ i \in handled
          /\ pc \in {"upsertRead", "upsertWrite", "dispute", "trackChat"}
          /\ pc' \in {"upsertWrite", "dispute", "trackChat", "statusWrite"}
      BY <1>2, <2>10 DEF ReadForUpsert, WriteUpsert, RecordDispute, TrackChat
    <3> QED BY <1>1, <2>1, <3>1 DEF Judged, ToCome, LaterPcs, Known
  <2>11. CASE TrackChat /\ pc' # "statusWrite"
    <3>1. /\ UNCHANGED <<row, cur, fresh>> /\ i \in handled /\ pc = "trackChat" /\ pc' = "seen"
          /\ IsInvoice(dm) /\ ~is_actionable_notification(dm)
      BY <1>2, <2>11 DEF TrackChat
    <3>2. i # cur /\ row.status = Known
      BY <1>1, <1>4, <2>2, <3>1, NoInvoice DEF RowFollows, RowMoved, LaterPcs
    <3> QED BY <2>1, <3>1, <3>2 DEF Judged, ToCome, LaterPcs
  <2>12. CASE StatusWrite
    <3>1. /\ UNCHANGED <<cur, fresh>> /\ i \in handled /\ pc = "statusWrite" /\ pc' = "publish"
      BY <1>2, <2>12 DEF StatusWrite
    <3>2. Known \in TerminalTradeStatuses \/ i = cur => row'.status \in TerminalTradeStatuses
      BY <1>4, <2>2, <2>3, <2>12, EndStands
    <3> QED BY <2>1, <3>1, <3>2 DEF Judged, ToCome, LaterPcs
  <2>13. CASE PublishRow
    <3>1. UNCHANGED <<row, cur, fresh>> /\ i \in handled /\ pc = "publish" /\ pc' = "seen"
      BY <1>2, <2>13 DEF PublishRow
    <3> QED BY <2>1, <3>1 DEF Judged, ToCome, LaterPcs
  <2>14. CASE AdvanceCursor
    <3>1. /\ UNCHANGED <<cur, fresh>> /\ i \in handled /\ pc = "seen" /\ pc' = "cleanup"
      BY <1>2, <2>14 DEF AdvanceCursor
    <3>2. row'.status = row.status
      <4>1. row \in Rows
        BY <1>1, <1>4 DEF TypeOK
      <4>2. row' = row \/ row' = [row EXCEPT !.seen = dm.ts]
        BY <2>14 DEF AdvanceCursor
      <4>3. [row EXCEPT !.seen = dm.ts].status = row.status
        BY <4>1 DEF Rows
      <4> QED BY <4>2, <4>3
    <3> QED BY <2>1, <3>1, <3>2 DEF Judged, ToCome, LaterPcs
  <2>15. CASE Cleanup
    <3>1. /\ UNCHANGED row /\ pc = "cleanup" /\ pc' = "idle" /\ i \in handled \cup {cur}
          /\ tracked' = ~trade_message_is_terminal(dm)
          /\ tracked' => fresh' = fresh
      BY <1>1, <1>2, <2>15 DEF Cleanup, Finish, SubscribedWhileHandling
    <3>2. trade_message_is_terminal(dm) \/ i = cur => row.status \in TerminalTradeStatuses
      BY <1>4, <2>2, <3>1 DEF OutcomeIsWritten
    <3> QED BY <2>1, <3>1, <3>2 DEF Judged, ToCome, LaterPcs
  <2>16. CASE TrackOrder \/ Publish \/ ShowResult \/ HandleNotification \/ UNCHANGED vars
    <3>1. UNCHANGED <<row, pc, cur, snap>> /\ i \in handled /\ fresh \subseteq fresh'
      BY <1>2, <2>16 DEF TrackOrder, Publish, ShowResult, HandleNotification, vars
    <3> QED BY <1>1, <2>1, <3>1 DEF Judged, ToCome, Known
  <2> HIDE DEF world, ui, locals, history, listener, Goto
  <2>17. CASE Handling
    <3>1. CASE \/ NewOrderLookup \/ DropTake \/ Forget \/ RevertStatus \/ SaveChild
               \/ ReadForUpsert("revertRead", "revertWrite") \/ WriteUpsert("revertWrite", "revertStatus")
      BY <1>4, <2>7, <2>8, <2>9, <3>1
    <3>2. CASE ReadForUpsert("upsertRead", "upsertWrite") \/ WriteUpsert("upsertWrite", "dispute") \/ RecordDispute
      BY <2>10, <3>2
    <3>3. CASE TrackChat
      BY <2>10, <2>11, <3>3
    <3>4. CASE Snapshot \/ StatusWrite \/ PublishRow \/ AdvanceCursor \/ Cleanup
      BY <2>6, <2>12, <2>13, <2>14, <2>15, <3>4
    <3> QED BY <2>17, <3>1, <3>2, <3>3, <3>4 DEF Handling
  <2> QED BY <1>4, <2>4, <2>5, <2>16, <2>17 DEF Next, ListenerNext
<1> QED BY <1>2, <1>3, <1>4, StaysLive

SettledInv == SeenIsStored /\ OutcomeIsWritten /\ RevertedIsOpen /\ SuccessKept

\* What the card of a settled order tells.
LEMMA SettlesOnCard ==
  ASSUME OutcomesAreTold, IInv, ToldInv, LifeInv, RowsInv, CardTold, EndsShown, SuccessKept,
         ~trade.maker \/ ~Forgotten
  PROVE  CardSettles
<1> SUFFICES ASSUME row # NoRow, msg # NoMsg, msg.kind # NoKind, Quiescent, handled = 1 .. published,
                    reloads > 0 => tracked, ~StoredAnew
             PROVE  /\ \/ message_trade_timeline_step(msg) = listing_step_from_status(trade.kind, row.status)
                       \/ msg.action \in ReleaseActions /\ row.status = "FiatSent"
                    /\ row.status \in CanceledStatuses <=> message_status_presentation(msg) = "over"
                    /\ row.status \in CanceledStatuses <=> order_status_badge(msg.status) = "over"
  BY DEF CardSettles
<1>1. /\ Live /\ TypeOK /\ KindsAgree /\ pc = "idle" /\ fresh = {} /\ trade \in Trades /\ trade.kind \in Kinds
      /\ published \in Nat /\ Len(trade.dms) \in Nat /\ published <= Len(trade.dms) /\ trade.early \in Nat
  <2>1. TypeOK /\ KindsAgree /\ pc = "idle" /\ fresh = {}
    BY DEF Quiescent, AtRest, IInv, Control
  <2>2. Live
    BY DEF Live, LifeInv, DeletedForGood, StoredAnew
  <2> QED BY <2>1, <2>2, TradeTyped DEF TypeOK
<1>2. Judged = row.status /\ ToCome = {}
  BY <1>1 DEF Judged, ToCome, LaterPcs
<1>3. msg.status = row.status
  <2>1. Agree(row.status, msg, fresh)
    BY <1>1 DEF RowsInv, RowFollows, StartPcs, Judged, Card, ToCome, LaterPcs
  <2> QED BY <1>1, <2>1 DEF Agree
<1>4. msg.kind = trade.kind /\ msg.status \in Statuses
  <2>1. row.status # NoStatus
    BY <1>1 DEF RowsInv, Settings, RowSaid, Said
  <2> QED BY <1>1, <1>3, <2>1 DEF KindsAgree, TypeOK, Rows, StatusOpt
<1>5. /\ msg.action \in {"Canceled", "AdminCanceled"} => msg.status \in CanceledStatuses
      /\ msg.action \in ReleaseActions => msg.status \in {"FiatSent", "Success"} \cup OffPath
  BY DEF EndsShown
\* The rating follows a success.
<1>6. msg.action \in RateActions /\ msg.status \notin OffPath => msg.status = "Success"
  <2> SUFFICES ASSUME msg.action \in RateActions, msg.status \notin OffPath PROVE msg.status = "Success"
    OBVIOUS
  <2>1. PICK k \in 1 .. published : Twins(trade.dms[k], msg)
    BY DEF CardTold
  <2>2. k \in 1 .. Len(trade.dms) /\ trade.dms[k].action \in RateActions
    BY <1>1, <2>1 DEF Twins
  <2>3. PICK j \in trade.early + 1 .. k : Cand(j) = "Success"
    BY <1>1, <2>2 DEF OutcomesAreTold, Cand
  <2>4. j \in handled /\ j > trade.early
    BY <1>1, <2>1, <2>3
  <2>5. row.status \in TerminalTradeStatuses
    BY <1>1, <1>2, <2>3, <2>4 DEF SuccessKept
  <2> QED BY <1>3, <2>5 DEF OffPath
<1>7. \/ message_trade_timeline_step(msg) = listing_step_from_status(trade.kind, row.status)
      \/ msg.action \in ReleaseActions /\ row.status = "FiatSent"
  <2>1. message_trade_timeline_step(msg) =
          IF msg.action \in RateActions /\ msg.status \notin OffPath THEN 6
          ELSE IF msg.action \in ReleaseActions /\ msg.status \notin OffPath \cup {"Success"} THEN 5
          ELSE listing_step_from_status(msg.kind, msg.status)
    BY <1>1, <1>4, StepOfCard
  <2>2. listing_step_from_status(trade.kind, "Success") = 6
    BY DEF listing_step_from_status
  <2> QED BY <1>3, <1>4, <1>5, <1>6, <2>1, <2>2
<1>8. row.status \in CanceledStatuses <=> message_status_presentation(msg) = "over"
  <2>1. CASE msg.status \in CanceledStatuses
    <3>1. message_timeline_warning_for_order_status(msg.status) = "over"
      BY <2>1 DEF message_timeline_warning_for_order_status, CanceledStatuses
    <3> QED BY <1>3, <2>1, <3>1 DEF message_status_presentation
  <2>2. CASE msg.status \notin CanceledStatuses
    <3>1. message_timeline_warning_for_order_status(msg.status) \in {"none", "dispute"}
      BY <2>2 DEF message_timeline_warning_for_order_status
    <3>2. message_timeline_warning(msg.action) \in {"none", "dispute"}
      BY <1>5, <2>2 DEF message_timeline_warning
    <3>3. message_status_presentation(msg) \in {"dispute", "rate", "done", "act", "wait"}
      BY <3>1, <3>2 DEF message_status_presentation
    <3> QED BY <1>3, <2>2, <3>3
  <2> QED BY <2>1, <2>2
<1>9. row.status \in CanceledStatuses <=> order_status_badge(msg.status) = "over"
  BY <1>3 DEF order_status_badge, CanceledStatuses
<1> QED BY <1>7, <1>8, <1>9

\* For every conversation that tells the outcome before the rating and sends a word that
\* the fiat is confirmed with a status that says so: once every message was handled and
\* nothing is on its way, the card tells what the database stores, in its timeline, its
\* banner and its badge (message_flow_tab.rs), however the messages were replayed; as
\* long as the user has not deleted an order of their own.
THEOREM CardAlwaysSettles ==
  ASSUME OutcomesAreTold, OrdersNameTheirStatus, RepliesAgree, TwinsAgree, TakesAreRespawned,
         RespawnedMoveForward
  PROVE  Spec /\ [](~trade.maker \/ ~Forgotten) => []CardSettles
<1>1. Init => CardTold /\ EndsShown /\ SettledInv
  BY DEF Init, CardTold, EndsShown, SettledInv, SeenIsStored, OutcomeIsWritten, RevertedIsOpen, SuccessKept, Live
<1>2. IInv /\ ToldInv /\ CardTold /\ EndsShown /\ [Next]_vars => (CardTold /\ EndsShown)'
  BY CardToldStep, EndsShownStep DEF IInv
<1>3. IInv /\ UpsertsOnly /\ ToldInv /\ LifeInv /\ RowsInv /\ (~trade.maker \/ ~Forgotten) /\ SettledInv
        /\ [Next]_vars => SettledInv'
  BY SeenIsStoredStep, OutcomeIsWrittenStep, RevertedIsOpenStep, SuccessKeptStep DEF SettledInv, RowsInv, Settings
<1>4. IInv /\ ToldInv /\ LifeInv /\ RowsInv /\ CardTold /\ EndsShown /\ SettledInv /\ (~trade.maker \/ ~Forgotten)
        => CardSettles
  BY SettlesOnCard DEF SettledInv
<1> QED BY <1>1, <1>2, <1>3, <1>4, Invariance, ToldInvariant, LifeInvariant, RowsInvariant, PTL DEF Spec
=============================================================================
