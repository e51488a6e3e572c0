--------------------------- MODULE TerminalProofs --------------------------
(***************************************************************************)
(* Proofs about the running program around its terminal.                   *)
(*                                                                         *)
(* The session: its type correctness, and that the background tasks are    *)
(* never stopped without something left that will start them again, when   *)
(* the client accepts every relay of the settings.                         *)
(*                                                                         *)
(* The terminal, for every bound on what is in flight: its type            *)
(* correctness, that a question is not lost to a result, and that a        *)
(* waiting mode has an answer to come if the replies to a bond payout      *)
(* invoice are of the kinds that open a popup.                             *)
(***************************************************************************)
EXTENDS Session, Terminal, SequenceTheorems, TLAPS

-----------------------------------------------------------------------------
(* The session.                                                            *)

Statuses == {"Online", "Offline"}

\* A rotation that has yet to commit fits under the bound: there is one at a
\* time, and only its own commit moves the database to the next key.
RotationFits == \A r \in rotation : r.step = "read" => db_key < MaxKeys

SessionInv == SessionTypeOK /\ RotationFits

\* The channel keeps its type when a report is added or taken.
LEMMA ChannelTyped ==
  ASSUME NEW s \in Seq(Statuses)
  PROVE  /\ \A e \in Statuses : Append(s, e) \in Seq(Statuses)
         /\ s # <<>> => Tail(s) \in Seq(Statuses)
  OBVIOUS

\* A report that is not the first one is still there once the first is taken.
LEMMA OnlineStays ==
  ASSUME NEW s \in Seq(Statuses), s # <<>>, Head(s) # "Online",
         NEW i \in DOMAIN s, s[i] = "Online"
  PROVE  \E j \in DOMAIN Tail(s) : Tail(s)[j] = "Online"
  <1>1. i \in 1 .. Len(s) /\ i # 1
    OBVIOUS
  <1>2. i - 1 \in DOMAIN Tail(s) /\ Tail(s)[i - 1] = s[i]
    BY <1>1
  <1> QED
    BY <1>2

\* Adding a report loses none, and the report added is there.
LEMMA OnlineAdded ==
  ASSUME NEW s \in Seq(Statuses), NEW e \in Statuses
  PROVE  /\ \A i \in DOMAIN s : i \in DOMAIN Append(s, e) /\ Append(s, e)[i] = s[i]
         /\ Len(s) + 1 \in DOMAIN Append(s, e)
         /\ Append(s, e)[Len(s) + 1] = e
  OBVIOUS

-----------------------------------------------------------------------------
\* A spawned session is typed and running.
LEMMA SpawnedRuns ==
  ASSUME NEW settings \in Settings, NEW key \in 0 .. MaxKeys
  PROVE  Spawned(settings, key) \subseteq Settings /\ Spawned(settings, key) # {}
  BY DEF Spawned, Settings

LEMMA SessionInvInit == SessionInit => SessionInv
  <1> SUFFICES ASSUME SessionInit PROVE SessionInv
    OBVIOUS
  <1>1. PICK m \in Instances : disk = [mostro |-> m, key |-> 0] /\ active = m
    BY DEF SessionInit
  <1>2. disk \in Settings /\ client \in 0 .. MaxKeys /\ db_key \in 0 .. MaxKeys
    BY <1>1, SessionBounds DEF SessionInit, Settings
  <1>3. tasks \subseteq Settings
    BY <1>2, SpawnedRuns DEF SessionInit
  <1>4. net \in Seq(Statuses)
    BY DEF SessionInit
  <1>5. link \in BOOLEAN /\ reachable \in BOOLEAN /\ overlay \in BOOLEAN
    BY DEF SessionInit
  <1>6. fetch_reload \in BOOLEAN /\ backup \in BOOLEAN /\ fatal \in BOOLEAN
    BY DEF SessionInit
  <1>7. retries \in Nat /\ faults \in 0 .. MaxFaults
    BY SessionBounds DEF SessionInit
  <1>8. rotation \subseteq Rotations /\ RotationFits
    BY DEF SessionInit, RotationFits
  <1> QED
    BY <1>1, <1>2, <1>3, <1>4, <1>5, <1>6, <1>7, <1>8
    DEF SessionInv, SessionTypeOK, Statuses

\* The reload of the subscriptions, whichever key press runs it.
LEMMA FetchReloadTyped ==
  ASSUME SessionInv, disk' \in Settings, NEW pubkey \in Instances,
         apply_pending_fetch_scheduler_reload(pubkey)
  PROVE  SessionInv'
  <1>1. CASE FetchReloadDone
    <2>1. disk'.mostro \in Instances
      BY DEF Settings
    <2>2. tasks' \subseteq Settings
      BY <1>1, SpawnedRuns DEF FetchReloadDone, SessionInv, SessionTypeOK
    <2> QED
      BY <1>1, <2>1, <2>2
      DEF FetchReloadDone, apply_pending_fetch_scheduler_reload, SessionInv,
          SessionTypeOK, RotationFits, keys, network
  <1>2. CASE FetchReloadFailed(pubkey)
    BY <1>2, SessionBounds
    DEF FetchReloadFailed, Fault, apply_pending_fetch_scheduler_reload, SessionInv,
        SessionTypeOK, RotationFits, keys, network
  <1> QED
    BY <1>1, <1>2 DEF apply_pending_fetch_scheduler_reload

LEMMA KeyReloadTyped ==
  ASSUME SessionInv, apply_pending_key_reload
  PROVE  SessionInv'
  <1>1. /\ client' \in 0 .. MaxKeys
        /\ tasks' \subseteq Settings
        /\ active' \in Instances
    <2>1. CASE BadRelay
      BY <2>1 DEF apply_pending_key_reload, tasking, SessionInv, SessionTypeOK
    <2>2. CASE ~BadRelay
      <3>1. disk.key \in 0 .. MaxKeys /\ disk.mostro \in Instances
        BY DEF SessionInv, SessionTypeOK, Settings
      <3> QED
        BY <2>2, <3>1, SpawnedRuns
        DEF apply_pending_key_reload, KeyReloadDone, SessionInv, SessionTypeOK
    <2> QED
      BY <2>1, <2>2
  <1> QED
    BY <1>1
    DEF apply_pending_key_reload, SessionInv, SessionTypeOK, RotationFits, network

LEMMA RotationTyped ==
  ASSUME SessionInv,
         \/ RotateKeys \/ RotationFails \/ BackupReplaced
         \/ \E r \in rotation : CommitUser(r) \/ ReplaceSettings(r)
  PROVE  SessionInv'
  <1> USE SessionBounds DEF SessionInv, SessionTypeOK, RotationFits, tasking, keys, network
  <1>1. CASE RotateKeys
    BY <1>1 DEF RotateKeys, Rotations
  <1>2. CASE RotationFails
    BY <1>2 DEF RotationFails, Fault
  <1>3. CASE BackupReplaced
    BY <1>3 DEF BackupReplaced
  <1>4. ASSUME NEW r \in rotation, CommitUser(r)
        PROVE  SessionInv'
    <2>1. db_key' = db_key + 1 /\ db_key < MaxKeys
      BY <1>4 DEF CommitUser
    <2>2. [r EXCEPT !.step = "committed"] \in Rotations
      BY <1>4 DEF Rotations
    <2> QED
      BY <1>4, <2>1, <2>2 DEF CommitUser, Rotations
  <1>5. ASSUME NEW r \in rotation, ReplaceSettings(r)
        PROVE  SessionInv'
    <2>1. [r.settings EXCEPT !.key = db_key] \in Settings
      BY <1>5 DEF Rotations, Settings
    <2> QED
      BY <1>5, <2>1 DEF ReplaceSettings
  <1> QED
    BY <1>1, <1>2, <1>3, <1>4, <1>5

LEMMA NetworkTyped ==
  ASSUME SessionInv, LinkLost \/ LinkBack \/ Network \/ FatalError
  PROVE  SessionInv'
  <1> USE SessionBounds DEF SessionInv, SessionTypeOK, RotationFits, tasking, keys, network
  <1>0. Fault => faults' \in 0 .. MaxFaults
    BY DEF Fault
  <1>1. CASE LinkLost
    BY <1>0, <1>1 DEF LinkLost
  <1>2. CASE LinkBack
    BY <1>2 DEF LinkBack
  <1>3. CASE Monitor
    BY <1>3, ChannelTyped DEF Monitor, Statuses
  <1>4. CASE HandleOffline
    BY <1>4, ChannelTyped DEF HandleOffline, Statuses
  <1>5. CASE HandleOnline
    <2>1. net' \in Seq(Statuses)
      BY <1>5, ChannelTyped DEF HandleOnline, Statuses
    <2>2. /\ tasks' \subseteq Settings /\ active' \in Instances
          /\ retries' \in Nat /\ faults' \in 0 .. MaxFaults
      <3>1. CASE Unreachable
        BY <3>1 DEF Unreachable, RetryLater
      <3>2. CASE ReconnectFailed
        BY <3>2 DEF ReconnectFailed, RetryLater, Fault
      <3>3. CASE ReconnectDone
        <4>1. disk.mostro \in Instances
          BY DEF Settings
        <4> QED
          BY <3>3, <4>1, SpawnedRuns DEF ReconnectDone
      <3> QED
        BY <1>5, <3>1, <3>2, <3>3
        DEF HandleOnline, reload_runtime_session_after_reconnect
    <2> QED
      BY <1>5, <2>1, <2>2 DEF HandleOnline, Statuses
  <1>6. CASE RetryDue
    BY <1>6, ChannelTyped DEF RetryDue, Statuses
  <1>7. CASE FatalError
    BY <1>0, <1>7 DEF FatalError
  <1> QED
    BY <1>1, <1>2, <1>3, <1>4, <1>5, <1>6, <1>7 DEF Network

LEMMA SessionInvStep == SessionInv /\ [SessionNext]_sessionVars => SessionInv'
  <1> SUFFICES ASSUME SessionInv, [SessionNext]_sessionVars PROVE SessionInv'
    OBVIOUS
  <1>1. ASSUME NEW m \in Instances, ConfirmMostroPubkey(m)
        PROVE  SessionInv'
    <2>1. disk' \in Settings
      BY <1>1 DEF ConfirmMostroPubkey, SessionInv, SessionTypeOK, Settings
    <2> QED
      BY <1>1, <2>1, FetchReloadTyped DEF ConfirmMostroPubkey
  <1>2. CASE ConfirmCurrencies \/ RetryFetchReload
    <2>1. disk' \in Settings /\ active \in Instances
      BY <1>2 DEF ConfirmCurrencies, RetryFetchReload, SessionInv, SessionTypeOK
    <2> QED
      BY <1>2, <2>1, FetchReloadTyped DEF ConfirmCurrencies, RetryFetchReload
  <1>3. CASE UNCHANGED sessionVars
    BY <1>3
    DEF sessionVars, tasking, keys, network, SessionInv, SessionTypeOK, RotationFits
  <1> QED
    BY <1>1, <1>2, <1>3, KeyReloadTyped, RotationTyped, NetworkTyped DEF SessionNext

LEMMA SessionInvariant == SessionSpec => []SessionInv
  BY SessionInvInit, SessionInvStep, PTL DEF SessionSpec

\* The session's state is typed, whatever reloads, rotations and faults there are.
THEOREM SessionTyped == SessionSpec => []SessionTypeOK
  <1>1. SessionInv => SessionTypeOK
    BY DEF SessionInv
  <1> QED
    BY SessionInvariant, <1>1, PTL

-----------------------------------------------------------------------------
\* One report taken, one added, or neither: what would try again still would.
LEMMA StillRecovering ==
  ASSUME net \in Seq(Statuses), Recovering,
         fetch_reload' = fetch_reload, retries' = retries,
         \/ net' = net
         \/ \E e \in Statuses : net' = Append(net, e)
         \/ net # <<>> /\ Head(net) # "Online" /\ net' = Tail(net)
  PROVE  Recovering'
  <1>1. CASE fetch_reload \/ retries > 0
    BY <1>1 DEF Recovering
  <1>2. ASSUME NEW i \in DOMAIN net, net[i] = "Online"
        PROVE  \E j \in DOMAIN net' : net'[j] = "Online"
    <2>1. CASE \E e \in Statuses : net' = Append(net, e)
      BY <1>2, <2>1, OnlineAdded
    <2>2. CASE net # <<>> /\ Head(net) # "Online" /\ net' = Tail(net)
      BY <1>2, <2>2, OnlineStays
    <2> QED
      BY <1>2, <2>1, <2>2
  <1> QED
    BY <1>1, <1>2 DEF Recovering

LEMMA BlindWindowStep ==
  ASSUME BadRelay = FALSE, SessionTypeOK, NoBlindWindow, [SessionNext]_sessionVars
  PROVE  NoBlindWindow'
  <1> SUFFICES ASSUME tasks' = {}, ~fatal' PROVE Recovering'
    BY DEF NoBlindWindow
  <1>0. net \in Seq(Statuses) /\ retries \in Nat
    BY DEF SessionTypeOK, Statuses
  <1>1. ASSUME NEW pubkey, apply_pending_fetch_scheduler_reload(pubkey)
        PROVE  Recovering'
    <2>1. ~FetchReloadDone
      BY DEF FetchReloadDone, Spawned
    <2> QED
      BY <1>1, <2>1 DEF apply_pending_fetch_scheduler_reload, FetchReloadFailed, Recovering
  <1>2. ~apply_pending_key_reload
    BY DEF apply_pending_key_reload, KeyReloadDone, Spawned
  <1>3. CASE \/ RotateKeys \/ RotationFails \/ BackupReplaced
             \/ \E r \in rotation : CommitUser(r) \/ ReplaceSettings(r)
             \/ LinkLost \/ LinkBack \/ UNCHANGED sessionVars
    <2>1. UNCHANGED <<tasks, fatal, fetch_reload, retries, net>>
      BY <1>3
      DEF RotateKeys, RotationFails, BackupReplaced, CommitUser, ReplaceSettings,
          LinkLost, LinkBack, sessionVars, tasking, keys, network
    <2>2. Recovering
      BY <2>1 DEF NoBlindWindow
    <2> QED
      BY <1>0, <2>1, <2>2, StillRecovering
  <1>4. CASE Monitor \/ HandleOffline
    <2>1. UNCHANGED <<tasks, fatal, fetch_reload, retries>>
      BY <1>4 DEF Monitor, HandleOffline, tasking, keys
    <2>2. \/ \E e \in Statuses : net' = Append(net, e)
          \/ net # <<>> /\ Head(net) # "Online" /\ net' = Tail(net)
      BY <1>4 DEF Monitor, HandleOffline, Statuses
    <2>3. Recovering
      BY <2>1 DEF NoBlindWindow
    <2> QED
      BY <1>0, <2>1, <2>2, <2>3, StillRecovering
  <1>5. CASE HandleOnline
    <2>1. ~ReconnectDone
      BY DEF ReconnectDone, Spawned
    <2>2. retries' > 0
      BY <1>5, <1>0, <2>1
      DEF HandleOnline, reload_runtime_session_after_reconnect, Unreachable,
          ReconnectFailed, RetryLater
    <2> QED
      BY <2>2 DEF Recovering
  <1>6. CASE RetryDue
    <2>1. net' = Append(net, "Online")
      BY <1>6 DEF RetryDue
    <2> QED
      BY <1>0, <2>1, OnlineAdded DEF Recovering, Statuses
  <1>7. ~FatalError
    BY DEF FatalError
  <1> QED
    BY <1>1, <1>2, <1>3, <1>4, <1>5, <1>6, <1>7
    DEF SessionNext, Network, ConfirmMostroPubkey, ConfirmCurrencies, RetryFetchReload

\* When every relay of the settings is one the client accepts, no reload and no
\* reconnect leaves the background tasks stopped without a retry to come, for
\* any number of instances, rotations and faults (async_tasks.rs, main.rs).
THEOREM NeverBlind ==
  ASSUME BadRelay = FALSE
  PROVE  SessionSpec => []NoBlindWindow
  <1>1. SessionInit => NoBlindWindow
    BY DEF SessionInit, NoBlindWindow, Spawned
  <1>2. SessionTypeOK /\ NoBlindWindow /\ [SessionNext]_sessionVars => NoBlindWindow'
    BY BlindWindowStep
  <1> QED
    BY <1>1, <1>2, SessionTyped, PTL DEF SessionSpec

-----------------------------------------------------------------------------
(* The terminal.                                                           *)

\* The mode shown is the one asked for, or the order form in place of Normal.
LEMMA Shown ==
  ASSUME NEW m, NEW kept, Show(m, kept)
  PROVE  /\ mode' = m \/ (m = "Normal" /\ mode' = "CreatingOrder")
         /\ draft' \in BOOLEAN
  BY DEF Show

LEMMA StayShown ==
  ASSUME NEW m, Stay(m)
  PROVE  /\ mode' = m \/ (m = "Normal" /\ mode' = "CreatingOrder")
         /\ draft' \in BOOLEAN
         /\ tab' = tab
  BY Shown DEF Stay

\* A task more, of the kind asked for, and still within the bound.
LEMMA AskTyped ==
  ASSUME asked \in [Kinds -> 0 .. MaxAsked], NEW k \in Kinds, Ask(k)
  PROVE  /\ asked' \in [Kinds -> 0 .. MaxAsked]
         /\ asked'[k] > 0
         /\ \A j \in Kinds : asked'[j] >= asked[j]
  <1>1. \A j \in Kinds : asked[j] \in Nat
    BY TerminalBounds
  <1>2. asked[k] < MaxAsked
    BY <1>1, TerminalBounds DEF Ask, InFlight, Kinds
  <1>3. asked' = [asked EXCEPT ![k] = asked[k] + 1]
    BY DEF Ask
  <1>4. asked[k] + 1 \in 0 .. MaxAsked /\ asked[k] + 1 > 0
    BY <1>1, <1>2, TerminalBounds
  <1> QED
    BY <1>1, <1>3, <1>4

LEMMA AnsweredTyped ==
  ASSUME asked \in [Kinds -> 0 .. MaxAsked], NEW k \in Kinds, Answered(k)
  PROVE  asked' \in [Kinds -> 0 .. MaxAsked]
  <1>1. asked[k] - 1 \in 0 .. MaxAsked
    BY TerminalBounds DEF Answered
  <1> QED
    BY <1>1 DEF Answered

-----------------------------------------------------------------------------
\* What every step keeps about the mode, the tab and the draft.
ScreenTyped == mode' \in Modes /\ tab' \in Tabs /\ draft' \in BOOLEAN

\* Every request's kind is one of the kinds.
LEMMA KindsListed ==
  /\ "new" \in Kinds /\ "take" \in Kinds /\ "bond" \in Kinds /\ "send" \in Kinds
  /\ "local" \in Kinds /\ "info" \in Kinds /\ "rotate" \in Kinds /\ "seeds" \in Kinds
  BY DEF Kinds

\* A key answers no task.
NoAnswer == \A k \in Kinds : ~AnswerOf(k)

LEMMA AskingAnswersNone ==
  ASSUME asked \in [Kinds -> 0 .. MaxAsked],
         asked' = asked \/ \E k \in Kinds : Ask(k)
  PROVE  NoAnswer
  <1>1. \A j \in Kinds : asked[j] \in Nat
    BY TerminalBounds
  <1>2. CASE asked' = asked
    BY <1>1, <1>2 DEF NoAnswer, AnswerOf
  <1>3. ASSUME NEW k \in Kinds, Ask(k) PROVE NoAnswer
    <2>1. asked' \in [Kinds -> 0 .. MaxAsked] /\ \A j \in Kinds : asked'[j] >= asked[j]
      BY <1>3, AskTyped
    <2>2. \A j \in Kinds : asked'[j] \in Nat
      BY <2>1, TerminalBounds
    <2> QED
      BY <1>1, <2>1, <2>2 DEF NoAnswer, AnswerOf
  <1> QED
    BY <1>2, <1>3

\* Keys that start no task.
QuietKey ==
  \/ \E t \in Tabs : SwitchTab(t)
  \/ SubmitForm \/ DiscardForm \/ BackToForm \/ OpenBookOrder \/ OpenMessage
  \/ TradeShortcut \/ TradeKeyAnywhere \/ Acknowledge \/ TypeInvoice \/ OpenSetting
  \/ Decline \/ CloseResult \/ Help \/ Exit \/ CloseBackup \/ DismissPopup

\* Keys that start one, and the mode that waits for it if there is one.
AskingKey ==
  \/ ConfirmOrder \/ TakeOrder \/ SendMessage \/ submit_add_invoice
  \/ submit_add_bond_invoice \/ spawn_cancel_from_notification

\* Keys that start one and do not wait for it.
RestlessKey ==
  \/ RevealSharedKey \/ EmptyInvoice \/ ConfirmDelete \/ ConfirmSetting
  \/ GenerateKeys \/ \E k \in Kinds : LoadFromSettings(k)

LEMMA KeyCases == Key => QuietKey \/ AskingKey \/ RestlessKey
  BY DEF Key, QuietKey, AskingKey, RestlessKey

LEMMA QuietKeyStep ==
  ASSUME TerminalTypeOK, QuietKey
  PROVE  TerminalTypeOK' /\ mode' \notin WaitingModes /\ NoAnswer
  <1>1. ScreenTyped /\ mode' \notin WaitingModes
    <2> USE Shown, StayShown DEF ScreenTyped, TerminalTypeOK, Modes, WaitingModes, InvoicePopups
    <2>1. CASE \E t \in Tabs : SwitchTab(t)
      BY <2>1 DEF SwitchTab
    <2>2. CASE SubmitForm \/ BackToForm
      BY <2>2 DEF SubmitForm, BackToForm
    <2>9. CASE DiscardForm
      <3>1. Show("Normal", FALSE) /\ tab' = tab
        BY <2>9 DEF DiscardForm
      <3> QED
        BY <3>1 DEF Show
    <2>3. CASE OpenBookOrder \/ TradeShortcut \/ TradeKeyAnywhere
      BY <2>3 DEF OpenBookOrder, TradeShortcut, TradeKeyAnywhere
    <2>4. CASE OpenMessage
      BY <2>4 DEF OpenMessage
    <2>5. CASE Acknowledge \/ TypeInvoice \/ Decline
      BY <2>5 DEF Acknowledge, TypeInvoice, Decline
    <2>6. CASE OpenSetting \/ Help \/ Exit
      BY <2>6 DEF OpenSetting, Help, Exit
    <2>7. CASE CloseResult
      BY <2>7 DEF CloseResult, Tabs
    <2>8. CASE CloseBackup \/ DismissPopup
      BY <2>8 DEF CloseBackup, DismissPopup
    <2> QED
      BY <2>1, <2>2, <2>3, <2>4, <2>5, <2>6, <2>7, <2>8, <2>9
      DEF QuietKey
  <1>2. /\ asked' = asked /\ notes' = notes
        /\ stash' \in BOOLEAN /\ restart' \in BOOLEAN
    BY DEF QuietKey, Quiet, SwitchTab, SubmitForm, DiscardForm, BackToForm,
       OpenBookOrder, OpenMessage, TradeShortcut, TradeKeyAnywhere, Acknowledge,
       TypeInvoice, OpenSetting, Decline, CloseResult, Help, Exit, CloseBackup,
       DismissPopup, TerminalTypeOK
  <1>3. NoAnswer
    BY <1>2, AskingAnswersNone DEF TerminalTypeOK
  <1> QED
    BY <1>1, <1>2, <1>3 DEF ScreenTyped, TerminalTypeOK

LEMMA AskingKeyStep ==
  ASSUME TerminalTypeOK, AskingKey
  PROVE  TerminalTypeOK' /\ WaitHasAnswer' /\ NoAnswer
  <1>1. ScreenTyped /\ mode' \in WaitingModes
    <2> USE Shown, StayShown DEF ScreenTyped, TerminalTypeOK, Modes, WaitingModes
    <2>1. CASE ConfirmOrder
      <3>1. Show("WaitingForMostro", TRUE) /\ tab' = tab
        BY <2>1 DEF ConfirmOrder
      <3> QED
        BY <3>1 DEF Show
    <2>2. CASE ~ConfirmOrder
      BY <2>2 DEF AskingKey, TakeOrder, SendMessage, submit_add_invoice,
         submit_add_bond_invoice, spawn_cancel_from_notification
    <2> QED
      BY <2>1, <2>2
  <1>2. \E k \in Awaited(mode') : k \in Kinds /\ Ask(k)
    <2> USE Shown, StayShown, KindsListed DEF Awaited
    <2>1. CASE ConfirmOrder
      <3>1. Show("WaitingForMostro", TRUE) /\ Ask("new")
        BY <2>1 DEF ConfirmOrder
      <3>2. mode' = "WaitingForMostro"
        BY <3>1 DEF Show
      <3> QED
        BY <3>1, <3>2
    <2>2. CASE TakeOrder
      BY <2>2 DEF TakeOrder
    <2>3. CASE SendMessage \/ submit_add_invoice \/ spawn_cancel_from_notification
      BY <2>3 DEF SendMessage, submit_add_invoice, spawn_cancel_from_notification
    <2>4. CASE submit_add_bond_invoice
      BY <2>4 DEF submit_add_bond_invoice
    <2> QED
      BY <2>1, <2>2, <2>3, <2>4 DEF AskingKey
  <1>3. stash' \in BOOLEAN /\ restart' = restart /\ notes' = notes
    BY DEF AskingKey, ConfirmOrder, TakeOrder, SendMessage, submit_add_invoice,
       submit_add_bond_invoice, spawn_cancel_from_notification, TerminalTypeOK
  <1>4. PICK k \in Awaited(mode') : k \in Kinds /\ Ask(k)
    BY <1>2
  <1>5. asked' \in [Kinds -> 0 .. MaxAsked] /\ asked'[k] > 0
    BY <1>4, AskTyped DEF TerminalTypeOK
  <1>6. WaitHasAnswer'
    BY <1>4, <1>5 DEF WaitHasAnswer
  <1>7. NoAnswer
    BY <1>4, AskingAnswersNone DEF TerminalTypeOK
  <1> QED
    BY <1>1, <1>3, <1>5, <1>6, <1>7 DEF ScreenTyped, TerminalTypeOK

LEMMA RestlessKeyStep ==
  ASSUME TerminalTypeOK, RestlessKey
  PROVE  TerminalTypeOK' /\ mode' \notin WaitingModes /\ NoAnswer
  <1>1. ScreenTyped /\ mode' \notin WaitingModes
    <2> USE Shown, StayShown DEF ScreenTyped, TerminalTypeOK, Modes, WaitingModes
    <2>1. CASE RevealSharedKey
      BY <2>1 DEF RevealSharedKey
    <2>2. CASE ~RevealSharedKey
      BY <2>2 DEF RestlessKey, EmptyInvoice, ConfirmDelete, ConfirmSetting,
         GenerateKeys, LoadFromSettings
    <2> QED
      BY <2>1, <2>2
  <1>2. asked' = asked \/ \E k \in Kinds : Ask(k)
    BY KindsListed
    DEF RestlessKey, RevealSharedKey, EmptyInvoice, ConfirmDelete, ConfirmSetting,
        GenerateKeys, LoadFromSettings
  <1>3. asked' \in [Kinds -> 0 .. MaxAsked] /\ NoAnswer
    BY <1>2, AskTyped, AskingAnswersNone DEF TerminalTypeOK
  <1>4. UNCHANGED <<stash, restart, notes>>
    BY DEF RestlessKey, RevealSharedKey, EmptyInvoice, ConfirmDelete, ConfirmSetting,
       GenerateKeys, LoadFromSettings
  <1> QED
    BY <1>1, <1>3, <1>4 DEF ScreenTyped, TerminalTypeOK

-----------------------------------------------------------------------------
\* A reply that opens no popup is the one answer that leaves the mode alone.
LEMMA ReplyStep ==
  ASSUME TerminalTypeOK, NEW k \in Kinds, NEW a,
         apply_open_invoice_popup_from_execute(k, a)
  PROVE  TerminalTypeOK' /\ (Opens(a) => mode' \notin WaitingModes)
  <1>1. asked' \in [Kinds -> 0 .. MaxAsked]
    BY AnsweredTyped DEF apply_open_invoice_popup_from_execute, TerminalTypeOK
  <1>2. ScreenTyped /\ (Opens(a) => mode' \notin WaitingModes)
    BY StayShown
    DEF apply_open_invoice_popup_from_execute, OpenInvoicePopup, ScreenTyped,
        TerminalTypeOK, Modes, WaitingModes, InvoicePopups
  <1>3. UNCHANGED <<stash, restart, notes>>
    BY DEF apply_open_invoice_popup_from_execute
  <1> QED
    BY <1>1, <1>2, <1>3 DEF ScreenTyped, TerminalTypeOK

LEMMA ResultStep ==
  ASSUME TerminalTypeOK, NEW k \in Kinds, NEW result,
         handle_operation_result(k, result)
  PROVE  /\ TerminalTypeOK' /\ mode' \notin WaitingModes
         /\ mode \in InvoicePopups => mode' = mode
  <1>1. asked' \in [Kinds -> 0 .. MaxAsked]
    BY AnsweredTyped DEF handle_operation_result, TerminalTypeOK
  <1>2. /\ ScreenTyped /\ mode' \notin WaitingModes /\ stash' \in BOOLEAN
        /\ mode \in InvoicePopups => mode' = mode
    <2> USE Shown
        DEF handle_operation_result, ScreenTyped, TerminalTypeOK, Modes, WaitingModes,
            InvoicePopups
    <2>1. CASE mode \in InvoicePopups
      BY <2>1
    <2>2. CASE mode \notin InvoicePopups
      BY <2>2
    <2> QED
      BY <2>1, <2>2
  <1>3. UNCHANGED <<restart, notes>>
    BY DEF handle_operation_result
  <1> QED
    BY <1>1, <1>2, <1>3 DEF ScreenTyped, TerminalTypeOK

LEMMA PaymentStep ==
  ASSUME TerminalTypeOK, NEW k \in Kinds, PaymentRequestRequired(k)
  PROVE  TerminalTypeOK' /\ mode' \in InvoicePopups
  <1>1. asked' \in [Kinds -> 0 .. MaxAsked]
    BY AnsweredTyped DEF PaymentRequestRequired, TerminalTypeOK
  <1>2. ScreenTyped /\ mode' \in InvoicePopups
    BY Shown DEF PaymentRequestRequired, ScreenTyped, TerminalTypeOK, Modes, InvoicePopups
  <1> QED
    BY <1>1, <1>2 DEF PaymentRequestRequired, ScreenTyped, TerminalTypeOK

\* Information, rotated keys and seed words are shown over any mode.
LEMMA ShownStep ==
  ASSUME TerminalTypeOK, NEW k \in Kinds, (k = "info" /\ ShowInfo) \/ ShowKeys(k)
  PROVE  TerminalTypeOK' /\ mode' \notin WaitingModes
  <1>1. asked' \in [Kinds -> 0 .. MaxAsked]
    BY AnsweredTyped DEF ShowInfo, ShowKeys, TerminalTypeOK
  <1>2. ScreenTyped /\ mode' \notin WaitingModes
    BY StayShown DEF ShowInfo, ShowKeys, ScreenTyped, TerminalTypeOK, Modes, WaitingModes
  <1>3. stash' = stash /\ restart' \in BOOLEAN /\ notes' = notes
    BY DEF ShowInfo, ShowKeys, TerminalTypeOK
  <1> QED
    BY <1>1, <1>2, <1>3 DEF ScreenTyped, TerminalTypeOK

LEMMA NotificationStep ==
  ASSUME TerminalTypeOK, handle_message_notification
  PROVE  TerminalTypeOK' /\ mode' \notin WaitingModes
  <1>1. ScreenTyped /\ mode' \notin WaitingModes
    BY StayShown
    DEF handle_message_notification, ScreenTyped, TerminalTypeOK, Modes, WaitingModes,
        InvoicePopups
  <1> QED
    BY <1>1, TerminalBounds DEF handle_message_notification, ScreenTyped, TerminalTypeOK

LEMMA AnswerStep ==
  ASSUME TerminalTypeOK, NEW k \in Kinds, Answer(k)
  PROVE  TerminalTypeOK'
  BY ReplyStep, ResultStep, PaymentStep, ShownStep DEF Answer

\* The terminal's state is typed, for every bound.
THEOREM TerminalTyped == Spec => []TerminalTypeOK
  <1>1. Init => TerminalTypeOK
    <2>1. Init => asked \in [Kinds -> 0 .. MaxAsked] /\ notes \in 0 .. MaxNotes
      BY TerminalBounds DEF Init
    <2>2. Init => mode \in Modes /\ tab \in Tabs
      BY DEF Init, Modes, Tabs
    <2> QED
      BY <2>1, <2>2 DEF Init, TerminalTypeOK
  <1>2. TerminalTypeOK /\ [Next]_vars => TerminalTypeOK'
    <2> SUFFICES ASSUME TerminalTypeOK, [Next]_vars PROVE TerminalTypeOK'
      OBVIOUS
    <2>1. CASE Key
      BY <2>1, KeyCases, QuietKeyStep, AskingKeyStep, RestlessKeyStep
    <2>2. CASE Reconnected
      BY <2>2 DEF Reconnected, TerminalTypeOK
    <2>3. CASE UNCHANGED vars
      BY <2>3 DEF vars, TerminalTypeOK
    <2> QED
      BY <2>1, <2>2, <2>3, AnswerStep, NotificationStep DEF Next
  <1> QED
    BY <1>1, <1>2, PTL DEF Spec

\* The replies Mostro gives to a bond payout invoice while the buyer's invoice
\* is what the trade waits for; the others open no popup.
LEMMA RepliesOpen ==
  /\ Opens("AddInvoice")
  /\ Opens("WaitingBuyerInvoice")
  BY DEF Opens, invoice_popup_allowed_for_order_status,
         inferred_status_from_trade_action

\* With those replies only, whatever is waited for is in flight: the terminal
\* is never left in a mode that no key closes and no answer will.
THEOREM WaitsAreAnswered ==
  ASSUME BondReplies \subseteq {"AddInvoice", "WaitingBuyerInvoice"}
  PROVE  Spec => []WaitHasAnswer
  <1>1. Init => WaitHasAnswer
    BY DEF Init, WaitHasAnswer, WaitingModes
  <1>2. TerminalTypeOK /\ WaitHasAnswer /\ [Next]_vars => WaitHasAnswer'
    <2> SUFFICES ASSUME TerminalTypeOK, WaitHasAnswer, [Next]_vars
                 PROVE  WaitHasAnswer'
      OBVIOUS
    <2>1. CASE Key
      BY <2>1, KeyCases, QuietKeyStep, AskingKeyStep, RestlessKeyStep DEF WaitHasAnswer
    <2>2. ASSUME NEW k \in Kinds, Answer(k)
          PROVE  mode' \notin WaitingModes
      <3>1. mode' \in InvoicePopups => mode' \notin WaitingModes
        BY DEF InvoicePopups, WaitingModes
      <3>2. \A a \in BondReplies : Opens(a)
        BY RepliesOpen
      <3> QED
        BY <2>2, <3>1, <3>2, RepliesOpen, ReplyStep, ResultStep, PaymentStep, ShownStep
        DEF Answer
    <2>3. CASE Reconnected
      BY <2>3 DEF Reconnected, WaitHasAnswer
    <2>4. CASE UNCHANGED vars
      BY <2>4 DEF vars, WaitHasAnswer
    <2> QED
      BY <2>1, <2>2, <2>3, <2>4, NotificationStep DEF Next, WaitHasAnswer
  <1> QED
    BY <1>1, <1>2, TerminalTyped, PTL DEF Spec

\* An order result that comes over an invoice popup never takes it from the
\* screen, whatever its reply and whatever else is in flight.
THEOREM QuestionsSurvive == Spec => QuestionSurvives
  <1> DEFINE Survives ==
        \A k \in {"new", "take", "bond", "send", "local"} :
          AnswerOf(k) /\ mode \in InvoicePopups =>
            mode' \in InvoicePopups \cup {"WaitingPopup"}
  <1>1. ASSUME TerminalTypeOK, Next PROVE Survives
    <2>1. ASSUME NoAnswer PROVE Survives
      BY <2>1, KindsListed DEF NoAnswer
    <2>2. CASE Key
      BY <1>1, <2>1, <2>2, KeyCases, QuietKeyStep, AskingKeyStep, RestlessKeyStep
    <2>3. CASE handle_message_notification \/ Reconnected
      <3>1. asked' = asked
        BY <2>3 DEF handle_message_notification, Reconnected
      <3> QED
        BY <1>1, <2>1, <3>1, AskingAnswersNone DEF TerminalTypeOK
    <2>4. ASSUME NEW k \in Kinds, Answer(k)
          PROVE  Survives
      <3>1. CASE \E result \in ResultsOf(k) : handle_operation_result(k, result)
        BY <1>1, <3>1, ResultStep
      <3>2. CASE PaymentRequestRequired(k)
        BY <1>1, <3>2, PaymentStep
      <3>3. ASSUME NEW a, apply_open_invoice_popup_from_execute(k, a)
            PROVE  Survives
        BY <3>3, StayShown
        DEF apply_open_invoice_popup_from_execute, OpenInvoicePopup, InvoicePopups
      <3>4. CASE (k = "info" /\ ShowInfo) \/ ShowKeys(k)
        <4>1. k \in {"info", "rotate", "seeds"} /\ Answered(k)
          BY <3>4 DEF ShowInfo, ShowKeys
        <4>2. \A j \in Kinds : j # k => asked'[j] = asked[j] /\ asked[j] \in Nat
          BY <1>1, <4>1, TerminalBounds DEF Answered, TerminalTypeOK
        <4> QED
          BY <4>1, <4>2, KindsListed DEF AnswerOf
      <3> QED
        BY <2>4, <3>1, <3>2, <3>3, <3>4 DEF Answer
    <2> QED
      BY <1>1, <2>2, <2>3, <2>4 DEF Next
  <1>2. TerminalTypeOK /\ [Next]_vars => [Survives]_vars
    BY <1>1
  <1> QED
    BY <1>2, TerminalTyped, PTL DEF Spec, QuestionSurvives
=============================================================================
