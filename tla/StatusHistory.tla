--------------------------- MODULE StatusHistory ---------------------------
(***************************************************************************)
(* A stored status under an arbitrary stream of candidates: every step     *)
(* offers one candidate status for a listing of a fixed (possibly unknown) *)
(* kind and stores it exactly when the guard of the code allows it.  The   *)
(* `past` variable remembers every status ever stored.                     *)
(***************************************************************************)
EXTENDS OrderStatus

CONSTANT MaxWrites   \* bound on the number of offered candidates

ASSUME MaxWritesAssumption == MaxWrites \in Nat

VARIABLES kind, current, past, writes
historyVars == <<kind, current, past, writes>>

HistoryInit ==
  /\ kind \in Kinds \cup {NoKind}
  /\ current = NoStatus
  /\ past = {}
  /\ writes = 0

Offer(candidate) ==
  /\ writes < MaxWrites
  /\ should_apply_status_transition(current, candidate, kind)
  /\ current' = candidate
  /\ past' = past \cup {candidate}
  /\ writes' = writes + 1
  /\ UNCHANGED kind

HistoryNext == \E candidate \in Statuses : Offer(candidate)

HistorySpec == HistoryInit /\ [][HistoryNext]_historyVars

HistoryTypeOK ==
  /\ kind \in Kinds \cup {NoKind}
  /\ current \in Statuses \cup {NoStatus}
  /\ past \subseteq Statuses
  /\ writes \in 0 .. MaxWrites

\* An order never returns to a phase it has left: no matter how many
\* candidates were accepted in between, whatever was stored earlier could
\* still have led directly to what is stored now (the guard composes along
\* the whole history, although the code only ever compares with the last).
HistoryOnlyMovesForward ==
  \A s \in past : should_apply_status_transition(s, current, kind)

\* Once any terminal status was stored it is the one stored for good, and no
\* second outcome of the trade is ever recorded.
OutcomeIsFinal == past \cap TerminalTradeStatuses \subseteq {current}

=============================================================================
