--------------------------- MODULE ScreenProofs ---------------------------
(***************************************************************************)
(* Proofs about what the user is shown, for any rows, files, chats and     *)
(* messages.  Lists: what a key acts on is what the last frame highlighted, *)
(* and the main loop itself never moves the highlight off a dispute.       *)
(* Uploads: one runs at a time, and an uploaded file is not lost.  Chats:  *)
(* a file is the transcript ChatTranscript promises, the screen shows what *)
(* the file has, and no message that is due is lost uncounted.             *)
(***************************************************************************)
EXTENDS ListPanes, ChatRouter, SequenceTheorems, FiniteSetTheorems,
        WellFoundedInduction, TLAPS

-----------------------------------------------------------------------------
(* Rows of a list, by induction over their number: every nonempty set of   *)
(* numbers has a least one, which is the library's fact about <.           *)

LEMMA Least ==
  ASSUME NEW T \in SUBSET Nat, T # {}
  PROVE  \E x \in T : \A y \in T : ~(y < x)
<1>1. PICK x \in T : \A y \in T : ~ (<<y, x>> \in OpToRel(<, Nat))
  BY NatLessThanWellFounded, WFMin
<1> QED BY <1>1 DEF OpToRel

\* Induction, for a set of numbers.
LEMMA SetInduction ==
  ASSUME NEW S, 0 \in S, \A n \in Nat : n \in S => n + 1 \in S
  PROVE  Nat \subseteq S
<1> SUFFICES ASSUME Nat \ S # {} PROVE FALSE
  OBVIOUS
<1>1. PICK x \in Nat \ S : \A y \in Nat \ S : ~(y < x)
  BY Least
<1>2. x # 0 /\ x - 1 \in Nat
  BY <1>1
<1>3. x - 1 \in S
  BY <1>1, <1>2
<1> QED BY <1>1, <1>2, <1>3

\* g is what the recursion of Only computes, up to n.
Selects(g, s, set, n) ==
  g = [i \in 0 .. n |->
         IF i = 0 THEN << >>
         ELSE IF s[i] \in set THEN Append(g[i - 1], s[i]) ELSE g[i - 1]]

LEMMA SelectsIsDefined ==
  ASSUME NEW s, NEW set, NEW n \in Nat
  PROVE  \E g : Selects(g, s, set, n)
<1> DEFINE P == {m \in Nat : \E g : Selects(g, s, set, m)}
<1>1. 0 \in P
  <2> DEFINE g == [i \in 0 .. 0 |-> << >>]
  <2>1. Selects(g, s, set, 0)
    BY DEF Selects
  <2> QED BY <2>1
<1>2. ASSUME NEW m \in Nat, m \in P PROVE m + 1 \in P
  <2>1. PICK h : Selects(h, s, set, m)
    BY <1>2
  <2> DEFINE next == IF s[m + 1] \in set THEN Append(h[m], s[m + 1]) ELSE h[m]
             g == [i \in 0 .. m + 1 |-> IF i = m + 1 THEN next ELSE h[i]]
             At(i) == IF i = 0 THEN << >>
                      ELSE IF s[i] \in set THEN Append(g[i - 1], s[i]) ELSE g[i - 1]
  <2>2. \A i \in 0 .. m : g[i] = h[i]
    OBVIOUS
  <2>3. ASSUME NEW i \in 0 .. m PROVE g[i] = At(i)
    <3>1. h[i] = IF i = 0 THEN << >>
                 ELSE IF s[i] \in set THEN Append(h[i - 1], s[i]) ELSE h[i - 1]
      BY <2>1 DEF Selects
    <3>2. g[i] = h[i] /\ (i # 0 => g[i - 1] = h[i - 1])
      BY <2>2
    <3> QED BY <3>1, <3>2
  <2>4. g[m + 1] = At(m + 1)
    BY <2>2
  <2>5. \A i \in 0 .. m + 1 : g[i] = At(i)
    <3> HIDE DEF At, g
    <3> QED BY <2>3, <2>4
  <2> HIDE DEF At
  <2>6. g = [i \in 0 .. m + 1 |-> At(i)]
    BY <2>5
  <2>7. Selects(g, s, set, m + 1)
    BY <2>6 DEF Selects, At
  <2> QED BY <2>7
<1> QED BY <1>1, <1>2, SetInduction

LEMMA OnlyIsSelected ==
  ASSUME NEW s, NEW set, Len(s) \in Nat
  PROVE  \E g : Selects(g, s, set, Len(s)) /\ Only(s, set) = g[Len(s)]
<1> DEFINE g == CHOOSE h : Selects(h, s, set, Len(s))
<1>1. Selects(g, s, set, Len(s))
  BY SelectsIsDefined
<1>2. Only(s, set) = g[Len(s)]
  BY DEF Only, Selects
<1> QED BY <1>1, <1>2

LEMMA OnlyKeeps ==
  ASSUME NEW X, NEW s \in Seq(X), NEW set
  PROVE  /\ Only(s, set) \in Seq(X)
         /\ Range(Only(s, set)) = Range(s) \cap set
<1>1. PICK g : Selects(g, s, set, Len(s)) /\ Only(s, set) = g[Len(s)]
  BY OnlyIsSelected
<1>2. ASSUME NEW i \in 0 .. Len(s)
      PROVE  g[i] = IF i = 0 THEN << >>
                    ELSE IF s[i] \in set THEN Append(g[i - 1], s[i]) ELSE g[i - 1]
  BY <1>1 DEF Selects
<1> DEFINE First(n) == {s[i] : i \in 1 .. n} \cap set
           P == {n \in Nat : n <= Len(s) => g[n] \in Seq(X) /\ Range(g[n]) = First(n)}
<1>3. 0 \in P
  <2>1. g[0] = << >>
    BY <1>2
  <2>2. Range(<< >>) = {} /\ First(0) = {}
    BY DEF Range
  <2>3. g[0] \in Seq(X) /\ Range(g[0]) = First(0)
    BY <2>1, <2>2
  <2> QED BY <2>3
<1>4. ASSUME NEW n \in Nat, n \in P PROVE n + 1 \in P
  <2> SUFFICES ASSUME n + 1 <= Len(s) PROVE g[n + 1] \in Seq(X) /\ Range(g[n + 1]) = First(n + 1)
    OBVIOUS
  <2>1. g[n] \in Seq(X) /\ Range(g[n]) = First(n)
    BY <1>4
  <2>2. s[n + 1] \in X
    OBVIOUS
  <2>3. First(n + 1) = First(n) \cup ({s[n + 1]} \cap set)
    OBVIOUS
  <2>4. CASE s[n + 1] \in set
    <3>1. g[n + 1] = Append(g[n], s[n + 1])
      <4>1. n + 1 \in 0 .. Len(s) /\ n + 1 # 0 /\ (n + 1) - 1 = n
        OBVIOUS
      <4> QED BY <1>2, <2>4, <4>1
    <3>2. Range(Append(g[n], s[n + 1])) = Range(g[n]) \cup {s[n + 1]}
      <4> DEFINE longer == Append(g[n], s[n + 1])
      <4>1. /\ DOMAIN longer = 1 .. Len(g[n]) + 1 /\ DOMAIN g[n] = 1 .. Len(g[n])
            /\ Len(g[n]) \in Nat
            /\ \A i \in 1 .. Len(g[n]) : longer[i] = g[n][i]
            /\ longer[Len(g[n]) + 1] = s[n + 1]
        BY <2>1, <2>2
      <4>2. /\ Range(longer) = {longer[i] : i \in 1 .. Len(g[n]) + 1}
            /\ Range(g[n]) = {g[n][i] : i \in 1 .. Len(g[n])}
        BY <4>1 DEF Range
      <4> HIDE DEF longer
      <4> QED BY <4>1, <4>2 DEF longer
    <3> QED BY <2>1, <2>2, <2>3, <2>4, <3>1, <3>2
  <2>5. CASE s[n + 1] \notin set
    BY <1>2, <2>1, <2>3, <2>5
  <2> QED BY <2>4, <2>5
<1>5. Len(s) \in P
  <2> HIDE DEF P
  <2> QED BY <1>3, <1>4, SetInduction
<1>6. First(Len(s)) = Range(s) \cap set
  BY DEF Range
<1> QED BY <1>1, <1>5, <1>6

\* The first row kept stays the first when others go.
LEMMA FirstStays ==
  ASSUME NEW X, NEW s \in Seq(X), NEW set, NEW less, less \subseteq set,
         Only(s, set) # << >>, Only(s, set)[1] \in less
  PROVE  Only(s, less) # << >> /\ Only(s, less)[1] = Only(s, set)[1]
<1>1. PICK g : Selects(g, s, set, Len(s)) /\ Only(s, set) = g[Len(s)]
  BY OnlyIsSelected
<1>2. PICK h : Selects(h, s, less, Len(s)) /\ Only(s, less) = h[Len(s)]
  BY OnlyIsSelected
<1>3. ASSUME NEW i \in 0 .. Len(s)
      PROVE  /\ g[i] = IF i = 0 THEN << >>
                       ELSE IF s[i] \in set THEN Append(g[i - 1], s[i]) ELSE g[i - 1]
             /\ h[i] = IF i = 0 THEN << >>
                       ELSE IF s[i] \in less THEN Append(h[i - 1], s[i]) ELSE h[i - 1]
  BY <1>1, <1>2 DEF Selects
<1> DEFINE P == {n \in Nat : n <= Len(s) =>
                   /\ g[n] \in Seq(X) /\ h[n] \in Seq(X)
                   /\ g[n] # << >> /\ g[n][1] \in less => h[n] # << >> /\ h[n][1] = g[n][1]
                   /\ g[n] = << >> => h[n] = << >>}
<1>4. 0 \in P
  <2>1. g[0] = << >> /\ h[0] = << >>
    BY <1>3
  <2>2. << >> \in Seq(X)
    OBVIOUS
  <2> QED BY <2>1, <2>2
<1>5. ASSUME NEW n \in Nat, n \in P PROVE n + 1 \in P
  <2> SUFFICES ASSUME n + 1 <= Len(s)
               PROVE  /\ g[n + 1] \in Seq(X) /\ h[n + 1] \in Seq(X)
                      /\ g[n + 1] # << >> /\ g[n + 1][1] \in less =>
                           h[n + 1] # << >> /\ h[n + 1][1] = g[n + 1][1]
                      /\ g[n + 1] = << >> => h[n + 1] = << >>
    OBVIOUS
  <2>1. /\ g[n] \in Seq(X) /\ h[n] \in Seq(X)
        /\ g[n] # << >> /\ g[n][1] \in less => h[n] # << >> /\ h[n][1] = g[n][1]
        /\ g[n] = << >> => h[n] = << >>
    BY <1>5
  <2>2. /\ g[n + 1] = IF s[n + 1] \in set THEN Append(g[n], s[n + 1]) ELSE g[n]
        /\ h[n + 1] = IF s[n + 1] \in less THEN Append(h[n], s[n + 1]) ELSE h[n]
    <3>1. n + 1 \in 0 .. Len(s) /\ n + 1 # 0 /\ (n + 1) - 1 = n
      OBVIOUS
    <3> QED BY <1>3, <3>1
  <2>3. s[n + 1] \in X
    OBVIOUS
  <2>4. \A t \in Seq(X) :
          /\ Append(t, s[n + 1]) \in Seq(X) /\ Append(t, s[n + 1]) # << >>
          /\ t # << >> => Append(t, s[n + 1])[1] = t[1]
          /\ t = << >> => Append(t, s[n + 1])[1] = s[n + 1]
    <3> TAKE t \in Seq(X)
    <3>1. /\ Append(t, s[n + 1]) \in Seq(X) /\ Len(Append(t, s[n + 1])) = Len(t) + 1
          /\ Append(t, s[n + 1])[Len(t) + 1] = s[n + 1]
          /\ \A i \in 1 .. Len(t) : Append(t, s[n + 1])[i] = t[i]
      BY <2>3, AppendProperties
    <3>2. Len(t) \in Nat /\ (t = << >> <=> Len(t) = 0)
      OBVIOUS
    <3> QED BY <3>1, <3>2
  <2> QED BY <2>1, <2>2, <2>4
<1>6. Len(s) \in P
  <2> HIDE DEF P
  <2> QED BY <1>4, <1>5, SetInduction
<1> QED BY <1>1, <1>2, <1>6

LEMMA AllAreKept ==
  ASSUME NEW X, NEW s \in Seq(X), NEW set, Range(s) \subseteq set
  PROVE  Only(s, set) = s
<1>1. PICK g : Selects(g, s, set, Len(s)) /\ Only(s, set) = g[Len(s)]
  BY OnlyIsSelected
<1>2. ASSUME NEW n \in Nat, n + 1 \in 1 .. Len(s)
      PROVE  g[n + 1] = Append(g[n], s[n + 1])
  <2>1. n + 1 \in 0 .. Len(s) /\ n + 1 # 0 /\ (n + 1) - 1 = n
    BY <1>2
  <2>2. s[n + 1] \in set
    BY <1>2 DEF Range
  <2> QED BY <1>1, <2>1, <2>2 DEF Selects
<1>3. g[0] = << >>
  BY <1>1 DEF Selects
<1> DEFINE P == {n \in Nat : n <= Len(s) => g[n] = SubSeq(s, 1, n)}
<1>4. 0 \in P
  <2>1. SubSeq(s, 1, 0) = << >>
    BY SubSeqEmpty
  <2> QED BY <1>3, <2>1
<1>5. ASSUME NEW n \in Nat, n \in P PROVE n + 1 \in P
  <2> SUFFICES ASSUME n + 1 <= Len(s) PROVE g[n + 1] = SubSeq(s, 1, n + 1)
    OBVIOUS
  <2>1. g[n + 1] = Append(SubSeq(s, 1, n), s[n + 1])
    BY <1>2, <1>5
  <2>2. Append(SubSeq(s, 1, n), s[n + 1]) = SubSeq(s, 1, n + 1)
    OBVIOUS
  <2> QED BY <2>1, <2>2
<1>6. Len(s) \in P
  <2> HIDE DEF P
  <2> QED BY <1>4, <1>5, SetInduction
<1> QED BY <1>1, <1>6, SubSeqFull

-----------------------------------------------------------------------------
(* The state of the tab.                                                   *)

IsMode(m) == m.item \in Items \cup {None} /\ m = [name |-> m.name, item |-> m.item]

PanesTyped ==
  /\ pane \in Panes /\ list \in Seq(Items) /\ idx \in Nat \ {0}
  /\ sel \in Items \cup {None}
  /\ IsMode(mode)
  /\ asked \subseteq Items

\* The row of some rows that a frame would highlight.
RowOf(rows) ==
  IF rows = << >> THEN None
  ELSE IF pane \in ById THEN rows[IdRow(rows)] ELSE rows[ClampedRow(rows)]

LEMMA RowTyped ==
  ASSUME NEW rows \in Seq(Items), rows # << >>, idx \in Nat \ {0}
  PROVE  /\ IdRow(rows) \in DOMAIN rows /\ ClampedRow(rows) \in DOMAIN rows
         /\ RowOf(rows) \in Range(rows) /\ Range(rows) \subseteq Items
         /\ sel \in Range(rows) => rows[IdRow(rows)] = sel
<1>1. Len(rows) \in Nat \ {0} /\ DOMAIN rows = 1 .. Len(rows)
  OBVIOUS
<1>2. sel \in Range(rows) => \E k \in DOMAIN rows : rows[k] = sel
  BY DEF Range
<1>3. IdRow(rows) \in DOMAIN rows /\ (sel \in Range(rows) => rows[IdRow(rows)] = sel)
  BY <1>1, <1>2 DEF IdRow
<1>4. ClampedRow(rows) \in DOMAIN rows
  BY <1>1 DEF ClampedRow
<1>5. \A k \in DOMAIN rows : rows[k] \in Range(rows) /\ rows[k] \in Items
  BY <1>1 DEF Range
<1>6. Range(rows) \subseteq Items
  BY <1>5 DEF Range
<1> QED BY <1>3, <1>4, <1>5, <1>6 DEF RowOf

LEMMA ShownTyped ==
  ASSUME PanesTyped
  PROVE  /\ ShownRows \in Seq(Items)
         /\ Range(ShownRows) = {i \in Range(list) : IsShown(i)}
         /\ Highlighted = RowOf(ShownRows)
         /\ Highlighted \in Items \cup {None} /\ Target \in Items \cup {None}
         /\ Target \in {Highlighted, None}
         /\ Highlighted # None => ShownRows # << >> /\ Highlighted \in Range(ShownRows)
<1>1. list \in Seq(Items) /\ Range(list) \subseteq Items
  BY DEF PanesTyped, Range
<1>2. ShownRows \in Seq(Items)
      /\ Range(ShownRows) = Range(list) \cap {i \in Items : IsShown(i)}
  BY <1>1, OnlyKeeps DEF ShownRows
<1>3. Highlighted = RowOf(ShownRows)
  BY DEF Highlighted, RowOf
<1>4. Target \in {Highlighted, None}
  BY DEF Target
<1>5. ShownRows # << >> => Highlighted \in Range(ShownRows) /\ Range(ShownRows) \subseteq Items
  BY <1>2, <1>3, RowTyped DEF PanesTyped
<1>6. ShownRows = << >> => Highlighted = None
  BY <1>3 DEF RowOf
<1> QED BY <1>1, <1>2, <1>3, <1>4, <1>5, <1>6

LEMMA ModesTyped ==
  /\ \A n, i : i \in Items \cup {None} => IsMode([name |-> n, item |-> i])
  /\ IsMode(Home) /\ IsMode(Asking) /\ IsMode(AdminNormal) /\ IsMode(Popup)
<1>1. ASSUME NEW n, NEW i, i \in Items \cup {None} PROVE IsMode([name |-> n, item |-> i])
  BY <1>1 DEF IsMode
<1> QED BY <1>1 DEF Home, Asking, AdminNormal, Popup

LEMMA MoveTyped ==
  ASSUME PanesTyped, handle_up_key \/ handle_down_key
  PROVE  PanesTyped'
<1> DEFINE rows == ShownRows
           from == IF pane \in ById THEN IdRow(rows)
                   ELSE IF pane = "Messages" THEN ClampedRow(rows) ELSE idx
<1>1. rows \in Seq(Items) /\ Len(rows) \in Nat /\ DOMAIN rows = 1 .. Len(rows)
  BY ShownTyped
<1>2. rows # << >> => from \in Nat \ {0} /\ (pane \in ById => from \in DOMAIN rows)
  BY <1>1, RowTyped DEF PanesTyped
<1>3. PICK next \in {UpFrom(from, Len(rows)), DownFrom(from, Len(rows))} :
        /\ UNCHANGED <<list, pane, mode, asked>>
        /\ IF rows = << >>
             THEN sel' \in {None, sel} /\ idx' \in {1, idx}
             ELSE IF pane \in ById THEN sel' = rows[next] /\ UNCHANGED idx
                                    ELSE idx' = next /\ UNCHANGED sel
  BY DEF handle_up_key, handle_down_key, Move, Key, listVars
<1>4. CASE rows = << >>
  BY <1>3, <1>4 DEF PanesTyped
<1>5. CASE rows # << >>
  <2>1. next \in Nat \ {0}
    BY <1>1, <1>2, <1>3, <1>5 DEF UpFrom, DownFrom
  <2>2. pane \in ById => next \in DOMAIN rows /\ rows[next] \in Items
    BY <1>1, <1>2, <1>3, <1>5 DEF UpFrom, DownFrom
  <2> HIDE DEF rows, from
  <2> QED BY <1>3, <1>5, <2>1, <2>2 DEF PanesTyped
<1> QED BY <1>4, <1>5

LEMMA KeysTyped ==
  ASSUME PanesTyped, KeyStep
  PROVE  PanesTyped'
<1>1. Target \in Items \cup {None} /\ mode.item \in Items \cup {None}
  BY ShownTyped DEF PanesTyped, IsMode
<1>2. ASSUME /\ UNCHANGED <<list, pane>>
             /\ idx' = idx /\ sel' \in {sel, None}
             /\ IsMode(mode')
             /\ asked' \in {asked, asked \cup {mode.item}} /\ (asked' = asked \/ mode.item # None)
      PROVE  PanesTyped'
  BY <1>1, <1>2 DEF PanesTyped
<1>3. CASE handle_up_key \/ handle_down_key
  BY <1>3, MoveTyped
<1>4. CASE TabKey \/ Filter
  BY <1>2, <1>4 DEF TabKey, Filter, Key, listVars, PanesTyped
<1>5. CASE EnterOrder \/ EnterPendingDispute \/ AskTrade \/ RateTrade
  BY <1>2, <1>5, ModesTyped
     DEF EnterOrder, EnterPendingDispute, AskTrade, RateTrade, Key, Does, Steady, listVars
<1>6. CASE EnterMessage
  <2>1. idx' = ClampedRow(ShownRows) /\ Target # None
    BY <1>6 DEF EnterMessage, Does
  <2>2. idx' \in Nat \ {0}
    BY <2>1, ShownTyped, RowTyped DEF PanesTyped
  <2> QED BY <1>6, <2>2, ModesTyped DEF EnterMessage, Key, Does, Steady, listVars, PanesTyped
<1>7. CASE EnterChat \/ EnterChatFails \/ RetryFile \/ PickFile
  BY <1>2, <1>7, ModesTyped
     DEF EnterChat, EnterChatFails, RetryFile, PickFile, Key, Does, Steady, listVars, PanesTyped
<1>8. CASE Review \/ EnterReview \/ BackToReview
  <2>1. \A n : IsMode([mode EXCEPT !.name = n])
    <3> TAKE n
    <3>1. [mode EXCEPT !.name = n] = [name |-> n, item |-> mode.item]
      BY DEF PanesTyped, IsMode
    <3> QED BY <1>1, <3>1, ModesTyped
  <2> QED BY <1>1, <1>2, <1>8, <2>1, ModesTyped
             DEF Review, EnterReview, BackToReview, Key, Does, Steady, listVars
<1>9. CASE Finalize \/ ConfirmDelete
  BY <1>2, <1>9, ModesTyped DEF Finalize, ConfirmDelete, Key, Does, Steady, listVars
<1>10. CASE OpenSave \/ EnterSave \/ OpenPicker \/ DeleteTrade
  BY <1>1, <1>2, <1>10, ModesTyped
     DEF OpenSave, EnterSave, OpenPicker, DeleteTrade, Key, Does, Steady, listVars
<1>11. CASE Close
  BY <1>2, <1>11, ModesTyped DEF Close, Key, Steady, listVars
<1> QED BY <1>3, <1>4, <1>5, <1>6, <1>7, <1>8, <1>9, <1>10, <1>11 DEF KeyStep

LEMMA LoopTyped ==
  ASSUME PanesTyped,
         \/ Idle \/ \E i \in Items : FileArrives(i)
         \/ DisputeResult \/ OtherResult \/ \E i \in Items : DeleteResult(i)
         \/ \E job \in jobs : UploadResult(job)
         \/ Settle \/ Draw
  PROVE  PanesTyped'
<1>1. CASE Idle
  BY <1>1 DEF Idle, listVars, paneVars, PanesTyped
<1>2. ASSUME NEW i \in Items, FileArrives(i) PROVE PanesTyped'
  BY <1>2 DEF FileArrives, listVars, PanesTyped
<1>3. CASE DisputeResult
  <2>1. \A i \in Rowable["DisputesInProgress"] : i \in Items /\ <<i>> \o list \in Seq(Items)
    <3>1. Rowable["DisputesInProgress"] \subseteq Items
      BY PanesAssumption DEF Panes
    <3> QED BY <3>1 DEF PanesTyped
  <2> QED BY <1>3, <2>1, ModesTyped DEF DisputeResult, Result, PanesTyped
<1>4. CASE OtherResult
  BY <1>4, ModesTyped DEF OtherResult, Result, PanesTyped
<1>5. ASSUME NEW i \in Items, DeleteResult(i) PROVE PanesTyped'
  <2>1. list' = Only(list, Items \ {i}) /\ list' \in Seq(Items)
    BY <1>5, OnlyKeeps DEF DeleteResult, PanesTyped
  <2>2. idx' \in Nat \ {0}
    <3>1. idx' = IF list' = << >> THEN 1 ELSE IF idx > Len(list') THEN Len(list') ELSE idx
      BY <1>5 DEF DeleteResult
    <3> HIDE DEF Only
    <3>2. list' # << >> => Len(list') \in Nat \ {0}
      BY <2>1
    <3> QED BY <3>1, <3>2 DEF PanesTyped
  <2> QED BY <1>5, <2>1, <2>2, ModesTyped DEF DeleteResult, Result, PanesTyped
<1>6. ASSUME NEW job \in jobs, UploadResult(job) PROVE PanesTyped'
  BY <1>6, ModesTyped DEF UploadResult, Result, PanesTyped
<1>7. CASE Settle
  <2>1. sel' \in {sel, None, Highlighted}
    BY <1>7 DEF Settle, Retained
  <2> QED BY <1>7, <2>1, ShownTyped DEF Settle, listVars, PanesTyped
<1>8. CASE Draw
  <2>1. idx' \in Nat \ {0}
    BY <1>8 DEF Draw, strip_new_order_messages_and_clamp_selected, PanesTyped
  <2> QED BY <1>8, <2>1 DEF Draw, listVars, PanesTyped
<1> QED BY <1>1, <1>2, <1>3, <1>4, <1>5, <1>6, <1>7, <1>8

LEMMA BackgroundTyped ==
  ASSUME PanesTyped,
         \/ \E i \in Items : Arrives(i) \/ Leaves(i) \/ Ends(i) \/ Stores(i)
         \/ UploadTask
  PROVE  PanesTyped'
<1>1. ASSUME NEW i \in Items, Arrives(i) PROVE PanesTyped'
  <2>1. PICK k \in 1 .. Len(list) + 1 :
         /\ list' = InsertAt(Only(list, Items \ {i}), k, i)
         /\ pane = "Messages" => k = 1
         /\ pane # "Messages" => i \notin Range(list)
    BY <1>1 DEF Arrives
  <2>2. Only(list, Items \ {i}) \in Seq(Items)
    BY OnlyKeeps DEF PanesTyped
  <2>3. pane # "Messages" => Only(list, Items \ {i}) = list
    BY <2>1, AllAreKept DEF PanesTyped, Range
  <2>4. k <= Len(Only(list, Items \ {i})) + 1
    BY <2>1, <2>2, <2>3
  <2>5. ASSUME NEW rest \in Seq(Items), k <= Len(rest) + 1 PROVE InsertAt(rest, k, i) \in Seq(Items)
    <3>1. SubSeq(rest, 1, k - 1) \in Seq(Items) /\ SubSeq(rest, k, Len(rest)) \in Seq(Items)
      <4>1. \A n \in 1 .. Len(rest) : rest[n] \in Items
        OBVIOUS
      <4> QED BY <2>1, <2>5, <4>1, SubSeqProperties
    <3> QED BY <3>1, ConcatProperties DEF InsertAt
  <2> QED BY <1>1, <2>1, <2>2, <2>4, <2>5 DEF Arrives, Background, paneVars, PanesTyped
<1>2. ASSUME NEW i \in Items, Leaves(i) PROVE PanesTyped'
  BY <1>2, OnlyKeeps DEF Leaves, Background, paneVars, PanesTyped
<1>3. ASSUME NEW i \in Items, Ends(i) \/ Stores(i) PROVE PanesTyped'
  BY <1>3 DEF Ends, Stores, Background, paneVars, PanesTyped
<1>4. CASE UploadTask
  BY <1>4 DEF UploadTask, listVars, paneVars, PanesTyped
<1> QED BY <1>1, <1>2, <1>3, <1>4

-----------------------------------------------------------------------------
(* What the last frame says while the main loop waits for input.           *)

FrameTold ==
  turn = "input" =>
    /\ frame.to = to /\ frame.at = RowOf(frame.rows)
    /\ frame.byId => sel = frame.at

LEMMA DrawnAsTold ==
  ASSUME PanesTyped, Draw
  PROVE  FrameTold'
<1>1. /\ frame' = [rows |-> ShownRows, at |-> Highlighted, to |-> to', byId |-> sel = Highlighted]
      /\ UNCHANGED <<pane, sel>> /\ idx' = strip_new_order_messages_and_clamp_selected
  BY DEF Draw
<1>2. ShownRows \in Seq(Items) /\ Highlighted = RowOf(ShownRows)
  BY ShownTyped
<1>3. pane = "Messages" => ShownRows = list
  <2> SUFFICES ASSUME pane = "Messages" PROVE ShownRows = list
    OBVIOUS
  <2>1. {i \in Items : IsShown(i)} = Items
    BY DEF IsShown
  <2>2. list \in Seq(Items) /\ Range(list) \subseteq Items
    BY DEF PanesTyped, Range
  <2> QED BY <2>1, <2>2, AllAreKept DEF ShownRows
<1>4. ShownRows # << >> /\ pane \notin ById =>
        (IF idx' > Len(ShownRows) THEN Len(ShownRows) ELSE idx') = ClampedRow(ShownRows)
  BY <1>1, <1>2, <1>3 DEF strip_new_order_messages_and_clamp_selected, ClampedRow, PanesTyped
<1>5. RowOf(ShownRows) = Highlighted
  BY <1>2
<1>6. RowOf(frame.rows)' = RowOf(ShownRows)
  <2>1. (frame.rows)' = ShownRows
    BY <1>1
  <2> DEFINE rows == ShownRows
  <2>2. RowOf(frame.rows)' =
          IF rows = << >> THEN None
          ELSE IF pane \in ById
               THEN rows[IF sel \in Range(rows) THEN CHOOSE k \in DOMAIN rows : rows[k] = sel ELSE 1]
               ELSE rows[IF idx' > Len(rows) THEN Len(rows) ELSE idx']
    BY <1>1, <2>1 DEF RowOf, IdRow, ClampedRow
  <2>3. RowOf(rows) =
          IF rows = << >> THEN None
          ELSE IF pane \in ById
               THEN rows[IF sel \in Range(rows) THEN CHOOSE k \in DOMAIN rows : rows[k] = sel ELSE 1]
               ELSE rows[ClampedRow(rows)]
    BY DEF RowOf, IdRow
  <2> HIDE DEF rows
  <2> QED BY <1>4, <2>2, <2>3 DEF rows
<1> QED BY <1>1, <1>5, <1>6 DEF FrameTold

LEMMA FrameStays ==
  ASSUME FrameTold, UNCHANGED <<turn, frame, to, pane, sel, idx>>
  PROVE  FrameTold'
<1>1. RowOf(frame.rows)' = RowOf(frame.rows)
  BY DEF RowOf, IdRow, ClampedRow
<1> QED BY <1>1 DEF FrameTold

LEMMA FrameStep ==
  ASSUME PanesTyped, FrameTold, [Next]_vars
  PROVE  FrameTold'
<1>1. CASE turn' # "input"
  BY <1>1 DEF FrameTold
<1>2. CASE UNCHANGED <<turn, frame, to, pane, sel, idx>>
  BY <1>2, FrameStays
<1>3. CASE Draw
  BY <1>3, DrawnAsTold
<1>4. CASE KeyStep
  <2>1. Key
    BY <1>4 DEF KeyStep, handle_up_key, handle_down_key, Move, TabKey, Filter, EnterOrder,
       EnterPendingDispute, EnterMessage, EnterChat, EnterChatFails, Review, EnterReview, Finalize,
       BackToReview, OpenSave, EnterSave, OpenPicker, PickFile, RetryFile, AskTrade, RateTrade,
       DeleteTrade, ConfirmDelete, Close
  <2> QED BY <1>1, <2>1 DEF Key
<1>5. CASE Idle \/ \E i \in Items : FileArrives(i)
  BY <1>1, <1>5 DEF Idle, FileArrives
<1>6. CASE \/ DisputeResult \/ OtherResult \/ \E i \in Items : DeleteResult(i)
           \/ \E job \in jobs : UploadResult(job)
  <2>1. Result
    BY <1>6 DEF DisputeResult, OtherResult, DeleteResult, UploadResult
  <2>2. turn' # "input"
    BY <2>1 DEF Result
  <2> QED BY <1>1, <2>2
<1>7. CASE Settle
  BY <1>1, <1>7 DEF Settle
<1>8. CASE \E i \in Items : Arrives(i) \/ Leaves(i) \/ Ends(i) \/ Stores(i)
  BY <1>2, <1>8 DEF Arrives, Leaves, Ends, Stores, Background, paneVars
<1>9. CASE UploadTask
  BY <1>2, <1>9 DEF UploadTask, paneVars
<1>10. CASE UNCHANGED vars
  BY <1>2, <1>10 DEF vars
<1> QED BY <1>3, <1>4, <1>5, <1>6, <1>7, <1>8, <1>9, <1>10 DEF Next

PanesInv == PanesTyped /\ FrameTold

LEMMA PanesInvariant == Spec => []PanesInv
<1>1. Init => PanesInv
  <2> SUFFICES ASSUME Init PROVE PanesInv
    OBVIOUS
  <2>1. PanesTyped
    BY ModesTyped DEF Init, PanesTyped
  <2>2. FrameTold
    BY DEF Init, FrameTold, RowOf
  <2> QED BY <2>1, <2>2 DEF PanesInv
<1>2. PanesInv /\ [Next]_vars => PanesInv'
  <2> SUFFICES ASSUME PanesInv, [Next]_vars PROVE PanesInv'
    OBVIOUS
  <2>1. PanesTyped'
    <3>1. CASE UNCHANGED vars
      BY <3>1 DEF vars, PanesInv, PanesTyped
    <3> QED BY <3>1, KeysTyped, LoopTyped, BackgroundTyped DEF PanesInv, Next
  <2>2. FrameTold'
    BY FrameStep DEF PanesInv
  <2> QED BY <2>1, <2>2 DEF PanesInv
<1> QED BY <1>1, <1>2, PTL DEF Spec

\* A key that acts on a row acts on the one the frame highlighted.
LEMMA TargetIsShown ==
  ASSUME PanesInv, turn = "input", Target # None
  PROVE  /\ ShownRows = frame.rows => Target = frame.at
         /\ pane \in ById /\ frame.byId /\ frame.at \in Range(ShownRows) => Target = frame.at
         /\ to = frame.to
<1>1. Target = Highlighted /\ Highlighted = RowOf(ShownRows)
  BY ShownTyped DEF PanesInv
<1>2. frame.at = RowOf(frame.rows) /\ frame.to = to /\ (frame.byId => sel = frame.at)
  BY DEF PanesInv, FrameTold
<1>3. ASSUME pane \in ById, sel \in Range(ShownRows) PROVE RowOf(ShownRows) = sel
  <2>1. ShownRows \in Seq(Items) /\ ShownRows # << >>
    BY <1>3, ShownTyped DEF PanesInv, Range
  <2> QED BY <1>3, <2>1, RowTyped DEF PanesInv, PanesTyped, RowOf
<1> QED BY <1>1, <1>2, <1>3

\* Whatever the background tasks do to the lists, a key acts on the row that the
\* last frame highlighted as long as the shown rows are the same, and on a row
\* selected by its id also when others came and went.
THEOREM KeysActOnShown == Spec => ActsOnShown
<1> DEFINE Acts ==
      \/ did' \in {Nothing, did} \/ did'.what \in {"Finalize", "UserSave", "Deleting"}
      \/ /\ ShownRows = frame.rows => did'.item = frame.at
         /\ pane \in ById /\ frame.byId /\ frame.at \in Range(ShownRows) => did'.item = frame.at
         /\ did'.to = frame.to
<1>1. ASSUME PanesInv, Next, did' # did, did' # Nothing PROVE Acts
  <2>1. ASSUME NEW what, turn = "input", Target # None,
               did' = [what |-> what, item |-> Target, to |-> to]
        PROVE  Acts
    <3>1. did'.item = Target /\ did'.to = to
      BY <2>1
    <3> QED BY <1>1, <2>1, <3>1, TargetIsShown
  <2>2. KeyStep
    BY <1>1 DEF Next, Arrives, Leaves, Ends, Stores, Background, UploadTask, Idle, FileArrives,
       DisputeResult, OtherResult, DeleteResult, UploadResult, Result, Settle, Draw
  <2>3. ~(handle_up_key \/ handle_down_key \/ TabKey \/ Filter \/ EnterChatFails \/ EnterReview
           \/ BackToReview \/ PickFile \/ Close)
    BY <1>1 DEF handle_up_key, handle_down_key, Move, TabKey, Filter, EnterChatFails, EnterReview,
       BackToReview, PickFile, Close
  <2>4. CASE Finalize \/ ConfirmDelete
    BY <2>4 DEF Finalize, ConfirmDelete, Does
  <2>5. CASE EnterOrder \/ EnterPendingDispute \/ EnterMessage \/ EnterChat \/ Review \/ OpenSave
             \/ OpenPicker \/ RetryFile \/ AskTrade \/ RateTrade \/ DeleteTrade
    BY <2>1, <2>5 DEF EnterOrder, EnterPendingDispute, EnterMessage, EnterChat, Review, OpenSave,
       OpenPicker, RetryFile, AskTrade, RateTrade, DeleteTrade, Does, Key
  <2>6. CASE EnterSave
    BY <2>1, <2>6 DEF EnterSave, Does, Key
  <2> QED BY <2>2, <2>3, <2>4, <2>5, <2>6 DEF KeyStep
<1>2. PanesInv /\ [Next]_vars => [Acts]_vars
  BY <1>1 DEF vars
<1> QED BY <1>2, PanesInvariant, PTL DEF Spec, ActsOnShown

-----------------------------------------------------------------------------
(* The highlight and the main loop's own steps.                            *)

\* The row highlighted next, when the tab and the position stay.
LEMMA HighlightedNext ==
  ASSUME UNCHANGED <<pane, idx>>
  PROVE  Highlighted' =
           IF ShownRows' = << >> THEN None
           ELSE IF pane \in ById
                THEN ShownRows'[IF sel' \in Range(ShownRows')
                                THEN CHOOSE k \in DOMAIN ShownRows' : ShownRows'[k] = sel' ELSE 1]
                ELSE ShownRows'[IF idx > Len(ShownRows') THEN Len(ShownRows') ELSE idx]
  BY DEF Highlighted, IdRow, ClampedRow

\* A row selected by its id and shown is the one highlighted.
LEMMA SelectedNext ==
  ASSUME UNCHANGED <<pane, idx>>, pane \in ById, sel' \in Range(ShownRows')
  PROVE  Highlighted' = sel'
<1> DEFINE rows == ShownRows'
<1>1. \E k \in DOMAIN rows : rows[k] = sel'
  BY DEF Range
<1>2. rows # << >>
  BY <1>1
<1>3. rows[CHOOSE k \in DOMAIN rows : rows[k] = sel'] = sel'
  BY <1>1
<1> HIDE DEF rows
<1> QED BY <1>2, <1>3, HighlightedNext DEF rows

LEMMA ShownNext ==
  ASSUME PanesTyped'
  PROVE  /\ ShownRows' \in Seq(Items)
         /\ Range(ShownRows') = {i \in Range(list') : IsShown(i)'}
<1> DEFINE shown == {i \in Items : IsShown(i)'}
<1>1. ShownRows' = Only(list', shown)
  BY DEF ShownRows
<1>2. list' \in Seq(Items) /\ Range(list') \subseteq Items
  BY DEF PanesTyped, Range
<1> QED BY <1>1, <1>2, OnlyKeeps

LEMMA SettleKeepsHighlight ==
  ASSUME PanesTyped, PanesTyped', Settle, ~filtered, Highlighted # None
  PROVE  Highlighted' = Highlighted
<1>1. /\ UNCHANGED <<pane, idx, list, ended, filtered>>
      /\ ShownRows \in Seq(Items) /\ ShownRows # << >> /\ Highlighted \in Range(ShownRows)
      /\ Range(ShownRows) = {i \in Range(list) : IsShown(i)}
      /\ Highlighted = RowOf(ShownRows)
  BY ShownTyped DEF Settle, listVars
<1>2. ASSUME pane # "DisputesInProgress" PROVE ShownRows' = ShownRows
  <2>1. \A i \in Items : IsShown(i)' <=> IsShown(i)
    BY <1>1, <1>2 DEF IsShown, order_passes_currency_filter, IsInitiated
  <2>2. {i \in Items : IsShown(i)'} = {i \in Items : IsShown(i)}
    BY <2>1
  <2>3. ShownRows' = Only(list, {i \in Items : IsShown(i)'})
    BY <1>1 DEF ShownRows
  <2> QED BY <2>2, <2>3 DEF ShownRows
<1>3. CASE pane = "Orders"
  <2>1. sel' = sel \/ (sel \notin Range(list) /\ sel' = None)
    BY <1>3 DEF Settle
  <2>2. sel' # sel => sel \notin Range(ShownRows) /\ sel' \notin Range(ShownRows)
    BY <1>1, <2>1, AttachmentBounds DEF PanesTyped, Range
  <2>3. ShownRows' = ShownRows
    BY <1>2, <1>3
  <2> QED BY <1>1, <1>3, <2>1, <2>2, <2>3, HighlightedNext DEF RowOf, IdRow, ById
<1>4. CASE pane = "DisputesPending"
  <2>1. sel' = Highlighted /\ pane \in ById /\ ShownRows' = ShownRows
    BY <1>2, <1>4 DEF Settle, ById
  <2> QED BY <1>1, <2>1, SelectedNext
<1>5. CASE pane = "DisputesInProgress"
  <2> DEFINE closed == (ended \cap Range(list)) \ shut
  <2>1. shut' = shut \cup closed /\ sel' = IF Highlighted \in closed THEN Highlighted ELSE sel
    BY <1>5 DEF Settle, Retained
  <2>2. pane \in ById
    BY <1>5 DEF ById
  <2>3. \A i \in Items : /\ IsShown(i) <=> i \notin shut \/ i = sel
                         /\ IsShown(i)' <=> i \notin shut' \/ i = sel'
    BY <1>1, <1>5 DEF IsShown, PassesDisputeFilter
  <2>4. Range(list) \subseteq Items /\ Range(ShownRows') = {i \in Range(list) : IsShown(i)'}
    BY <1>1, ShownNext DEF PanesTyped, Range
  <2>5. CASE sel' = Highlighted
    <3>1. sel' \in Range(ShownRows')
      BY <1>1, <2>3, <2>4, <2>5
    <3> QED BY <1>1, <2>2, <2>5, <3>1, SelectedNext
  <2>6. CASE sel' # Highlighted
    <3>1. sel' = sel /\ Highlighted \notin closed
      BY <2>1, <2>6
    <3>2. sel \notin Range(ShownRows)
      BY <1>1, <2>2, <2>6, <3>1, RowTyped DEF RowOf, PanesTyped
    <3>3. Highlighted = ShownRows[1]
      BY <1>1, <2>2, <3>2 DEF RowOf, IdRow
    <3> DEFINE before == {i \in Items : IsShown(i)}
               after == {i \in Items : IsShown(i)'}
    <3>4. after \subseteq before
      BY <2>1, <2>3, <3>1
    <3>5. ShownRows = Only(list, before) /\ ShownRows' = Only(list, after)
      BY <1>1 DEF ShownRows
    <3>6. ShownRows[1] \in after
      BY <1>1, <2>1, <2>3, <2>4, <3>1, <3>3
    <3>7. ShownRows' # << >> /\ ShownRows'[1] = ShownRows[1]
      <4> HIDE DEF before, after
      <4> QED BY <1>1, <3>4, <3>5, <3>6, FirstStays DEF PanesTyped
    <3>8. sel' \notin Range(ShownRows')
      BY <1>1, <2>3, <2>4, <3>1, <3>2, <3>4
    <3> QED BY <1>1, <2>2, <3>3, <3>7, <3>8, HighlightedNext
  <2> QED BY <2>5, <2>6
<1>6. CASE pane \in {"MyTrades", "Messages"}
  <2>1. ShownRows' = ShownRows /\ pane \notin ById
    BY <1>2, <1>6 DEF ById
  <2> QED BY <1>1, <2>1, HighlightedNext DEF RowOf, ClampedRow
<1> QED BY <1>3, <1>4, <1>5, <1>6 DEF PanesTyped, Panes

LEMMA RereadKeepsHighlight ==
  ASSUME PanesTyped, PanesTyped', DisputeResult, sel = Highlighted, Highlighted # None, ~filtered
  PROVE  Highlighted' = Highlighted
<1>1. /\ pane = "DisputesInProgress" /\ UNCHANGED <<pane, idx, sel, filtered>>
      /\ list' = list \/ \E i \in Rowable[pane] : list' = <<i>> \o list
  BY DEF DisputeResult, Result
<1>2. sel \in Range(list) /\ sel \in Items
  BY ShownTyped DEF PanesTyped, Range
<1>3. sel \in Range(list')
  <2>1. PICK k \in DOMAIN list : list[k] = sel
    BY <1>2 DEF Range
  <2>2. ASSUME NEW i, list' = <<i>> \o list PROVE sel \in Range(list')
    <3>1. k + 1 \in DOMAIN list' /\ list'[k + 1] = list[k]
      BY <2>1, <2>2 DEF PanesTyped
    <3> QED BY <2>1, <3>1 DEF Range
  <2> QED BY <1>1, <1>2, <2>2
<1>4. IsShown(sel)'
  BY <1>1 DEF IsShown, PassesDisputeFilter
<1>5. sel' \in Range(ShownRows')
  BY <1>1, <1>3, <1>4, ShownNext
<1> QED BY <1>1, <1>5, SelectedNext DEF ById

\* The main loop never moves the highlight off the row that is being looked at.
THEOREM HighlightsStay == Spec => HighlightStays
<1> DEFINE Stays ==
      (Settle \/ (DisputeResult /\ sel = Highlighted)) /\ ~filtered /\ Highlighted # None
        => Highlighted' = Highlighted
<1>1. PanesInv /\ PanesInv' => Stays
  BY SettleKeepsHighlight, RereadKeepsHighlight DEF PanesInv
<1> QED BY <1>1, PanesInvariant, PTL DEF Spec, HighlightStays

-----------------------------------------------------------------------------
(* Files.                                                                  *)

FilesTyped ==
  /\ jobs \subseteq Jobs /\ sending \in Items \cup {None}
  /\ pending \in [Items -> Files \cup {None}] /\ picked \in [Files -> Items \cup {None}]
  /\ uploaded \subseteq Files /\ delivered \subseteq uploaded

\* Files are numbered in the order they are picked, and uploaded after that.
PickedInOrder ==
  /\ \A f, g \in Files : picked[f] # None /\ g < f => picked[g] # None
  /\ \A f \in uploaded : picked[f] # None

\* A task knows the trade its file was picked for, and how far the file got.
JobsTell ==
  \A job \in jobs :
    /\ picked[job.file] = job.order
    /\ job.stage \in {"encrypting", "OrderChatAttachmentError"} <=> job.file \notin uploaded
    /\ job.stage = "OrderChatAttachmentSent" => job.file \in delivered

\* A trade keeps a file of its own, and none newer than the one being sent.
KeptIsOlder ==
  /\ \A o \in Items : pending[o] # None => picked[pending[o]] = o /\ pending[o] \in uploaded
  /\ \A job \in jobs : pending[job.order] # None => pending[job.order] <= job.file

\* The picker is open while nothing is being sent.
PickerWaits == mode.name = "Picker" => sending = None /\ mode.item \in Items

FilesInv ==
  /\ FilesTyped /\ PickedInOrder /\ JobsTell /\ KeptIsOlder /\ PickerWaits
  /\ OneUpload /\ UploadIsKept

\* A key closes the picker, opens it while nothing is sent, or leaves it closed.
ModeQuiet == mode' = mode \/ mode'.name # "Picker"

LEMMA FilesStay ==
  ASSUME FilesInv, UNCHANGED attachVars, ModeQuiet \/ (mode' = [name |-> "Picker", item |-> Target]
                                                      /\ sending = None /\ Target \in Items)
  PROVE  FilesInv'
<1>1. /\ UNCHANGED <<sending, pending, jobs, picked, uploaded, delivered>>
  BY DEF attachVars
<1>2. PickerWaits'
  BY <1>1 DEF FilesInv, PickerWaits, ModeQuiet
<1> QED BY <1>1, <1>2
           DEF FilesInv, FilesTyped, PickedInOrder, JobsTell, KeptIsOlder, OneUpload, UploadIsKept

LEMMA PickStep ==
  ASSUME FilesInv, NEW o \in Items, sending = None, FromPath(o), mode' = Home
  PROVE  FilesInv'
<1>1. PICK f \in Files :
        /\ picked[f] = None /\ \A g \in 1 .. f - 1 : picked[g] # None
        /\ picked' = [picked EXCEPT ![f] = o]
        /\ jobs' = jobs \cup {[order |-> o, file |-> f, stage |-> "encrypting"]}
  BY DEF FromPath
<1> DEFINE new == [order |-> o, file |-> f, stage |-> "encrypting"]
<1>2. /\ sending' = o /\ UNCHANGED <<pending, uploaded, delivered>>
      /\ jobs = {} /\ jobs' = {new} /\ o # None
  BY <1>1, AttachmentBounds DEF FromPath, FilesInv, OneUpload
<1>3. \A g \in Files : picked[g] # None => g < f /\ g # f
  <2> SUFFICES ASSUME NEW g \in Files, picked[g] # None, ~(g < f) PROVE FALSE
    BY <1>1 DEF Files
  <2>1. f < g
    BY <1>1, AttachmentBounds DEF Files
  <2> QED BY <1>1, <2>1 DEF FilesInv, PickedInOrder
<1>4. /\ picked'[f] = o /\ \A g \in Files : g # f => picked'[g] = picked[g]
      /\ f \notin uploaded
  BY <1>1 DEF FilesInv, FilesTyped, PickedInOrder
<1>5. FilesTyped'
  BY <1>1, <1>2 DEF FilesInv, FilesTyped, Jobs, Working
<1>6. PickedInOrder'
  <2>1. \A g \in Files : g < f => picked'[g] # None
    BY <1>1, <1>4, AttachmentBounds DEF Files
  <2>2. \A h \in Files : picked'[h] # None => h = f \/ picked[h] # None
    BY <1>4
  <2> QED BY <1>2, <1>4, <2>1, <2>2, AttachmentBounds DEF FilesInv, PickedInOrder, FilesTyped, Files
<1>7. JobsTell'
  BY <1>2, <1>4 DEF JobsTell
<1>8. KeptIsOlder'
  <2>1. \A p \in Items : pending[p] # None => pending[p] \in Files /\ picked[pending[p]] = p
    BY DEF FilesInv, FilesTyped, KeptIsOlder
  <2>2. \A p \in Items : pending[p] # None => pending[p] < f /\ picked'[pending[p]] = p
    BY <1>3, <1>4, <2>1, AttachmentBounds
  <2> QED BY <1>2, <2>2, AttachmentBounds DEF FilesInv, KeptIsOlder, FilesTyped, Files
<1>9. UploadIsKept'
  BY <1>2, <1>4 DEF FilesInv, FilesTyped, UploadIsKept
<1>10. OneUpload' /\ PickerWaits'
  BY <1>2 DEF OneUpload, PickerWaits, Home
<1> QED BY <1>5, <1>6, <1>7, <1>8, <1>9, <1>10 DEF FilesInv

LEMMA RetryStep ==
  ASSUME FilesInv, NEW o \in Items, RetryPrepared(o), mode' = mode, mode = Home
  PROVE  FilesInv'
<1> DEFINE new == [order |-> o, file |-> pending[o], stage |-> "sending"]
<1>1. /\ sending = None /\ pending[o] # None
      /\ sending' = o /\ UNCHANGED <<pending, picked, uploaded, delivered>>
      /\ jobs = {} /\ jobs' = {new} /\ o # None
  BY AttachmentBounds DEF RetryPrepared, MayRetry, FilesInv, OneUpload
<1>2. pending[o] \in uploaded /\ pending[o] \in Files /\ picked[pending[o]] = o
  BY <1>1 DEF FilesInv, FilesTyped, KeptIsOlder
<1>3. FilesTyped' /\ PickedInOrder'
  BY <1>1, <1>2 DEF FilesInv, FilesTyped, PickedInOrder, Jobs, Working
<1>4. JobsTell' /\ OneUpload' /\ PickerWaits'
  BY <1>1, <1>2 DEF JobsTell, OneUpload, PickerWaits, Home
<1>5. KeptIsOlder'
  BY <1>1, <1>2, AttachmentBounds DEF FilesInv, KeptIsOlder, Files
<1>6. UploadIsKept'
  BY <1>1 DEF FilesInv, UploadIsKept
<1> QED BY <1>3, <1>4, <1>5, <1>6 DEF FilesInv

\* The only task goes on to another stage.
LEMMA TaskStep ==
  ASSUME FilesInv, Task, mode' = mode
  PROVE  FilesInv'
<1>1. PICK job \in jobs : UploadFails(job) \/ Uploaded(job) \/ Sent(job) \/ SendFails(job)
  BY DEF Task
<1>2. /\ jobs = {job} /\ job.order = sending /\ job \in Jobs /\ sending # None
      /\ job.file \in Files /\ job.order \in Items
  BY <1>1 DEF FilesInv, OneUpload, FilesTyped, Jobs
<1> DEFINE next(stage) == [job EXCEPT !.stage = stage]
<1>3. \A stage \in Working \cup Results :
        /\ next(stage) \in Jobs /\ next(stage).stage = stage
        /\ next(stage).file = job.file /\ next(stage).order = job.order
  BY <1>2 DEF Jobs
<1> HIDE DEF next
<1>4. PICK stage \in Working \cup Results :
        /\ jobs' = {next(stage)} /\ UNCHANGED <<sending, pending, picked>>
        /\ \/ /\ job.stage = "encrypting" /\ stage = "OrderChatAttachmentError"
              /\ UNCHANGED <<uploaded, delivered>>
           \/ /\ job.stage = "encrypting" /\ stage = "sending"
              /\ uploaded' = uploaded \cup {job.file} /\ delivered' = delivered
           \/ /\ job.stage = "sending" /\ stage = "OrderChatAttachmentSent"
              /\ delivered' = delivered \cup {job.file} /\ uploaded' = uploaded
           \/ /\ job.stage = "sending" /\ stage = "OrderChatAttachmentSendFailed"
              /\ UNCHANGED <<uploaded, delivered>>
  BY <1>1, <1>2 DEF UploadFails, Uploaded, Sent, SendFails, Becomes, Working, Results, next
<1>5. /\ picked[job.file] = job.order
      /\ job.stage \in {"encrypting", "OrderChatAttachmentError"} <=> job.file \notin uploaded
  BY <1>1 DEF FilesInv, JobsTell
<1>6. FilesTyped'
  BY <1>2, <1>3, <1>4, <1>5 DEF FilesInv, FilesTyped
<1>7. PickedInOrder'
  BY <1>2, <1>4, <1>5, AttachmentBounds DEF FilesInv, PickedInOrder
<1>8. JobsTell'
  BY <1>3, <1>4, <1>5 DEF JobsTell
<1>9. KeptIsOlder'
  BY <1>1, <1>3, <1>4 DEF FilesInv, KeptIsOlder
<1>10. UploadIsKept'
  <2> SUFFICES ASSUME NEW f \in uploaded' \ delivered'
               PROVE  \/ \E j \in jobs' : j.file = f
                      \/ pending'[picked'[f]] = f
                      \/ \E g \in uploaded' : g > f /\ picked'[g] = picked'[f]
    BY DEF UploadIsKept
  <2>1. CASE f = job.file
    BY <1>3, <1>4, <2>1
  <2>2. CASE f # job.file
    <3>1. f \in uploaded \ delivered /\ uploaded \subseteq uploaded'
      BY <1>4, <2>2
    <3>2. \/ pending[picked[f]] = f
          \/ \E g \in uploaded : g > f /\ picked[g] = picked[f]
      BY <1>2, <2>2, <3>1 DEF FilesInv, UploadIsKept
    <3> QED BY <1>4, <3>1, <3>2
  <2> QED BY <2>1, <2>2
<1>11. OneUpload' /\ PickerWaits'
  BY <1>2, <1>3, <1>4 DEF FilesInv, OneUpload, PickerWaits
<1> QED BY <1>6, <1>7, <1>8, <1>9, <1>10, <1>11 DEF FilesInv

\* What a success drops was replaced by a newer file; what a failure keeps is one.
LEMMA TakenStep ==
  ASSUME FilesInv, NEW job \in jobs, AttachmentResult(job), mode' = Popup
  PROVE  FilesInv'
<1>1. /\ jobs = {job} /\ job.order = sending /\ job \in Jobs
      /\ job.file \in Files /\ job.order \in Items
  BY DEF FilesInv, OneUpload, FilesTyped, Jobs
<1>2. /\ jobs' = {} /\ sending' = None /\ UNCHANGED <<picked, uploaded, delivered>>
      /\ job.stage \in Results
      /\ pending' = CASE job.stage = "OrderChatAttachmentSent" -> [pending EXCEPT ![job.order] = None]
                     [] job.stage = "OrderChatAttachmentSendFailed" ->
                          [pending EXCEPT ![job.order] = job.file]
                     [] OTHER -> pending
  BY <1>1 DEF AttachmentResult, Cleared, Kept
<1>3. /\ picked[job.file] = job.order
      /\ job.stage \in {"encrypting", "OrderChatAttachmentError"} <=> job.file \notin uploaded
      /\ job.stage = "OrderChatAttachmentSent" => job.file \in delivered
      /\ pending[job.order] # None => pending[job.order] <= job.file
  BY DEF FilesInv, JobsTell, KeptIsOlder
<1>4. \/ job.stage = "OrderChatAttachmentError" /\ pending' = pending /\ job.file \notin uploaded
      \/ /\ job.stage = "OrderChatAttachmentSent" /\ job.file \in delivered
         /\ pending' = [pending EXCEPT ![job.order] = None]
      \/ /\ job.stage = "OrderChatAttachmentSendFailed" /\ job.file \in uploaded
         /\ pending' = [pending EXCEPT ![job.order] = job.file]
  BY <1>2, <1>3 DEF Results
<1>5. FilesTyped' /\ PickedInOrder' /\ JobsTell' /\ OneUpload' /\ PickerWaits'
  BY <1>1, <1>2, <1>4
     DEF FilesInv, FilesTyped, PickedInOrder, JobsTell, OneUpload, PickerWaits, Popup
<1>6. KeptIsOlder'
  BY <1>1, <1>2, <1>3, <1>4, AttachmentBounds DEF FilesInv, FilesTyped, KeptIsOlder
<1>7. UploadIsKept'
  <2> SUFFICES ASSUME NEW f \in uploaded \ delivered
               PROVE  \/ pending'[picked[f]] = f
                      \/ \E g \in uploaded : g > f /\ picked[g] = picked[f]
    BY <1>2 DEF UploadIsKept
  <2>1. f \in Files /\ picked[f] \in Items /\ f \in Nat /\ job.file \in Nat
    BY <1>1 DEF FilesInv, FilesTyped, PickedInOrder, Files
  <2>2. CASE f = job.file
    BY <1>1, <1>3, <1>4, <2>1, <2>2 DEF FilesInv, FilesTyped
  <2>3. CASE f # job.file
    <3>1. \/ pending[picked[f]] = f
          \/ \E g \in uploaded : g > f /\ picked[g] = picked[f]
      BY <1>1, <2>3 DEF FilesInv, UploadIsKept
    <3>2. ASSUME pending[picked[f]] = f, picked[f] = job.order, job.file \in uploaded
          PROVE  job.file > f /\ picked[job.file] = picked[f]
      <4>1. f # None
        BY <2>1, AttachmentBounds DEF Files
      <4> QED BY <1>3, <2>1, <2>3, <3>2, <4>1
    <3>3. picked[f] # job.order => pending'[picked[f]] = pending[picked[f]]
      BY <1>4, <2>1 DEF FilesInv, FilesTyped
    <3>4. job.file \in uploaded \/ pending' = pending
      BY <1>4 DEF FilesInv, FilesTyped
    <3> QED BY <3>1, <3>2, <3>3, <3>4
  <2> QED BY <2>2, <2>3
<1> QED BY <1>5, <1>6, <1>7 DEF FilesInv

LEMMA FilesStep ==
  ASSUME PanesInv, FilesInv, [Next]_vars
  PROVE  FilesInv'
<1>1. Target \in Items \cup {None} /\ mode.item \in Items \cup {None}
  BY ShownTyped DEF PanesInv, PanesTyped, IsMode
<1>2. CASE \/ handle_up_key \/ handle_down_key \/ TabKey \/ Filter \/ EnterOrder
           \/ EnterPendingDispute \/ EnterMessage \/ EnterChat \/ EnterChatFails
           \/ AskTrade \/ RateTrade
  <2>1. UNCHANGED attachVars /\ ModeQuiet
    BY <1>2 DEF handle_up_key, handle_down_key, Move, TabKey, Filter, EnterOrder,
       EnterPendingDispute, EnterMessage, EnterChat, EnterChatFails, AskTrade, RateTrade, Does,
       Steady, ModeQuiet, Asking, Popup
  <2> QED BY <2>1, FilesStay
<1>3. CASE Review \/ EnterReview \/ Finalize \/ BackToReview \/ OpenSave \/ EnterSave
           \/ DeleteTrade \/ ConfirmDelete \/ Close
  <2>1. \A n : [mode EXCEPT !.name = n].name = n
    BY DEF PanesInv, PanesTyped, IsMode
  <2>2. UNCHANGED attachVars
    BY <1>3 DEF Review, EnterReview, Finalize, BackToReview, OpenSave, EnterSave, DeleteTrade,
       ConfirmDelete, Close, Steady
  <2>3. mode'.name # "Picker"
    <3>1. CASE EnterReview \/ BackToReview
      <4>1. \/ mode' = Popup
            \/ mode' = [mode EXCEPT !.name = "ConfirmFinalize"]
            \/ mode' = [mode EXCEPT !.name = "Reviewing"]
        BY <3>1, Zenon DEF EnterReview, BackToReview
      <4>2. Popup.name # "Picker"
        BY DEF Popup
      <4> QED BY <2>1, <4>1, <4>2
    <3>2. CASE Review \/ Finalize \/ OpenSave \/ EnterSave \/ DeleteTrade \/ ConfirmDelete \/ Close
      BY <3>2 DEF Review, Finalize, OpenSave, EnterSave, DeleteTrade, ConfirmDelete, Close, Does,
         Home, Popup, AdminNormal
    <3> QED BY <1>3, <3>1, <3>2
  <2> QED BY <2>2, <2>3, FilesStay DEF ModeQuiet
<1>4. CASE OpenPicker
  BY <1>1, <1>4, FilesStay DEF OpenPicker, Does, Steady
<1>5. CASE PickFile
  BY <1>5, PickStep DEF PickFile, FilesInv, PickerWaits
<1>6. CASE RetryFile
  BY <1>1, <1>6, RetryStep DEF RetryFile, Does
<1>7. CASE Idle \/ \E i \in Items : FileArrives(i)
  BY <1>7, FilesStay DEF Idle, FileArrives, ModeQuiet
<1>8. CASE DisputeResult \/ OtherResult \/ \E i \in Items : DeleteResult(i)
  <2>1. UNCHANGED attachVars /\ Result
    BY <1>8 DEF DisputeResult, OtherResult, DeleteResult
  <2>2. ModeQuiet
    BY <2>1 DEF Result, Popup, ModeQuiet
  <2> QED BY <2>1, <2>2, FilesStay
<1>9. CASE \E job \in jobs : UploadResult(job)
  BY <1>9, TakenStep DEF UploadResult, Result
<1>10. CASE Settle \/ Draw
  BY <1>10, FilesStay DEF Settle, Draw, ModeQuiet
<1>11. CASE \E i \in Items : Arrives(i) \/ Leaves(i) \/ Ends(i) \/ Stores(i)
  BY <1>11, FilesStay DEF Arrives, Leaves, Ends, Stores, Background, ModeQuiet
<1>12. CASE UploadTask
  BY <1>12, TaskStep DEF UploadTask
<1>13. CASE UNCHANGED vars
  BY <1>13, FilesStay DEF vars, ModeQuiet
<1> QED BY <1>2, <1>3, <1>4, <1>5, <1>6, <1>7, <1>8, <1>9, <1>10, <1>11, <1>12, <1>13
           DEF Next, KeyStep

LEMMA FilesInvariant == Spec => []FilesInv
<1>1. Init => FilesInv
  BY DEF Init, NoAttachments, Home, FilesInv, FilesTyped, PickedInOrder, JobsTell, KeptIsOlder,
     PickerWaits, OneUpload, UploadIsKept
<1>2. PanesInv /\ FilesInv /\ [Next]_vars => FilesInv'
  BY FilesStep
<1> QED BY <1>1, <1>2, PanesInvariant, PTL DEF Spec

\* One upload at a time, and the flag is never left set with nothing to clear it,
\* although the picker does not look at it again when a file is picked.
THEOREM UploadsAreAlone == Spec => []OneUpload
<1>1. FilesInv => OneUpload
  BY DEF FilesInv
<1> QED BY <1>1, FilesInvariant, PTL

\* A file on the server is delivered, on its way, kept, or replaced by a later one.
THEOREM UploadsAreKept == Spec => []UploadIsKept
<1>1. FilesInv => UploadIsKept
  BY DEF FilesInv
<1> QED BY <1>1, FilesInvariant, PTL
-----------------------------------------------------------------------------
(* Lines, and what a chat's file and the screen say.  T is the set of      *)
(* lines the chat may hold, W the lines as the file keeps them, L those of *)
(* them that are shown whether they are kept or not.                       *)

Texts == {m.text : m \in Messages}
Lines == [by : Signers, ts : Nat, text : Texts, att : BOOLEAN, wrapped : BOOLEAN]

SameWords(k, l) == k.by = l.by /\ k.ts = l.ts /\ k.text = l.text

\* No line stands twice, but for those that change their form in the file.
Distinct(lines) ==
  \A i, j \in DOMAIN lines :
    SameWords(lines[i], lines[j]) /\ lines[i].text \notin LongTexts => i = j

\* The file has the lines of the screen in their order; what it lacks are late lines
\* and those it keeps in another form.
Places(e, f, m, L) ==
  /\ e \in [DOMAIN f -> DOMAIN m]
  /\ \A i, j \in DOMAIN f : i < j => e[i] < e[j]
  /\ \A i \in DOMAIN f : f[i] = FileForm(m[e[i]])
  /\ \A j \in DOMAIN m :
       (\E i \in DOMAIN f : e[i] = j) \/ FileForm(m[j]).wrapped \/ FileForm(m[j]) \in L
Follows(f, m, L) == \E e : Places(e, f, m, L)

Transcribed(f, T) == f \in Seq(T) /\ Distinct(f) /\ \A i \in DOMAIN f : FileForm(f[i]) = f[i]
Recorded(f, T) == f \in Seq(T) /\ \A i \in DOMAIN f : FileForm(f[i]) = f[i]
Pane(f, m, T, L) == Transcribed(f, T) /\ m \in Seq(T) /\ Distinct(m) /\ Follows(f, m, L)

\* Of a forgotten chat the screen shows messages, and no placeholders.
AreMessages(lines) ==
  \A i \in DOMAIN lines : \E m \in Messages : lines[i].text = m.text /\ lines[i].att = m.att
Afresh(f, m, T) == Recorded(f, T) /\ m \in Seq(T) /\ AreMessages(m)
InPlace(f, m, T, L, gone) == IF gone THEN Afresh(f, m, T) ELSE Pane(f, m, T, L)

\* A placeholder stands for an attachment of the other party.
IsPlaceholder(l) == l.by = "peer" /\ ~l.att /\ l.text \notin LongTexts
Sound(T, W, L) ==
  /\ T \in SUBSET Lines
  /\ \A l \in T :
       /\ FileForm(l) \in T
       /\ FileForm(l) \in W \/ IsPlaceholder(l)
       /\ l.wrapped => l.text \in LongTexts
       /\ l.att => l.text \notin LongTexts
  /\ \A l \in L : l.by = "self"

\* The file f becomes the file g.
GrowsAt(p, f, g, W, L) ==
  /\ p \in [DOMAIN f -> DOMAIN g]
  /\ \A i, j \in DOMAIN f : i < j => p[i] < p[j]
  /\ \A i \in DOMAIN f : g[p[i]] # f[i] =>
       /\ f[i] = PlaceholderOf(g[p[i]]) /\ g[p[i]] \in W
       /\ f[i] \notin L /\ ~f[i].wrapped
  /\ \A k \in DOMAIN g : (\A i \in DOMAIN f : p[i] # k) =>
       /\ g[k] \in W
       /\ (\E i \in DOMAIN f : k < p[i]) => g[k] \in L \/ g[k].wrapped
Grows(f, g, W, L) == \E p : GrowsAt(p, f, g, W, L)

\* The file f goes on as the file g.
Extends(f, g, W) ==
  /\ Len(f) <= Len(g)
  /\ \A i \in DOMAIN f : g[i] = f[i]
  /\ \A k \in DOMAIN g \ DOMAIN f : g[k] \in W

LEMMA FileFormFields ==
  ASSUME NEW l \in Lines
  PROVE  /\ FileForm(l) \in Lines
         /\ SameWords(FileForm(l), l) /\ FileForm(l).att = l.att
         /\ FileForm(l).wrapped <=> (l.wrapped \/ (~l.att /\ l.text \in LongTexts))
         /\ ~FileForm(l).wrapped => FileForm(l) = l
         /\ FileForm(FileForm(l)) = FileForm(l)
<1> DEFINE w == l.wrapped \/ (~l.att /\ l.text \in LongTexts)
<1>1. FileForm(l) = [l EXCEPT !.wrapped = w] /\ w \in BOOLEAN
  BY DEF FileForm
<1> HIDE DEF w
<1>2. /\ FileForm(l) \in Lines /\ FileForm(l).by = l.by /\ FileForm(l).ts = l.ts
      /\ FileForm(l).text = l.text /\ FileForm(l).att = l.att /\ FileForm(l).wrapped = w
  BY <1>1 DEF Lines
<1>3. w = l.wrapped => FileForm(l) = l
  BY <1>1 DEF Lines
<1>4. w <=> (l.wrapped \/ (~l.att /\ l.text \in LongTexts))
  BY DEF w
<1>5. ~w => w = l.wrapped
  BY <1>1, <1>4 DEF Lines
<1>6. FileForm(FileForm(l)) = FileForm(l)
  <2> DEFINE k == FileForm(l)
             v == k.wrapped \/ (~k.att /\ k.text \in LongTexts)
  <2>1. FileForm(k) = [k EXCEPT !.wrapped = v]
    BY DEF FileForm
  <2>2. v = k.wrapped
    BY <1>1, <1>2, <1>4
  <2>3. [k EXCEPT !.wrapped = k.wrapped] = k
    <3> HIDE DEF k
    <3> QED BY <1>2 DEF Lines, k
  <2> QED BY <2>1, <2>2, <2>3
<1> QED BY <1>2, <1>3, <1>4, <1>5, <1>6 DEF SameWords

LEMMA SameLine ==
  ASSUME NEW k \in Lines, NEW l \in Lines, SameWords(k, l), k.att = l.att, k.wrapped = l.wrapped
  PROVE  k = l
BY DEF Lines, SameWords

LEMMA PlaceholderFields ==
  ASSUME NEW l \in Lines
  PROVE  /\ PlaceholderOf(l) \in Lines
         /\ SameWords(PlaceholderOf(l), l) /\ PlaceholderOf(l).att = FALSE
         /\ PlaceholderOf(l).wrapped = l.wrapped
         /\ PlaceholderOf(PlaceholderOf(l)) = PlaceholderOf(l)
BY DEF PlaceholderOf, Lines, SameWords

LEMMA GrowsStill ==
  ASSUME NEW X, NEW f \in Seq(X), NEW W, NEW L
  PROVE  Grows(f, f, W, L)
<1> DEFINE p == [i \in DOMAIN f |-> i]
<1>1. GrowsAt(p, f, f, W, L)
  BY DEF GrowsAt
<1> QED BY <1>1 DEF Grows

LEMMA GrowsOn ==
  ASSUME NEW f \in Seq(Lines), NEW g \in Seq(Lines), NEW h \in Seq(Lines), NEW W, NEW L,
         Grows(f, g, W, L), Grows(g, h, W, L)
  PROVE  Grows(f, h, W, L)
<1>1. PICK p : GrowsAt(p, f, g, W, L)
  BY DEF Grows
<1>2. PICK q : GrowsAt(q, g, h, W, L)
  BY DEF Grows
<1> DEFINE r == [i \in DOMAIN f |-> q[p[i]]]
<1>3. /\ p \in [DOMAIN f -> DOMAIN g] /\ q \in [DOMAIN g -> DOMAIN h]
      /\ DOMAIN f \in SUBSET Nat /\ DOMAIN g \in SUBSET Nat /\ DOMAIN h \in SUBSET Nat
      /\ \A i \in DOMAIN f : f[i] \in Lines
      /\ \A i \in DOMAIN g : g[i] \in Lines
      /\ \A i \in DOMAIN h : h[i] \in Lines
  BY <1>1, <1>2 DEF GrowsAt
<1>4. r \in [DOMAIN f -> DOMAIN h] /\ \A i \in DOMAIN f : r[i] = q[p[i]]
  BY <1>3
<1>5. ASSUME NEW i \in DOMAIN f, NEW j \in DOMAIN f, i < j PROVE r[i] < r[j]
  BY <1>1, <1>2, <1>3, <1>4, <1>5 DEF GrowsAt
<1>6. ASSUME NEW i \in DOMAIN f, h[r[i]] # f[i]
      PROVE  f[i] = PlaceholderOf(h[r[i]]) /\ h[r[i]] \in W /\ f[i] \notin L /\ ~f[i].wrapped
  <2> DEFINE j == p[i]
             k == q[j]
  <2>1. j \in DOMAIN g /\ k \in DOMAIN h /\ r[i] = k
    BY <1>3, <1>4
  <2>2. g[j] # f[i] => f[i] = PlaceholderOf(g[j]) /\ g[j] \in W /\ f[i] \notin L /\ ~f[i].wrapped
    BY <1>1 DEF GrowsAt
  <2>3. h[k] # g[j] => g[j] = PlaceholderOf(h[k]) /\ h[k] \in W /\ g[j] \notin L /\ ~g[j].wrapped
    BY <1>2, <2>1 DEF GrowsAt
  <2>4. PlaceholderOf(PlaceholderOf(h[k])) = PlaceholderOf(h[k])
    BY <1>3, <2>1, PlaceholderFields
  <2> QED BY <1>6, <2>1, <2>2, <2>3, <2>4
<1>7. ASSUME NEW k \in DOMAIN h, \A i \in DOMAIN f : r[i] # k
      PROVE  h[k] \in W /\ ((\E i \in DOMAIN f : k < r[i]) => h[k] \in L \/ h[k].wrapped)
  <2>1. CASE \A j \in DOMAIN g : q[j] # k
    <3>1. h[k] \in W /\ ((\E j \in DOMAIN g : k < q[j]) => h[k] \in L \/ h[k].wrapped)
      BY <1>2, <2>1 DEF GrowsAt
    <3> QED BY <1>3, <1>4, <3>1
  <2>2. CASE \E j \in DOMAIN g : q[j] = k
    <3>1. PICK j \in DOMAIN g : q[j] = k
      BY <2>2
    <3>2. \A i \in DOMAIN f : p[i] # j
      BY <1>4, <1>7, <3>1
    <3>3. g[j] \in W /\ ((\E i \in DOMAIN f : j < p[i]) => g[j] \in L \/ g[j].wrapped)
      BY <1>1, <3>2 DEF GrowsAt
    <3>4. h[k] # g[j] => h[k] \in W /\ g[j] \notin L /\ ~g[j].wrapped
      BY <1>2, <3>1 DEF GrowsAt
    <3>5. ASSUME NEW i \in DOMAIN f, k < r[i] PROVE j < p[i]
      <4>1. p[i] \in DOMAIN g /\ r[i] = q[p[i]]
        BY <1>3, <1>4
      <4>2. ~(p[i] < j) /\ p[i] # j
        BY <1>2, <1>3, <3>1, <3>2, <3>5, <4>1 DEF GrowsAt
      <4> QED BY <1>3, <4>1, <4>2
    <3> QED BY <3>3, <3>4, <3>5
  <2> QED BY <2>1, <2>2
<1>8. GrowsAt(r, f, h, W, L)
  BY <1>4, <1>5, <1>6, <1>7 DEF GrowsAt
<1> QED BY <1>8 DEF Grows

LEMMA ExtendsGrows ==
  ASSUME NEW f \in Seq(Lines), NEW g \in Seq(Lines), NEW W, NEW L, Extends(f, g, W)
  PROVE  Grows(f, g, W, L)
<1> DEFINE p == [i \in DOMAIN f |-> i]
<1>1. /\ Len(f) \in Nat /\ Len(g) \in Nat /\ Len(f) <= Len(g)
      /\ DOMAIN f = 1 .. Len(f) /\ DOMAIN g = 1 .. Len(g)
  BY DEF Extends
<1>2. p \in [DOMAIN f -> DOMAIN g] /\ \A i \in DOMAIN f : p[i] = i
  BY <1>1
<1> HIDE DEF p
<1>3. \A k \in DOMAIN g : (\A i \in DOMAIN f : p[i] # k) => k \in DOMAIN g \ DOMAIN f
  BY <1>2
<1>4. \A k \in DOMAIN g \ DOMAIN f : \A i \in DOMAIN f : ~(k < p[i])
  BY <1>1, <1>2
<1>5. GrowsAt(p, f, g, W, L)
  BY <1>2, <1>3, <1>4 DEF GrowsAt, Extends
<1> QED BY <1>5 DEF Grows

LEMMA ExtendsOn ==
  ASSUME NEW X, NEW f \in Seq(X), NEW g \in Seq(X), NEW h \in Seq(X), NEW W
  PROVE  /\ Extends(f, f, W)
         /\ Extends(f, g, W) /\ Extends(g, h, W) => Extends(f, h, W)
<1>1. /\ Len(f) \in Nat /\ Len(g) \in Nat /\ Len(h) \in Nat
      /\ DOMAIN f = 1 .. Len(f) /\ DOMAIN g = 1 .. Len(g) /\ DOMAIN h = 1 .. Len(h)
  OBVIOUS
<1>2. Extends(f, f, W)
  BY <1>1 DEF Extends
<1>3. ASSUME Extends(f, g, W), Extends(g, h, W) PROVE Extends(f, h, W)
  <2>1. Len(f) <= Len(g) /\ Len(g) <= Len(h)
    BY <1>3 DEF Extends
  <2>2. \A i \in DOMAIN f : i \in DOMAIN g /\ h[i] = f[i]
    BY <1>1, <1>3, <2>1 DEF Extends
  <2>3. ASSUME NEW k \in DOMAIN h \ DOMAIN f PROVE h[k] \in W
    BY <1>1, <1>3, <2>3 DEF Extends
  <2> QED BY <1>1, <2>1, <2>2, <2>3 DEF Extends
<1> QED BY <1>2, <1>3

LEMMA ExtendsIsPrefix ==
  ASSUME NEW X, NEW f \in Seq(X), NEW g \in Seq(X), NEW W, Extends(f, g, W)
  PROVE  IsPrefix(f, g)
<1>1. /\ Len(f) \in Nat /\ Len(g) \in Nat /\ Len(f) <= Len(g)
      /\ DOMAIN f = 1 .. Len(f) /\ \A i \in 1 .. Len(f) : g[i] = f[i]
  BY DEF Extends
<1> DEFINE a == SubSeq(f, 1, Len(f))
           b == SubSeq(g, 1, Len(f))
<1>2. /\ a = [i \in 1 .. Len(f) |-> f[i]]
      /\ b = [i \in 1 .. Len(f) |-> g[i]]
  BY <1>1
<1>3. a = b
  BY <1>1, <1>2
<1> QED BY <1>1, <1>3 DEF IsPrefix

LEMMA SavedExtends ==
  ASSUME NEW T, NEW f \in Seq(T), NEW W, NEW l, FileForm(l) \in T, FileForm(l) \in W
  PROVE  /\ Saved(f, l) \in Seq(T) /\ Extends(f, Saved(f, l), W)
         /\ \A i \in DOMAIN Saved(f, l) : Saved(f, l)[i] = FileForm(l)
              \/ (i \in DOMAIN f /\ Saved(f, l)[i] = f[i])
<1>1. CASE Saved(f, l) = f
  BY <1>1, ExtendsOn
<1>2. CASE Saved(f, l) = Append(f, FileForm(l))
  <2> DEFINE g == Append(f, FileForm(l))
  <2>1. /\ g \in Seq(T) /\ Len(f) \in Nat /\ Len(g) = Len(f) + 1
        /\ DOMAIN f = 1 .. Len(f) /\ DOMAIN g = 1 .. Len(f) + 1
        /\ \A i \in 1 .. Len(f) : g[i] = f[i]
        /\ g[Len(f) + 1] = FileForm(l)
    BY AppendProperties
  <2> HIDE DEF g
  <2>2. \A k \in DOMAIN g : k \in DOMAIN f \/ k = Len(f) + 1
    BY <2>1
  <2>3. Extends(f, g, W)
    BY <2>1, <2>2 DEF Extends
  <2>4. \A i \in DOMAIN g : g[i] = FileForm(l) \/ (i \in DOMAIN f /\ g[i] = f[i])
    BY <2>1, <2>2
  <2> QED BY <1>2, <2>1, <2>3, <2>4 DEF g
<1> QED BY <1>1, <1>2 DEF Saved

\* What holds of the lines told so far holds when more are told.
LEMMA PaneKept ==
  ASSUME NEW f, NEW m, NEW T, NEW L, NEW T2, NEW L2, T \subseteq T2, L \subseteq L2
  PROVE  /\ Transcribed(f, T) => Transcribed(f, T2)
         /\ Recorded(f, T) => Recorded(f, T2)
         /\ Pane(f, m, T, L) => Pane(f, m, T2, L2) /\ Recorded(f, T)
         /\ Afresh(f, m, T) => Afresh(f, m, T2) /\ Recorded(f, T)
<1>1. Seq(T) \subseteq Seq(T2)
  OBVIOUS
<1>2. /\ Transcribed(f, T) => Transcribed(f, T2)
      /\ Recorded(f, T) => Recorded(f, T2)
  BY <1>1 DEF Transcribed, Recorded
<1>3. Follows(f, m, L) => Follows(f, m, L2)
  BY DEF Follows, Places
<1> QED BY <1>1, <1>2, <1>3 DEF Pane, Afresh, Recorded, Transcribed

\* The screen is read from the file.
LEMMA PaneOfFile ==
  ASSUME NEW f, NEW T, NEW L, Transcribed(f, T)
  PROVE  Pane(f, f, T, L)
<1> DEFINE e == [i \in DOMAIN f |-> i]
<1>1. f \in Seq(T) /\ \A i \in DOMAIN f : f[i] = FileForm(f[i])
  BY DEF Transcribed
<1>2. Places(e, f, f, L)
  BY <1>1 DEF Places
<1> QED BY <1>1, <1>2 DEF Pane, Follows, Transcribed

\* One more line stands on the screen, and at the end of the file.
LEMMA LineAppended ==
  ASSUME NEW T, NEW W, NEW L, NEW M, Sound(T, W, L), NEW f, NEW m, Pane(f, m, T, L),
         NEW l \in T, FileForm(l) \in W,
         l.text \notin LongTexts => \A k \in DOMAIN m : ~SameWords(m[k], l)
  PROVE  /\ Pane(Append(f, FileForm(l)), Append(m, l), T, L)
         /\ Grows(f, Append(f, FileForm(l)), W, M)
<1> DEFINE g == Append(f, FileForm(l))
           n == Append(m, l)
<1>1. /\ f \in Seq(T) /\ m \in Seq(T) /\ T \subseteq Lines /\ FileForm(l) \in T
      /\ Distinct(f) /\ Distinct(m) /\ \A i \in DOMAIN f : FileForm(f[i]) = f[i]
  BY DEF Sound, Pane, Transcribed
<1>2. /\ Len(f) \in Nat /\ DOMAIN f = 1 .. Len(f) /\ DOMAIN g = 1 .. Len(f) + 1
      /\ \A i \in 1 .. Len(f) : g[i] = f[i] /\ f[i] \in T
      /\ g[Len(f) + 1] = FileForm(l) /\ g \in Seq(T)
  BY <1>1
<1>3. /\ Len(m) \in Nat /\ DOMAIN m = 1 .. Len(m) /\ DOMAIN n = 1 .. Len(m) + 1
      /\ \A i \in 1 .. Len(m) : n[i] = m[i] /\ m[i] \in T
      /\ n[Len(m) + 1] = l /\ n \in Seq(T)
  BY <1>1
<1> HIDE DEF g, n
<1>4. PICK e : Places(e, f, m, L)
  BY DEF Pane, Follows
<1>5. /\ FileForm(FileForm(l)) = FileForm(l) /\ SameWords(FileForm(l), l)
  BY <1>1, FileFormFields
<1>6. \A i \in 1 .. Len(f) : f[i] = FileForm(m[e[i]]) /\ e[i] \in 1 .. Len(m)
                              /\ SameWords(f[i], m[e[i]])
  BY <1>1, <1>2, <1>3, <1>4, FileFormFields DEF Places
<1>7. Distinct(n)
  <2> SUFFICES ASSUME NEW i \in 1 .. Len(m) + 1, NEW j \in 1 .. Len(m) + 1,
                      SameWords(n[i], n[j]), n[i].text \notin LongTexts
               PROVE  i = j
    BY <1>3 DEF Distinct
  <2>1. CASE i \in 1 .. Len(m) /\ j \in 1 .. Len(m)
    BY <1>1, <1>3, <2>1 DEF Distinct
  <2>2. CASE i = Len(m) + 1 /\ j \in 1 .. Len(m)
    BY <1>3, <2>2 DEF SameWords
  <2>3. CASE j = Len(m) + 1 /\ i \in 1 .. Len(m)
    BY <1>3, <2>3 DEF SameWords
  <2> QED BY <1>3, <2>1, <2>2, <2>3
<1>8. Distinct(g)
  <2> SUFFICES ASSUME NEW i \in 1 .. Len(f) + 1, NEW j \in 1 .. Len(f) + 1,
                      SameWords(g[i], g[j]), g[i].text \notin LongTexts
               PROVE  i = j
    BY <1>2 DEF Distinct
  <2>1. CASE i \in 1 .. Len(f) /\ j \in 1 .. Len(f)
    BY <1>1, <1>2, <2>1 DEF Distinct
  <2>2. CASE i = Len(f) + 1 /\ j \in 1 .. Len(f)
    BY <1>2, <1>3, <1>5, <1>6, <2>2 DEF SameWords
  <2>3. CASE j = Len(f) + 1 /\ i \in 1 .. Len(f)
    BY <1>2, <1>3, <1>5, <1>6, <2>3 DEF SameWords
  <2> QED BY <1>2, <2>1, <2>2, <2>3
<1>9. Follows(g, n, L)
  <2> DEFINE d == [i \in DOMAIN g |-> IF i = Len(f) + 1 THEN Len(m) + 1 ELSE e[i]]
  <2>1. /\ d \in [DOMAIN g -> DOMAIN n] /\ d[Len(f) + 1] = Len(m) + 1
        /\ \A i \in 1 .. Len(f) : d[i] = e[i] /\ d[i] \in 1 .. Len(m)
    BY <1>2, <1>3, <1>6
  <2> HIDE DEF d
  <2>2. \A i, j \in DOMAIN g : i < j => d[i] < d[j]
    BY <1>2, <1>3, <1>4, <2>1 DEF Places
  <2>3. \A i \in DOMAIN g : g[i] = FileForm(n[d[i]])
    BY <1>2, <1>3, <1>6, <2>1
  <2>4. ASSUME NEW j \in DOMAIN n
        PROVE  (\E i \in DOMAIN g : d[i] = j) \/ FileForm(n[j]).wrapped \/ FileForm(n[j]) \in L
    <3>1. CASE j = Len(m) + 1
      BY <1>2, <2>1, <3>1
    <3>2. CASE j \in 1 .. Len(m)
      BY <1>2, <1>3, <1>4, <2>1, <3>2 DEF Places
    <3> QED BY <1>3, <3>1, <3>2
  <2> QED BY <2>1, <2>2, <2>3, <2>4 DEF Follows, Places
<1>10. Pane(g, n, T, L)
  BY <1>1, <1>2, <1>3, <1>5, <1>7, <1>8, <1>9 DEF Pane, Transcribed
<1>11. Grows(f, g, W, M)
  <2> DEFINE p == [i \in DOMAIN f |-> i]
  <2>1. p \in [DOMAIN f -> DOMAIN g] /\ \A i \in DOMAIN f : p[i] = i /\ g[p[i]] = f[i]
    BY <1>2
  <2>2. \A k \in DOMAIN g : (\A i \in DOMAIN f : p[i] # k) => k = Len(f) + 1
    BY <1>2, <2>1
  <2>3. GrowsAt(p, f, g, W, M)
    BY <1>2, <2>1, <2>2 DEF GrowsAt
  <2> QED BY <2>3 DEF Grows
<1> QED BY <1>10, <1>11 DEF g, n

\* One more line stands on the screen, and the file does without it.
LEMMA LineShown ==
  ASSUME NEW T, NEW W, NEW L, Sound(T, W, L), NEW f, NEW m, Pane(f, m, T, L),
         NEW l \in T, FileForm(l).wrapped \/ FileForm(l) \in L,
         l.text \notin LongTexts => \A k \in DOMAIN m : ~SameWords(m[k], l)
  PROVE  Pane(f, Append(m, l), T, L)
<1> DEFINE n == Append(m, l)
<1>1. Transcribed(f, T) /\ f \in Seq(T) /\ m \in Seq(T) /\ Distinct(m)
  BY DEF Sound, Pane, Transcribed
<1>2. /\ Len(m) \in Nat /\ DOMAIN m = 1 .. Len(m) /\ DOMAIN n = 1 .. Len(m) + 1
      /\ \A i \in 1 .. Len(m) : n[i] = m[i] /\ m[i] \in T
      /\ n[Len(m) + 1] = l /\ n \in Seq(T)
  BY <1>1
<1> HIDE DEF n
<1>3. PICK e : Places(e, f, m, L)
  BY DEF Pane, Follows
<1>4. Distinct(n)
  <2> SUFFICES ASSUME NEW i \in 1 .. Len(m) + 1, NEW j \in 1 .. Len(m) + 1,
                      SameWords(n[i], n[j]), n[i].text \notin LongTexts
               PROVE  i = j
    BY <1>2 DEF Distinct
  <2>1. CASE i \in 1 .. Len(m) /\ j \in 1 .. Len(m)
    BY <1>1, <1>2, <2>1 DEF Distinct
  <2>2. CASE i = Len(m) + 1 /\ j \in 1 .. Len(m)
    BY <1>2, <2>2 DEF SameWords
  <2>3. CASE j = Len(m) + 1 /\ i \in 1 .. Len(m)
    BY <1>2, <2>3 DEF SameWords
  <2> QED BY <1>2, <2>1, <2>2, <2>3
<1>5. Places(e, f, n, L)
  BY <1>2, <1>3 DEF Places
<1> QED BY <1>1, <1>2, <1>4, <1>5 DEF Pane, Follows, n

With(lines, i, line) == [lines EXCEPT ![i] = line]
FileOf(shown) == [j \in DOMAIN shown |-> FileForm(shown[j])]

\* An attachment takes the place of its placeholder, and the file is written from
\* what is shown.
LEMMA LineUpgraded ==
  ASSUME NEW T, NEW W, NEW L, Sound(T, W, L), NEW f, NEW m, Pane(f, m, T, L),
         NEW l \in T, l.by = "peer", l.att, FileForm(l) \in W,
         NEW i \in DOMAIN m, SameWords(m[i], l), ~m[i].att
  PROVE  /\ Pane(FileOf(With(m, i, l)), With(m, i, l), T, L)
         /\ Grows(f, FileOf(With(m, i, l)), W, L)
<1> DEFINE shown == With(m, i, l)
           g == FileOf(shown)
<1>0. shown = [m EXCEPT ![i] = l] /\ g = [j \in DOMAIN shown |-> FileForm(shown[j])]
  BY DEF With, FileOf
<1> HIDE DEF shown, g
<1>1. /\ f \in Seq(T) /\ m \in Seq(T) /\ T \subseteq Lines /\ Distinct(m)
      /\ \A k \in T : FileForm(k) \in T /\ (FileForm(k) \in W \/ IsPlaceholder(k))
  BY DEF Sound, Pane, Transcribed
<1>2. /\ Len(m) \in Nat /\ DOMAIN m = 1 .. Len(m) /\ DOMAIN shown = 1 .. Len(m)
      /\ shown[i] = l /\ \A j \in DOMAIN m \ {i} : shown[j] = m[j]
      /\ \A j \in DOMAIN m : m[j] \in T /\ shown[j] \in T
      /\ shown \in Seq(T)
  BY <1>0, <1>1
<1>3. /\ g \in Seq(T) /\ DOMAIN g = DOMAIN m
      /\ \A j \in DOMAIN m : g[j] = FileForm(shown[j])
  <2>1. \A j \in DOMAIN shown : FileForm(shown[j]) \in T
    BY <1>1, <1>2
  <2> QED BY <1>0, <1>2, <2>1
<1>4. l.text \notin LongTexts
  BY DEF Sound
<1>5. \A j \in DOMAIN m : SameWords(shown[j], m[j]) /\ SameWords(g[j], m[j])
                           /\ FileForm(g[j]) = g[j]
  BY <1>1, <1>2, <1>3, FileFormFields DEF SameWords
<1>6. Distinct(shown)
  BY <1>1, <1>2, <1>5 DEF Distinct, SameWords
<1>7. Distinct(g)
  BY <1>1, <1>3, <1>5 DEF Distinct, SameWords
<1>8. Follows(g, shown, L)
  <2> DEFINE e == [j \in DOMAIN g |-> j]
  <2>1. Places(e, g, shown, L)
    BY <1>2, <1>3 DEF Places
  <2> QED BY <2>1 DEF Follows
<1>9. Pane(g, shown, T, L)
  BY <1>2, <1>3, <1>5, <1>6, <1>7, <1>8 DEF Pane, Transcribed
<1>10. PICK e : Places(e, f, m, L)
  BY DEF Pane, Follows
<1>11. /\ DOMAIN f \in SUBSET Nat
       /\ \A j \in DOMAIN f : e[j] \in DOMAIN m /\ f[j] = FileForm(m[e[j]])
  BY <1>1, <1>10 DEF Places
<1>12. /\ ~l.wrapped /\ l \in Lines /\ FileForm(l) = l
       /\ m[i] \in Lines /\ ~m[i].wrapped /\ FileForm(m[i]) = m[i]
  <2>1. l \in Lines /\ m[i] \in Lines /\ m[i].text = l.text
    BY <1>1, <1>2 DEF SameWords
  <2>2. ~l.wrapped /\ ~m[i].wrapped
    BY <1>2, <1>4, <2>1 DEF Sound
  <2> QED BY <1>4, <2>1, <2>2, FileFormFields
<1>13. ASSUME NEW j \in DOMAIN f, g[e[j]] # f[j]
       PROVE  /\ f[j] = PlaceholderOf(g[e[j]]) /\ g[e[j]] \in W
              /\ f[j] \notin L /\ ~f[j].wrapped
  <2>1. e[j] = i
    BY <1>2, <1>3, <1>11, <1>13
  <2>2. f[j] = m[i] /\ g[e[j]] = l
    BY <1>2, <1>3, <1>11, <1>12, <2>1
  <2>3. m[i] = PlaceholderOf(l)
    <3>1. /\ PlaceholderOf(l) \in Lines /\ SameWords(PlaceholderOf(l), l)
          /\ PlaceholderOf(l).att = FALSE /\ PlaceholderOf(l).wrapped = l.wrapped
      BY <1>12, PlaceholderFields
    <3>2. m[i].att = FALSE /\ m[i].wrapped = FALSE /\ l.wrapped = FALSE
      BY <1>12 DEF Lines
    <3>3. SameWords(m[i], PlaceholderOf(l))
      BY <3>1 DEF SameWords
    <3> QED BY <1>12, <3>1, <3>2, <3>3, SameLine
  <2>4. m[i].by = "peer" /\ m[i] \notin L
    BY DEF SameWords, Sound
  <2> QED BY <1>12, <2>2, <2>3, <2>4
<1>14. ASSUME NEW k \in DOMAIN g, \A j \in DOMAIN f : e[j] # k
       PROVE  g[k] \in W /\ (g[k] \in L \/ g[k].wrapped)
  <2>1. FileForm(m[k]).wrapped \/ FileForm(m[k]) \in L
    BY <1>3, <1>10, <1>14 DEF Places
  <2>2. k # i
    <3>1. m[i].by = "peer"
      BY DEF SameWords
    <3> QED BY <1>12, <2>1, <3>1 DEF Sound
  <2>3. g[k] = FileForm(m[k]) /\ m[k] \in T /\ m[k] \in Lines
    BY <1>1, <1>2, <1>3, <2>2
  <2>4. ~IsPlaceholder(m[k])
    <3>1. /\ SameWords(FileForm(m[k]), m[k])
          /\ FileForm(m[k]).wrapped => m[k].wrapped \/ m[k].text \in LongTexts
      BY <2>3, FileFormFields
    <3> QED BY <2>1, <2>3, <3>1 DEF IsPlaceholder, SameWords, Sound
  <2> QED BY <1>1, <2>1, <2>3, <2>4
<1>15. GrowsAt(e, f, g, W, L)
  BY <1>3, <1>10, <1>13, <1>14 DEF GrowsAt, Places
<1> QED BY <1>9, <1>15 DEF Grows, shown, g
-----------------------------------------------------------------------------
(* What a chat may hold by now.                                            *)

Parties == {"self", "peer"}
LateBy == IF role = "admin" THEN {"self"} ELSE {}
OwnIds == {m.id : m \in {n \in Messages : n.by = "self"}}

\* l is a line of the message m, in the form shown or kept, or its placeholder.
LineOf(l, m) ==
  /\ m.by \in Parties /\ Written(m)
  /\ l.by = m.by /\ l.ts = time(m) /\ l.text = m.text
  /\ l.att = m.att \/ (m \in Legacy /\ ~l.att)
  /\ l.wrapped => ~m.att /\ m.text \in LongTexts

\* The lines the chat may hold, those its file may gain, and those of them that are
\* shown whether they are kept or not.
Told(c) == {l \in Lines : \E m \in Messages : m.chat = c /\ LineOf(l, m)}
Filed(c) == WrittenBy(Parties)[c]
Late(c) == WrittenBy(LateBy)[c]

\* Updates on their way hold messages of their chat by its parties.
Updates ==
  {u \in [chat : Chats, msgs : Seq(Messages)] :
     \A i \in DOMAIN u.msgs :
       u.msgs[i] \in relay /\ u.msgs[i].by \in Parties /\ u.msgs[i].chat = u.chat}

Lives == {"new", "open", "closed", "forgotten"}

ChatTyped ==
  /\ role \in {"user", "admin"} /\ clock \in Nat \ {0}
  /\ Legacy \subseteq relay /\ relay \subseteq Messages
  /\ stamp \in [OwnIds -> Nat]
  /\ open \in [Chats -> Lives] /\ listed \subseteq OpenChats
  /\ file \in [Chats -> Seq(Lines)] /\ mem \in [Chats -> Seq(Lines)]
  /\ notes \in Seq(relay)
  /\ updates \in Seq(Updates)

LEMMA LineTyped ==
  ChatTyped => \A m \in Messages :
    /\ time(m) \in Nat /\ Line(m) \in Lines
    /\ Line(m).by = m.by /\ Line(m).ts = time(m) /\ Line(m).text = m.text
    /\ Line(m).att = m.att /\ Line(m).wrapped = FALSE
<1> SUFFICES ASSUME ChatTyped, NEW m \in Messages
             PROVE  /\ time(m) \in Nat /\ Line(m) \in Lines
                    /\ Line(m).by = m.by /\ Line(m).ts = time(m) /\ Line(m).text = m.text
                    /\ Line(m).att = m.att /\ Line(m).wrapped = FALSE
  OBVIOUS
<1>1. m.by \in Signers /\ m.ts \in Nat /\ m.att \in BOOLEAN /\ m.text \in Texts
  BY MessagesAssumption DEF Texts
<1>2. time(m) \in Nat
  <2>1. m.by = "self" => m.id \in OwnIds
    BY DEF OwnIds
  <2> QED BY <1>1, <2>1 DEF time, ChatTyped
<1> QED BY <1>1, <1>2 DEF Line, Lines

\* At any time, the lines told of a chat and those of its file fit together.
Sounds == \A c \in Chats : Sound(Told(c), Filed(c), Late(c))

LEMMA SoundNow == NamesAreClear /\ ChatTyped => Sounds
<1> SUFFICES ASSUME NamesAreClear, ChatTyped, NEW c \in Chats
             PROVE  Sound(Told(c), Filed(c), Late(c))
  BY DEF Sounds
<1>1. \A d \in Chats : \A S : WrittenBy(S)[d] =
        {FileForm(Line(m)) : m \in {n \in Messages : n.chat = d /\ n.by \in S /\ Written(n)}}
  BY DEF WrittenBy
<1>2. ASSUME NEW l \in Told(c)
      PROVE  /\ FileForm(l) \in Told(c)
             /\ FileForm(l) \in Filed(c) \/ IsPlaceholder(l)
             /\ l.wrapped => l.text \in LongTexts
             /\ l.att => l.text \notin LongTexts
  <2>1. PICK m \in Messages : m.chat = c /\ LineOf(l, m) /\ l \in Lines
    BY DEF Told
  <2>2. /\ Line(m) \in Lines
        /\ Line(m).by = m.by /\ Line(m).ts = time(m) /\ Line(m).text = m.text
        /\ Line(m).att = m.att /\ Line(m).wrapped = FALSE
    BY LineTyped
  <2> DEFINE k == FileForm(l)
             n == FileForm(Line(m))
  <2>3. /\ k \in Lines /\ SameWords(k, l) /\ k.att = l.att
        /\ k.wrapped <=> (l.wrapped \/ (~l.att /\ l.text \in LongTexts))
    BY <2>1, FileFormFields
  <2>4. /\ n \in Lines /\ SameWords(n, Line(m)) /\ n.att = m.att
        /\ n.wrapped <=> (~m.att /\ m.text \in LongTexts)
    BY <2>2, FileFormFields
  <2> HIDE DEF k, n
  <2>5. m.att => m.text \notin LongTexts
    BY DEF NamesAreClear
  <2>6. LineOf(k, m)
    BY <2>1, <2>3, <2>5, LegacyAssumption DEF LineOf, SameWords
  <2>7. ASSUME l.att = m.att PROVE k = n
    <3>1. k.wrapped <=> n.wrapped
      BY <2>1, <2>3, <2>4, <2>7 DEF LineOf
    <3>2. k.wrapped = n.wrapped
      BY <2>3, <2>4, <3>1 DEF Lines
    <3>3. SameWords(k, n) /\ k.att = n.att
      BY <2>1, <2>2, <2>3, <2>4, <2>7 DEF LineOf, SameWords
    <3> QED BY <2>3, <2>4, <3>2, <3>3, SameLine
  <2>8. n \in Filed(c)
    BY <1>1, <2>1 DEF Filed, LineOf, n
  <2>9. l.att # m.att => IsPlaceholder(l)
    BY <2>1, <2>5, LegacyAssumption DEF LineOf, IsPlaceholder
  <2> QED BY <2>1, <2>3, <2>5, <2>6, <2>7, <2>8, <2>9, LegacyAssumption DEF Told, LineOf, k
<1>3. \A l \in Late(c) : l.by = "self"
  <2> SUFFICES ASSUME NEW l \in Late(c) PROVE l.by = "self"
    OBVIOUS
  <2>1. PICK m \in Messages : m.by = "self" /\ l = FileForm(Line(m))
    BY <1>1 DEF Late, LateBy
  <2> QED BY <2>1, LineTyped, FileFormFields DEF SameWords
<1> QED BY <1>2, <1>3 DEF Sound, Told

LEMMA SoundThen ==
  ASSUME NamesAreClear, ChatTyped'
  PROVE  Sounds'
<1>1. NamesAreClear'
  BY DEF NamesAreClear
<1> QED BY <1>1, SoundNow, PTL
-----------------------------------------------------------------------------
(* The interface takes an update.                                          *)

\* What the handlers work on while they apply messages to the chat c.
IsRecord(a) ==
  DOMAIN a = {"mem", "file", "ids", "top", "lost"} /\ a = [x \in DOMAIN a |-> a[x]]
IsAcc(a, c) ==
  /\ DOMAIN a = {"mem", "file", "ids", "top", "lost"} /\ a = [x \in DOMAIN a |-> a[x]]
  /\ Pane(a.file, a.mem, Told(c), Late(c))

InStep(a, c, gone) ==
  IsRecord(a) /\ InPlace(a.file, a.mem, Told(c), Late(c), gone)

LEMMA TakenKeeps ==
  ASSUME NEW a, NEW c, IsAcc(a, c), NEW m, NEW unnoted
  PROVE  /\ IsAcc(Taken(a, m), c) /\ Taken(a, m).file = a.file /\ Taken(a, m).mem = a.mem
         /\ IsAcc(Noted(a, m, unnoted), c) /\ Noted(a, m, unnoted).file = a.file
         /\ Noted(a, m, unnoted).mem = a.mem
         /\ IsAcc([a EXCEPT !.lost = @ \cup {m}], c)
         /\ [a EXCEPT !.lost = @ \cup {m}].file = a.file
         /\ [a EXCEPT !.lost = @ \cup {m}].mem = a.mem
BY DEF IsAcc, Taken, Noted

\* A line the screen does not show yet is appended, to the file too unless the last
\* line is its wrapped form.
LEMMA ShownAppends ==
  ASSUME NEW T, NEW W, NEW L, NEW M, Sound(T, W, L), NEW f, NEW m, Pane(f, m, T, L),
         NEW l \in T, ~l.wrapped, FileForm(l) \in W, ~is_duplicate(m, l)
  PROVE  Pane(Saved(f, l), Append(m, l), T, L) /\ Grows(f, Saved(f, l), W, M)
<1>1. /\ f \in Seq(T) /\ m \in Seq(T) /\ T \subseteq Lines
      /\ \A k \in T : k.wrapped => k.text \in LongTexts
  BY DEF Pane, Transcribed, Sound
<1>2. ASSUME NEW i \in DOMAIN m, SameWords(m[i], l)
      PROVE  l.text \in LongTexts /\ ~l.att
  <2>1. ~SameMessage(m[i], l)
    BY DEF is_duplicate
  <2>2. m[i] \in Lines /\ m[i] \in T
    BY <1>1
  <2>3. ~l.att /\ m[i].wrapped # l.wrapped
    BY <1>2, <2>1 DEF SameMessage, SameWords
  <2>4. m[i].wrapped
    BY <1>1, <2>2, <2>3 DEF Lines
  <2> QED BY <1>1, <1>2, <2>2, <2>3, <2>4 DEF SameWords
<1>3. CASE Saved(f, l) = Append(f, FileForm(l))
  BY <1>2, <1>3, LineAppended
<1>4. CASE Saved(f, l) # Append(f, FileForm(l))
  <2>1. f # <<>> /\ SameMessage(Last(f), FileForm(l)) /\ Saved(f, l) = f
    BY <1>4 DEF Saved
  <2>2. Len(f) \in DOMAIN f /\ Last(f) = f[Len(f)]
    BY <1>1, <2>1 DEF Last
  <2>3. PICK e : Places(e, f, m, L)
    BY DEF Pane, Follows
  <2>4. e[Len(f)] \in DOMAIN m /\ f[Len(f)] = FileForm(m[e[Len(f)]])
    BY <2>2, <2>3 DEF Places
  <2>5. SameWords(m[e[Len(f)]], l)
    <3>1. m[e[Len(f)]] \in Lines /\ l \in Lines
      BY <1>1, <2>4
    <3> QED BY <2>1, <2>2, <2>4, <3>1, FileFormFields DEF SameMessage, SameWords
  <2>6. l.text \in LongTexts /\ ~l.att
    BY <1>2, <2>4, <2>5
  <2>7. FileForm(l).wrapped
    BY <1>1, <2>6, FileFormFields
  <2>8. Pane(f, Append(m, l), T, L)
    BY <2>6, <2>7, LineShown
  <2>9. Grows(f, f, W, M)
    BY <1>1, GrowsStill
  <2> QED BY <2>1, <2>8, <2>9
<1> QED BY <1>3, <1>4

\* The handlers have got from a to b: screen and file are in step, and the file a
\* transcript that has grown.
GoodAcc(b, a, c) ==
  /\ IsAcc(b, c)
  /\ Grows(a.file, b.file, Filed(c), Late(c))

GoodStep(b, a, c, gone) ==
  IF gone THEN InStep(b, c, gone) /\ Extends(a.file, b.file, Filed(c)) ELSE GoodAcc(b, a, c)

LEMMA StepFiles ==
  ASSUME NEW c \in Chats, NEW gone \in BOOLEAN, NEW a, InStep(a, c, gone)
  PROVE  /\ IsRecord(a)
         /\ a.file \in Seq(Told(c)) /\ a.mem \in Seq(Told(c))
         /\ a.file \in Seq(Lines) /\ a.mem \in Seq(Lines)
<1>1. IsRecord(a) /\ a.file \in Seq(Told(c)) /\ a.mem \in Seq(Told(c))
  BY DEF InStep, InPlace, IsRecord, Afresh, Recorded, Pane, Transcribed
<1>2. Told(c) \subseteq Lines
  BY DEF Told
<1>3. Seq(Told(c)) \subseteq Seq(Lines)
  BY <1>2
<1> QED BY <1>1, <1>3

LEMMA StepOn ==
  ASSUME NEW c \in Chats, NEW gone \in BOOLEAN, NEW a, InStep(a, c, gone)
  PROVE  /\ GoodStep(a, a, c, gone)
         /\ \A b, d : GoodStep(b, a, c, gone) =>
              /\ InStep(b, c, gone) /\ Grows(a.file, b.file, Filed(c), Late(c))
              /\ GoodStep(d, b, c, gone) => GoodStep(d, a, c, gone)
<1>1. \A b, d : GoodStep(d, b, c, gone) => InStep(d, c, gone)
  BY DEF GoodStep, GoodAcc, InStep, InPlace, IsAcc, IsRecord
<1>2. GoodStep(a, a, c, gone)
  <2>1. a.file \in Seq(Lines)
    BY StepFiles
  <2>2. Grows(a.file, a.file, Filed(c), Late(c))
    BY <2>1, GrowsStill
  <2>3. Extends(a.file, a.file, Filed(c))
    BY <2>1, ExtendsOn
  <2> QED BY <2>2, <2>3 DEF GoodStep, GoodAcc, InStep, InPlace, IsAcc, IsRecord
<1> SUFFICES ASSUME NEW b, NEW d, GoodStep(b, a, c, gone)
             PROVE  /\ Grows(a.file, b.file, Filed(c), Late(c))
                    /\ GoodStep(d, b, c, gone) => GoodStep(d, a, c, gone)
  BY <1>1, <1>2
<1> DEFINE W == Filed(c)
           L == Late(c)
<1>3. a.file \in Seq(Lines) /\ b.file \in Seq(Lines)
  BY <1>1, StepFiles
<1>4. Grows(a.file, b.file, W, L)
  <2>1. CASE gone
    <3>1. Extends(a.file, b.file, W)
      BY <2>1 DEF GoodStep
    <3> HIDE DEF W, L
    <3> QED BY <1>3, <3>1, ExtendsGrows
  <2>2. CASE ~gone
    BY <2>2 DEF GoodStep, GoodAcc
  <2> QED BY <2>1, <2>2
<1>5. ASSUME GoodStep(d, b, c, gone) PROVE GoodStep(d, a, c, gone)
  <2>1. InStep(d, c, gone) /\ d.file \in Seq(Lines)
    BY <1>1, <1>5, StepFiles
  <2>2. CASE gone
    <3>1. Extends(a.file, b.file, W) /\ Extends(b.file, d.file, W)
      BY <1>5, <2>2 DEF GoodStep
    <3> HIDE DEF W, L
    <3>2. Extends(a.file, d.file, W)
      BY <1>3, <2>1, <3>1, ExtendsOn
    <3> QED BY <2>1, <2>2, <3>2 DEF GoodStep, W
  <2>3. CASE ~gone
    <3>1. Grows(b.file, d.file, W, L) /\ IsAcc(d, c)
      BY <1>5, <2>3 DEF GoodStep, GoodAcc
    <3> HIDE DEF W, L
    <3>2. Grows(a.file, d.file, W, L)
      BY <1>3, <1>4, <2>1, <3>1, GrowsOn
    <3> QED BY <2>3, <3>1, <3>2 DEF GoodStep, GoodAcc, W, L
  <2> QED BY <2>2, <2>3
<1> QED BY <1>4, <1>5

\* So does each message of an update.
LEMMA MessageApplied ==
  ASSUME NamesAreClear, ChatTyped, NEW c \in Chats, NEW a, IsAcc(a, c),
         NEW m \in Messages, m \in relay, m.by \in Parties, m.chat = c,
         NEW unsaved, NEW unnoted
  PROVE  GoodAcc(apply_message(a, m, unsaved, unnoted), a, c)
<1> DEFINE line == Line(m)
           old == Placeholders(a.mem, line)
           b == apply_message(a, m, unsaved, unnoted)
           T == Told(c)
           W == Filed(c)
           L == Late(c)
           Lost == [a EXCEPT !.lost = @ \cup {m}]
           Handled == Echo(m) \/ m.id \in a.ids
           Double == old = {} /\ is_duplicate(a.mem, line)
<1>1. Sound(T, W, L) /\ T \subseteq Lines
  BY SoundNow DEF Sounds, Sound
<1>2. a.mem \in Seq(T) /\ a.file \in Seq(T) /\ Pane(a.file, a.mem, T, L)
  BY DEF IsAcc, Pane, Transcribed
<1>3. Grows(a.file, a.file, W, L)
  BY <1>2, GrowsStill
<1>4. ~Echo(m) => /\ line \in T /\ ~line.wrapped /\ line.by = "peer" /\ line.att = m.att
                  /\ FileForm(line) \in W
  <2> SUFFICES ASSUME m.by = "peer"
               PROVE  /\ line \in T /\ ~line.wrapped /\ line.by = "peer" /\ line.att = m.att
                      /\ FileForm(line) \in W
    BY DEF Echo, Parties
  <2>1. Written(m)
    BY DEF Written
  <2>2. /\ line \in Lines /\ line.by = m.by /\ line.ts = time(m) /\ line.text = m.text
        /\ line.att = m.att /\ line.wrapped = FALSE
    BY LineTyped
  <2> HIDE DEF line
  <2>3. line \in T
    BY <2>1, <2>2 DEF Told, LineOf
  <2>4. FileForm(line) \in W
    BY <2>1 DEF Filed, WrittenBy, line
  <2> QED BY <2>2, <2>3, <2>4
<1>5. /\ b = IF Handled THEN Taken(a, m)
             ELSE IF SignerUnknown(m) THEN Taken(Lost, m)
             ELSE IF Double THEN Noted(Taken(a, m), m, unnoted)
             ELSE IF m \in unsaved THEN Lost
             ELSE Noted(Taken(IF old # {} THEN Upgraded(a, line) ELSE Shown(a, line), m),
                        m, unnoted)
  BY DEF apply_message
<1>6. ASSUME NEW x, IsAcc(x, c)
      PROVE  /\ IsAcc(Taken(x, m), c) /\ Taken(x, m).file = x.file
             /\ IsAcc(Noted(x, m, unnoted), c) /\ Noted(x, m, unnoted).file = x.file
  BY <1>6 DEF IsAcc, Taken, Noted
<1>7. IsAcc(Lost, c) /\ Lost.file = a.file
  BY TakenKeeps
<1>8. ASSUME old # {}, ~Handled
      PROVE  IsAcc(Upgraded(a, line), c) /\ Grows(a.file, Upgraded(a, line).file, W, L)
  <2> DEFINE i == Min(old)
             shown == With(a.mem, i, line)
             g == FileOf(shown)
  <2>1. i \in old
    <3>1. old \in SUBSET Nat
      BY <1>2 DEF Placeholders
    <3> HIDE DEF old
    <3>2. PICK x \in old : \A y \in old : ~(y < x)
      BY <1>8, <3>1, Least
    <3>3. x \in old /\ \A y \in old : x <= y
      BY <3>1, <3>2
    <3> QED BY <3>3 DEF Min
  <2>2. i \in DOMAIN a.mem /\ SameWords(a.mem[i], line) /\ line.att /\ ~a.mem[i].att
    BY <2>1 DEF Placeholders, SameWords, legacy_placeholder_matches_filename
  <2>3. Pane(g, shown, T, L) /\ Grows(a.file, g, W, L)
    <3>1. line \in T /\ line.by = "peer" /\ line.att /\ FileForm(line) \in W
      BY <1>4, <1>8, <2>2
    <3> HIDE DEF T, W, L, line, i, old
    <3> QED BY <1>1, <1>2, <2>2, <3>1, LineUpgraded
  <2>4. Upgraded(a, line) = [a EXCEPT !.mem = shown, !.file = g]
    BY DEF Upgraded, With, FileOf
  <2> HIDE DEF shown, g, i, T, W, L, line
  <2> QED BY <2>3, <2>4 DEF IsAcc, T, L
<1>9. ASSUME old = {}, ~Handled, ~Double
      PROVE  IsAcc(Shown(a, line), c) /\ Grows(a.file, Shown(a, line).file, W, L)
  <2>1. Pane(Saved(a.file, line), Append(a.mem, line), T, L)
        /\ Grows(a.file, Saved(a.file, line), W, L)
    <3>1. ~is_duplicate(a.mem, line)
      BY <1>9
    <3>2. line \in T /\ ~line.wrapped /\ FileForm(line) \in W
      BY <1>4, <1>9
    <3> HIDE DEF T, W, L, line, old
    <3> QED BY <1>1, <1>2, <3>1, <3>2, ShownAppends
  <2>2. Shown(a, line) = [a EXCEPT !.file = Saved(@, line), !.mem = Append(@, line)]
    BY DEF Shown
  <2> HIDE DEF T, W, L, line
  <2> QED BY <2>1, <2>2 DEF IsAcc, T, L
<1> HIDE DEF b, line, old, T, W, L, Lost, Handled, Double
<1>10. CASE Handled
  BY <1>3, <1>5, <1>6, <1>10 DEF GoodAcc, b, W, L
<1>11. CASE ~Handled /\ SignerUnknown(m)
  <2>1. b = Taken(Lost, m)
    BY <1>5, <1>11
  <2>2. IsAcc(b, c) /\ b.file = a.file
    BY <1>6, <1>7, <2>1
  <2> QED BY <1>3, <2>2 DEF GoodAcc, b, W, L
<1>12. CASE ~Handled /\ ~SignerUnknown(m) /\ Double
  <2>1. b = Noted(Taken(a, m), m, unnoted)
    BY <1>5, <1>12
  <2>2. IsAcc(b, c) /\ b.file = a.file
    BY <1>6, <2>1
  <2> QED BY <1>3, <2>2 DEF GoodAcc, b, W, L
<1>13. CASE ~Handled /\ ~SignerUnknown(m) /\ ~Double /\ m \in unsaved
  <2>1. b = Lost
    BY <1>5, <1>13
  <2> QED BY <1>3, <1>7, <2>1 DEF GoodAcc, b, W, L
<1>14. CASE ~Handled /\ ~SignerUnknown(m) /\ ~Double /\ m \notin unsaved /\ old # {}
  <2> DEFINE u == Upgraded(a, line)
  <2>1. b = Noted(Taken(u, m), m, unnoted)
    BY <1>5, <1>14
  <2>2. IsAcc(u, c) /\ Grows(a.file, u.file, W, L)
    BY <1>8, <1>14
  <2> HIDE DEF u
  <2>3. IsAcc(b, c) /\ b.file = u.file
    BY <1>6, <2>1, <2>2
  <2> QED BY <1>14, <2>2, <2>3 DEF GoodAcc, b, W, L
<1>15. CASE ~Handled /\ ~SignerUnknown(m) /\ ~Double /\ m \notin unsaved /\ old = {}
  <2> DEFINE u == Shown(a, line)
  <2>1. b = Noted(Taken(u, m), m, unnoted)
    BY <1>5, <1>15
  <2>2. IsAcc(u, c) /\ Grows(a.file, u.file, W, L)
    BY <1>9, <1>15
  <2> HIDE DEF u
  <2>3. IsAcc(b, c) /\ b.file = u.file
    BY <1>6, <2>1, <2>2
  <2> QED BY <1>15, <2>2, <2>3 DEF GoodAcc, b, W, L
<1> QED BY <1>10, <1>11, <1>12, <1>13, <1>14, <1>15 DEF b

\* A forgotten chat is shown from its first line again: nothing stands for an
\* attachment, and what is written is added at the end.
LEMMA MessageAfresh ==
  ASSUME NamesAreClear, ChatTyped, NEW c \in Chats, NEW a, InStep(a, c, TRUE),
         NEW m \in Messages, m \in relay, m.by \in Parties, m.chat = c,
         NEW unsaved, NEW unnoted
  PROVE  GoodStep(apply_message(a, m, unsaved, unnoted), a, c, TRUE)
<1> DEFINE line == Line(m)
           old == Placeholders(a.mem, line)
           b == apply_message(a, m, unsaved, unnoted)
           Lost == [a EXCEPT !.lost = @ \cup {m}]
           u == Shown(a, line)
           T == Told(c)
           W == Filed(c)
<1>1. /\ IsRecord(a) /\ Recorded(a.file, T) /\ AreMessages(a.mem)
      /\ a.file \in Seq(T) /\ a.mem \in Seq(T)
  BY StepFiles DEF InStep, InPlace, Afresh
<1>2. /\ line \in Lines /\ line.by = m.by /\ line.ts = time(m) /\ line.text = m.text
      /\ line.att = m.att /\ line.wrapped = FALSE
  BY LineTyped
<1>3. old = {}
  <2> SUFFICES ASSUME NEW i \in old PROVE FALSE
    OBVIOUS
  <2>1. i \in DOMAIN a.mem /\ m.att /\ ~a.mem[i].att /\ a.mem[i].text = m.text
    BY <1>2 DEF Placeholders, legacy_placeholder_matches_filename
  <2>2. PICK n \in Messages : a.mem[i].text = n.text /\ a.mem[i].att = n.att
    BY <1>1, <2>1 DEF AreMessages
  <2> QED BY <2>1, <2>2 DEF NamesAreClear
<1>4. \/ b = Taken(a, m) \/ b = Taken(Lost, m) \/ b = Noted(Taken(a, m), m, unnoted)
      \/ b = Lost
      \/ ~Echo(m) /\ b = Noted(Taken(u, m), m, unnoted)
  BY <1>3 DEF apply_message
<1>5. ASSUME NEW x, IsRecord(x)
      PROVE  /\ IsRecord(Taken(x, m)) /\ Taken(x, m).file = x.file /\ Taken(x, m).mem = x.mem
             /\ IsRecord(Noted(x, m, unnoted)) /\ Noted(x, m, unnoted).file = x.file
             /\ Noted(x, m, unnoted).mem = x.mem
  BY <1>5 DEF IsRecord, Taken, Noted
<1>6. IsRecord(Lost) /\ Lost.file = a.file /\ Lost.mem = a.mem
  BY <1>1 DEF IsRecord
<1>7. ASSUME ~Echo(m)
      PROVE  /\ IsRecord(u) /\ Afresh(u.file, u.mem, T) /\ Extends(a.file, u.file, W)
  <2>1. line \in T /\ FileForm(line) \in T /\ FileForm(line) \in W
        /\ FileForm(FileForm(line)) = FileForm(line)
    <3>1. m.by = "peer" /\ Written(m)
      BY <1>7 DEF Echo, Parties, Written
    <3>2. line \in T
      BY <1>2, <3>1 DEF Told, LineOf
    <3>3. Sound(T, W, Late(c))
      BY SoundNow DEF Sounds
    <3>4. FileForm(line) \in W
      BY <3>1 DEF Filed, WrittenBy, line
    <3> HIDE DEF line, T, W
    <3> QED BY <1>2, <3>2, <3>3, <3>4, FileFormFields DEF Sound
  <2>2. u = [a EXCEPT !.file = Saved(@, line), !.mem = Append(@, line)]
    BY DEF Shown
  <2> DEFINE f == Saved(a.file, line)
             s == Append(a.mem, line)
  <2>3. IsRecord(u) /\ u.file = f /\ u.mem = s
    BY <1>1, <2>2 DEF IsRecord
  <2>4. /\ f \in Seq(T) /\ Extends(a.file, f, W)
        /\ \A i \in DOMAIN f : f[i] = FileForm(line)
             \/ (i \in DOMAIN a.file /\ f[i] = a.file[i])
    <3> HIDE DEF T, W, line
    <3> QED BY <1>1, <2>1, SavedExtends
  <2>5. Recorded(f, T)
    BY <1>1, <2>1, <2>4 DEF Recorded
  <2>6. /\ s \in Seq(T) /\ Len(a.mem) \in Nat /\ DOMAIN a.mem = 1 .. Len(a.mem)
        /\ DOMAIN s = 1 .. Len(a.mem) + 1 /\ s[Len(a.mem) + 1] = line
        /\ \A i \in 1 .. Len(a.mem) : s[i] = a.mem[i]
    <3> HIDE DEF T, line
    <3> QED BY <1>1, <2>1, AppendProperties
  <2>7. AreMessages(s)
    <3> SUFFICES ASSUME NEW i \in DOMAIN s
                 PROVE  \E n \in Messages : s[i].text = n.text /\ s[i].att = n.att
      BY DEF AreMessages
    <3> HIDE DEF s, line
    <3>1. i \in DOMAIN a.mem \/ i = Len(a.mem) + 1
      BY <2>6
    <3> QED BY <1>1, <1>2, <2>6, <3>1 DEF AreMessages
  <2> QED BY <2>3, <2>4, <2>5, <2>6, <2>7 DEF Afresh
<1> HIDE DEF b, line, old, Lost, u, T, W
<1>8. \A x, y : /\ IsRecord(x) /\ Afresh(x.file, x.mem, T) /\ Extends(a.file, x.file, W)
                /\ IsRecord(y) /\ y.file = x.file /\ y.mem = x.mem
                => GoodStep(y, a, c, TRUE)
  BY DEF GoodStep, InStep, InPlace, T, W
<1>9. /\ IsRecord(a) /\ Afresh(a.file, a.mem, T) /\ Extends(a.file, a.file, W)
  BY <1>1, ExtendsOn DEF Afresh
<1>10. CASE b = Taken(a, m)
  BY <1>1, <1>5, <1>8, <1>9, <1>10 DEF b
<1>11. CASE b = Taken(Lost, m)
  BY <1>5, <1>6, <1>8, <1>9, <1>11 DEF b
<1>12. CASE b = Noted(Taken(a, m), m, unnoted)
  BY <1>1, <1>5, <1>8, <1>9, <1>12 DEF b
<1>13. CASE b = Lost
  BY <1>6, <1>8, <1>9, <1>13 DEF b
<1>14. CASE ~Echo(m) /\ b = Noted(Taken(u, m), m, unnoted)
  BY <1>5, <1>7, <1>8, <1>14 DEF b
<1> QED BY <1>4, <1>10, <1>11, <1>12, <1>13, <1>14

LEMMA MessageStep ==
  ASSUME NamesAreClear, ChatTyped, NEW c \in Chats, NEW gone \in BOOLEAN,
         NEW a, InStep(a, c, gone),
         NEW m \in Messages, m \in relay, m.by \in Parties, m.chat = c,
         NEW unsaved, NEW unnoted
  PROVE  GoodStep(apply_message(a, m, unsaved, unnoted), a, c, gone)
<1>1. CASE gone
  <2>1. gone = TRUE
    BY <1>1
  <2> QED BY <2>1, MessageAfresh
<1>2. CASE ~gone
  <2>1. IsAcc(a, c)
    BY <1>2 DEF InStep, InPlace, IsAcc, IsRecord
  <2>2. GoodAcc(apply_message(a, m, unsaved, unnoted), a, c)
    BY <2>1, MessageApplied
  <2> QED BY <1>2, <2>2 DEF GoodStep
<1> QED BY <1>1, <1>2

\* Handed g[n], the handlers have applied the first n messages.
Applies(g, a, msgs, unsaved, unnoted, n) ==
  g = [i \in 0 .. n |->
         IF i = 0 THEN a ELSE apply_message(g[i - 1], msgs[i], unsaved, unnoted)]

LEMMA AppliesIsDefined ==
  ASSUME NEW a, NEW msgs, NEW unsaved, NEW unnoted, NEW n \in Nat
  PROVE  \E g : Applies(g, a, msgs, unsaved, unnoted, n)
<1> DEFINE P == {m \in Nat : \E g : Applies(g, a, msgs, unsaved, unnoted, m)}
<1>1. 0 \in P
  <2> DEFINE g == [i \in 0 .. 0 |-> a]
  <2>1. Applies(g, a, msgs, unsaved, unnoted, 0)
    BY DEF Applies
  <2> QED BY <2>1
<1>2. ASSUME NEW m \in Nat, m \in P PROVE m + 1 \in P
  <2>1. PICK h : Applies(h, a, msgs, unsaved, unnoted, m)
    BY <1>2
  <2> DEFINE next == apply_message(h[m], msgs[m + 1], unsaved, unnoted)
             g == [i \in 0 .. m + 1 |-> IF i = m + 1 THEN next ELSE h[i]]
             At(i) == IF i = 0 THEN a ELSE apply_message(g[i - 1], msgs[i], unsaved, unnoted)
  <2>2. \A i \in 0 .. m : g[i] = h[i]
    OBVIOUS
  <2>3. ASSUME NEW i \in 0 .. m PROVE g[i] = At(i)
    <3>1. h[i] = IF i = 0 THEN a ELSE apply_message(h[i - 1], msgs[i], unsaved, unnoted)
      BY <2>1 DEF Applies
    <3>2. g[i] = h[i] /\ (i # 0 => g[i - 1] = h[i - 1])
      BY <2>2
    <3> QED BY <3>1, <3>2
  <2>4. g[m + 1] = At(m + 1)
    <3>1. g[m + 1] = next /\ m + 1 # 0 /\ (m + 1) - 1 = m /\ g[m] = h[m]
      BY <2>2
    <3> QED BY <3>1
  <2>5. \A i \in 0 .. m + 1 : g[i] = At(i)
    <3> HIDE DEF At, g
    <3> QED BY <2>3, <2>4
  <2> HIDE DEF At
  <2>6. g = [i \in 0 .. m + 1 |-> At(i)]
    BY <2>5
  <2>7. Applies(g, a, msgs, unsaved, unnoted, m + 1)
    BY <2>6 DEF Applies, At
  <2> QED BY <2>7
<1> QED BY <1>1, <1>2, SetInduction

LEMMA AppliedStepwise ==
  ASSUME NEW a, NEW msgs, NEW unsaved, NEW unnoted, Len(msgs) \in Nat
  PROVE  \E g : /\ g[0] = a /\ Applied(a, msgs, unsaved, unnoted) = g[Len(msgs)]
                /\ \A i \in 1 .. Len(msgs) :
                     g[i] = apply_message(g[i - 1], msgs[i], unsaved, unnoted)
<1> DEFINE g == CHOOSE h : Applies(h, a, msgs, unsaved, unnoted, Len(msgs))
<1>1. Applies(g, a, msgs, unsaved, unnoted, Len(msgs))
  BY AppliesIsDefined
<1>2. Applied(a, msgs, unsaved, unnoted) = g[Len(msgs)]
  BY DEF Applied, Applies
<1> HIDE DEF g
<1>3. \A i \in 0 .. Len(msgs) :
        g[i] = IF i = 0 THEN a ELSE apply_message(g[i - 1], msgs[i], unsaved, unnoted)
  BY <1>1 DEF Applies
<1>4. g[0] = a
  BY <1>3
<1>5. \A i \in 1 .. Len(msgs) : g[i] = apply_message(g[i - 1], msgs[i], unsaved, unnoted)
  BY <1>3
<1> QED BY <1>2, <1>4, <1>5

\* An update leaves screen and file of its chat in step.
LEMMA UpdateApplied ==
  ASSUME NamesAreClear, ChatTyped, NEW c \in Chats, NEW gone \in BOOLEAN,
         NEW a, InStep(a, c, gone),
         NEW msgs \in Seq(Messages),
         \A i \in DOMAIN msgs :
           msgs[i] \in relay /\ msgs[i].by \in Parties /\ msgs[i].chat = c,
         NEW unsaved, NEW unnoted
  PROVE  GoodStep(Applied(a, msgs, unsaved, unnoted), a, c, gone)
<1>1. Len(msgs) \in Nat /\ DOMAIN msgs = 1 .. Len(msgs)
  OBVIOUS
<1>2. PICK g : /\ g[0] = a /\ Applied(a, msgs, unsaved, unnoted) = g[Len(msgs)]
               /\ \A i \in 1 .. Len(msgs) :
                    g[i] = apply_message(g[i - 1], msgs[i], unsaved, unnoted)
  BY <1>1, AppliedStepwise
<1> DEFINE P == {n \in Nat : n <= Len(msgs) => GoodStep(g[n], a, c, gone)}
<1>3. 0 \in P
  BY <1>2, StepOn
<1>4. ASSUME NEW n \in Nat, n \in P PROVE n + 1 \in P
  <2> SUFFICES ASSUME n + 1 <= Len(msgs) PROVE GoodStep(g[n + 1], a, c, gone)
    OBVIOUS
  <2>1. GoodStep(g[n], a, c, gone)
    BY <1>1, <1>4
  <2>2. InStep(g[n], c, gone)
    BY <2>1, StepOn
  <2>3. /\ msgs[n + 1] \in Messages /\ msgs[n + 1] \in relay /\ msgs[n + 1].by \in Parties
        /\ msgs[n + 1].chat = c
    BY <1>1
  <2>4. GoodStep(apply_message(g[n], msgs[n + 1], unsaved, unnoted), g[n], c, gone)
    BY <2>2, <2>3, MessageStep
  <2>5. g[n + 1] = apply_message(g[n], msgs[n + 1], unsaved, unnoted)
    <3>1. n + 1 \in 1 .. Len(msgs) /\ (n + 1) - 1 = n
      BY <1>1
    <3> QED BY <1>2, <3>1
  <2> QED BY <2>1, <2>4, <2>5, StepOn
<1>5. Len(msgs) \in P
  <2> HIDE DEF P
  <2> QED BY <1>1, <1>3, <1>4, SetInduction
<1> QED BY <1>1, <1>2, <1>5
-----------------------------------------------------------------------------
(* The router knows of no chat that was never opened.                      *)

IsCmds(q, C) == \E S : q \in Seq(S) /\ \A x \in S : x.chat \in C

Met == {c \in Chats : open[c] # "new"}
Routes ==
  /\ IsCmds(cmds, Met)
  /\ DOMAIN targets \subseteq Met
  /\ \A i \in DOMAIN updates : updates[i].chat \in Met

LEMMA SetToSeqOrders ==
  ASSUME NEW S, IsFiniteSet(S)
  PROVE  /\ Cardinality(S) \in Nat
         /\ SetToSeq(S) \in [1 .. Cardinality(S) -> S]
         /\ \A i, j \in 1 .. Cardinality(S) : SetToSeq(S)[i] = SetToSeq(S)[j] => i = j
<1>1. Cardinality(S) \in Nat /\ ExistsBijection(1 .. Cardinality(S), S)
  BY FS_CardinalityType
<1>2. \E f \in [1 .. Cardinality(S) -> S] : IsInjective(f)
  BY <1>1 DEF ExistsBijection, Bijection, Injection
<1> DEFINE g == SetToSeq(S)
<1>3. g \in [1 .. Cardinality(S) -> S] /\ IsInjective(g)
  BY <1>2 DEF SetToSeq
<1> HIDE DEF g
<1>4. \A i, j \in 1 .. Cardinality(S) : g[i] = g[j] => i = j
  BY <1>3 DEF IsInjective
<1> QED BY <1>1, <1>3, <1>4 DEF g

LEMMA NoCmds ==
  ASSUME NEW C
  PROVE  IsCmds(<< >>, C)
<1> DEFINE none == {}
<1>1. << >> \in Seq(none) /\ \A x \in none : x.chat \in C
  BY EmptySeq
<1> HIDE DEF none
<1> QED BY <1>1, Zenon DEF IsCmds

LEMMA CmdAppended ==
  ASSUME NEW C, NEW q, IsCmds(q, C), NEW x, x.chat \in C
  PROVE  IsCmds(Append(q, x), C)
<1>1. PICK S : q \in Seq(S) /\ \A y \in S : y.chat \in C
  BY DEF IsCmds
<1>2. q \in Seq(S \cup {x})
  BY <1>1
<1>3. Append(q, x) \in Seq(S \cup {x})
  BY <1>2
<1> QED BY <1>1, <1>3 DEF IsCmds

LEMMA StartTracks ==
  ASSUME NEW C, C \subseteq Chats, NEW cs, cs \subseteq C, NEW since
  PROVE  IsCmds(track_startup_chats(cs, since), C)
<1> DEFINE e(c) == Track(c, clamp_chat_since_cursor_now(since[c]))
           S == {e(c) : c \in cs}
           f == [c \in cs |-> e(c)]
<1>1. IsFiniteSet(cs)
  BY ChatBounds, FS_Subset
<1>2. f \in Surjection(cs, S)
  BY DEF Surjection
<1>3. \A x \in S : x.chat \in C
  BY DEF Track
<1>4. track_startup_chats(cs, since) = SetToSeq(S)
  BY DEF track_startup_chats
<1> HIDE DEF e, f, S
<1>5. IsFiniteSet(S)
  BY <1>1, <1>2, FS_Surjection
<1>6. Cardinality(S) \in Nat /\ SetToSeq(S) \in [1 .. Cardinality(S) -> S]
  BY <1>5, SetToSeqOrders
<1>7. SetToSeq(S) \in Seq(S)
  BY <1>6, SeqDef
<1> QED BY <1>3, <1>4, <1>7 DEF IsCmds

\* Handed g[n], the router has taken the first n commands.
Receives(g, r, n) ==
  g = [i \in 0 .. n |-> IF i = 0 THEN r ELSE apply_chat_router_cmd(g[i - 1], cmds[i])]

LEMMA ReceivesIsDefined ==
  ASSUME NEW r, NEW n \in Nat
  PROVE  \E g : Receives(g, r, n)
<1> DEFINE P == {m \in Nat : \E g : Receives(g, r, m)}
<1>1. 0 \in P
  <2> DEFINE g == [i \in 0 .. 0 |-> r]
  <2>1. Receives(g, r, 0)
    BY DEF Receives
  <2> QED BY <2>1
<1>2. ASSUME NEW m \in Nat, m \in P PROVE m + 1 \in P
  <2>1. PICK h : Receives(h, r, m)
    BY <1>2
  <2> DEFINE next == apply_chat_router_cmd(h[m], cmds[m + 1])
             g == [i \in 0 .. m + 1 |-> IF i = m + 1 THEN next ELSE h[i]]
             At(i) == IF i = 0 THEN r ELSE apply_chat_router_cmd(g[i - 1], cmds[i])
  <2>2. \A i \in 0 .. m : g[i] = h[i]
    OBVIOUS
  <2>3. ASSUME NEW i \in 0 .. m PROVE g[i] = At(i)
    <3>1. h[i] = IF i = 0 THEN r ELSE apply_chat_router_cmd(h[i - 1], cmds[i])
      BY <2>1 DEF Receives
    <3>2. g[i] = h[i] /\ (i # 0 => g[i - 1] = h[i - 1])
      BY <2>2
    <3> QED BY <3>1, <3>2
  <2>4. g[m + 1] = At(m + 1)
    <3>1. g[m + 1] = next /\ m + 1 # 0 /\ (m + 1) - 1 = m /\ g[m] = h[m]
      BY <2>2
    <3> QED BY <3>1
  <2>5. \A i \in 0 .. m + 1 : g[i] = At(i)
    <3> HIDE DEF At, g
    <3> QED BY <2>3, <2>4
  <2> HIDE DEF At
  <2>6. g = [i \in 0 .. m + 1 |-> At(i)]
    BY <2>5
  <2>7. Receives(g, r, m + 1)
    BY <2>6 DEF Receives, At
  <2> QED BY <2>7
<1> QED BY <1>1, <1>2, SetInduction

\* The router's memory while it takes its commands: a chat whose history it will fetch
\* starts with the ids on the disk, and the others are as they were.
Kept0 == [targets |-> targets, pending_hydration |-> << >>, resubscribe |-> FALSE,
          inner |-> inner, tokens |-> tokens]

LEMMA CmdsRouted ==
  ASSUME Routes
  PROVE  DOMAIN apply_chat_router_cmds.targets \subseteq Met
<1>1. PICK S : cmds \in Seq(S) /\ \A x \in S : x.chat \in Met
  BY DEF Routes, IsCmds
<1>2. /\ Len(cmds) \in Nat /\ DOMAIN cmds = 1 .. Len(cmds)
      /\ \A i \in 1 .. Len(cmds) : cmds[i].chat \in Met
  BY <1>1
<1> DEFINE g == CHOOSE h : Receives(h, Kept0, Len(cmds))
<1>3. Receives(g, Kept0, Len(cmds))
  BY <1>2, ReceivesIsDefined
<1>4. apply_chat_router_cmds = g[Len(cmds)]
  BY DEF apply_chat_router_cmds, Receives, Kept0
<1> HIDE DEF g
<1>5. \A i \in 0 .. Len(cmds) :
        g[i] = IF i = 0 THEN Kept0 ELSE apply_chat_router_cmd(g[i - 1], cmds[i])
  BY <1>3 DEF Receives
<1> DEFINE Fit(r) ==
             /\ DOMAIN r = {"targets", "pending_hydration", "resubscribe", "inner", "tokens"}
             /\ DOMAIN r.targets \subseteq Met
           P == {n \in Nat : n <= Len(cmds) => Fit(g[n])}
<1>6. 0 \in P
  <2>1. Fit(Kept0)
    BY DEF Kept0, Routes
  <2>2. g[0] = Kept0
    BY <1>2, <1>5
  <2> HIDE DEF Fit
  <2> QED BY <2>1, <2>2
<1>7. ASSUME NEW r, Fit(r), NEW cmd, cmd.chat \in Met
      PROVE  Fit(apply_chat_router_cmd(r, cmd))
  <2> DEFINE c == cmd.chat
             T == [d \in DOMAIN r.targets \cup {c} |->
                     IF d = c THEN cmd.since ELSE r.targets[d]]
             U == [d \in DOMAIN r.targets \ {c} |-> r.targets[d]]
  <2>1. DOMAIN T \subseteq Met /\ DOMAIN U \subseteq Met
    BY <1>7
  <2> HIDE DEF T, U, c
  <2>2. CASE cmd.do = "track" /\ c \notin DOMAIN r.targets
    <3>1. apply_chat_router_cmd(r, cmd) =
            [r EXCEPT !.targets = T, !.pending_hydration = Append(@, c), !.resubscribe = TRUE,
                      !.inner[c] = ids[c]]
      BY <2>2 DEF apply_chat_router_cmd, T, c
    <3> QED BY <1>7, <2>1, <3>1
  <2>3. CASE cmd.do = "untrack" /\ c \in DOMAIN r.targets
    <3>1. apply_chat_router_cmd(r, cmd) =
            [r EXCEPT !.targets = U, !.resubscribe = TRUE, !.inner[c] = {}, !.tokens[c] = Burst]
      BY <2>3 DEF apply_chat_router_cmd, U, c
    <3> QED BY <1>7, <2>1, <3>1
  <2>4. CASE /\ ~(cmd.do = "track" /\ c \notin DOMAIN r.targets)
             /\ ~(cmd.do = "untrack" /\ c \in DOMAIN r.targets)
    <3>1. apply_chat_router_cmd(r, cmd) = r
      BY <2>4 DEF apply_chat_router_cmd, c
    <3> QED BY <1>7, <3>1
  <2> QED BY <2>2, <2>3, <2>4
<1>8. ASSUME NEW n \in Nat, n \in P PROVE n + 1 \in P
  <2> SUFFICES ASSUME n + 1 <= Len(cmds) PROVE Fit(g[n + 1])
    OBVIOUS
  <2>1. Fit(g[n])
    BY <1>2, <1>8
  <2>2. /\ n + 1 \in 0 .. Len(cmds) /\ n + 1 # 0 /\ (n + 1) - 1 = n
        /\ cmds[n + 1].chat \in Met
    BY <1>2
  <2>3. g[n + 1] = apply_chat_router_cmd(g[n], cmds[n + 1])
    BY <1>5, <2>2
  <2> HIDE DEF Fit
  <2> QED BY <1>7, <2>1, <2>2, <2>3
<1>9. Len(cmds) \in P
  <2> HIDE DEF P
  <2> QED BY <1>2, <1>6, <1>8, SetInduction
<1>10. Fit(g[Len(cmds)])
  <2> HIDE DEF Fit
  <2> QED BY <1>2, <1>9
<1> QED BY <1>4, <1>10

LEMMA RoutesStart == ChatInit => Routes
<1> SUFFICES ASSUME ChatInit PROVE Routes
  OBVIOUS
<1>1. OpenChats \subseteq Met /\ Met \subseteq Chats
  BY DEF OpenChats, Met
<1>2. IsCmds(cmds, Met)
  BY <1>1, StartTracks DEF ChatInit
<1>3. targets = << >> /\ updates = << >>
  BY DEF ChatInit
<1> QED BY <1>2, <1>3 DEF Routes

LEMMA RoutesStep ==
  ASSUME ChatTyped, Routes, [ChatNext]_chatVars
  PROVE  Routes'
<1> USE DEF world, router, screen, ghosts
<1>1. Met \subseteq Met' /\ Met' \subseteq Chats
  BY DEF Met, ChatTyped, chatVars, ChatNext, Restart, Respawn, Tick, Skip, Open, List, Again,
     CloseChat, Forget, Publish, Redeliver, Send, ApplyCmds, Subscribe, SubscribeFails, Hydrate,
     Listen, IgnoreNote, TurnAway, ReadNote, ApplyUpdate
<1>2. OpenChats \subseteq Met /\ \A c \in Chats : open'[c] \in {"open", "closed"} => c \in Met'
  BY DEF OpenChats, Met
<1>3. /\ \A C : IsCmds(<< >>, C)
      /\ \A q : IsCmds(q, Met) => IsCmds(q, Met')
  BY <1>1, NoCmds DEF IsCmds
<1>4. IsCmds(cmds', Met')
  <2>1. ASSUME NEW x, x.chat \in Met', cmds' = Append(cmds, x) PROVE IsCmds(cmds', Met')
    BY <1>3, <2>1, CmdAppended DEF Routes
  <2>2. ASSUME NEW cs, cs \subseteq OpenChats, NEW since, cmds' = track_startup_chats(cs, since)
        PROVE  IsCmds(cmds', Met')
    <3>1. cs \subseteq Met'
      BY <1>1, <1>2, <2>2
    <3> QED BY <1>1, <2>2, <3>1, StartTracks
  <2>3. CASE Restart
    BY <2>2, <2>3 DEF Restart
  <2>4. CASE Respawn
    <3>1. OpenChats \cap listed \subseteq OpenChats
      OBVIOUS
    <3> QED BY <2>2, <2>4, <3>1 DEF Respawn
  <2>5. ASSUME NEW c \in Chats, Open(c) \/ Again(c) \/ CloseChat(c) PROVE IsCmds(cmds', Met')
    <3>1. \E x : x.chat = c /\ cmds' = Append(cmds, x)
      BY <2>5 DEF Open, Again, CloseChat, Track, Untrack
    <3>2. open'[c] \in {"open", "closed"}
      BY <2>5 DEF Open, Again, CloseChat, ChatTyped
    <3>3. c \in Met'
      BY <1>2, <3>2
    <3> QED BY <2>1, <3>1, <3>3
  <2>6. CASE ApplyCmds
    BY <1>3, <2>6 DEF ApplyCmds
  <2>7. CASE \/ Tick \/ Skip \/ Subscribe \/ SubscribeFails \/ Hydrate
             \/ IgnoreNote \/ TurnAway \/ ReadNote \/ ApplyUpdate
             \/ \E c \in Chats : List(c) \/ Forget(c)
             \/ \E m \in Messages : Publish(m) \/ Redeliver(m) \/ Send(m)
             \/ UNCHANGED chatVars
    <3>1. cmds' = cmds
      BY <2>7 DEF chatVars, Tick, Skip, List, Forget, Publish, Redeliver, Send, Subscribe,
         SubscribeFails, Hydrate, Listen, IgnoreNote, TurnAway, ReadNote, ApplyUpdate
    <3> QED BY <1>3, <3>1 DEF Routes
  <2> QED BY <2>3, <2>4, <2>5, <2>6, <2>7 DEF ChatNext
<1>5. DOMAIN targets' \subseteq Met'
  <2>1. CASE ApplyCmds
    BY <1>1, <2>1, CmdsRouted DEF ApplyCmds
  <2>2. CASE ~ApplyCmds
    <3>1. targets' = targets \/ targets' = << >>
      BY <2>2 DEF chatVars, ChatNext, Restart, Respawn, Reborn, Tick, Skip, Open, List, Again,
         CloseChat, Forget, Publish, Redeliver, Send, Subscribe, SubscribeFails, Hydrate,
         Listen, IgnoreNote, TurnAway, ReadNote, ApplyUpdate
    <3> QED BY <1>1, <3>1 DEF Routes
  <2> QED BY <2>1, <2>2
<1>6. ASSUME NEW i \in DOMAIN updates' PROVE updates'[i].chat \in Met'
  <2>1. ASSUME NEW c \in DOMAIN targets, NEW msgs, Emit(c, msgs)
        PROVE  updates'[i].chat \in Met'
    <3>1. CASE updates' = updates
      BY <1>1, <1>6, <3>1 DEF Routes
    <3>2. CASE updates' = Append(updates, [chat |-> c, msgs |-> msgs])
      <4> DEFINE u == [chat |-> c, msgs |-> msgs]
      <4>1. updates'[i] = u \/ (i \in DOMAIN updates /\ updates'[i] = updates[i])
        BY <1>6, <3>2 DEF ChatTyped
      <4>2. u.chat = c
        OBVIOUS
      <4> QED BY <1>1, <4>1, <4>2 DEF Routes
    <3> QED BY <2>1, <3>1, <3>2 DEF Emit
  <2>2. ASSUME updates' = updates \/ updates' = << >> PROVE updates'[i].chat \in Met'
    BY <1>1, <1>6, <2>2 DEF Routes
  <2>3. CASE Hydrate
    <3>1. \/ UNCHANGED updates
          \/ \E c \in DOMAIN targets : \E msgs : Emit(c, msgs)
      BY <2>3 DEF Hydrate
    <3> QED BY <2>1, <2>2, <3>1
  <2>4. CASE ReadNote
    <3>1. \/ UNCHANGED updates
          \/ \E c \in DOMAIN targets : \E msgs : Emit(c, msgs)
      BY <2>4 DEF ReadNote, Routed
    <3> QED BY <2>1, <2>2, <3>1
  <2>5. CASE ApplyUpdate
    <3>1. updates # << >> /\ updates' = Tail(updates)
      BY <2>5 DEF ApplyUpdate
    <3>2. i + 1 \in DOMAIN updates /\ updates'[i] = updates[i + 1]
      BY <1>6, <3>1 DEF ChatTyped
    <3> QED BY <1>1, <3>2 DEF Routes
  <2>6. CASE ~(Hydrate \/ ReadNote \/ ApplyUpdate)
    <3>1. updates' = updates \/ updates' = << >>
      BY <2>6 DEF chatVars, ChatNext, Restart, Respawn, Reborn, Tick, Skip, Open, List, Again,
         CloseChat, Forget, Publish, Redeliver, Send, ApplyCmds, Subscribe, SubscribeFails,
         Listen, IgnoreNote, TurnAway
    <3> QED BY <2>2, <3>1
  <2> QED BY <2>3, <2>4, <2>5, <2>6
<1> QED BY <1>4, <1>5, <1>6 DEF Routes
-----------------------------------------------------------------------------
(* The invariant: what the files and the screen say has been told, and     *)
(* they are in step.                                                       *)

ChatInv ==
  /\ ChatTyped /\ Routes
  /\ \A c \in Chats :
       InPlace(file[c], mem[c], Told(c), Late(c), open[c] = "forgotten")
  /\ \A c \in Chats : open[c] = "new" => file[c] = <<>> /\ mem[c] = <<>>

\* The lines told of a chat stay told.
TellsOn ==
  /\ role' = role /\ relay \subseteq relay'
  /\ \A i \in OwnIds : stamp[i] > 0 => stamp'[i] = stamp[i]

LEMMA ToldOn ==
  ASSUME ChatTyped, TellsOn, NEW c \in Chats
  PROVE  Told(c) \subseteq Told(c)' /\ Late(c) \subseteq Late(c)'
<1>1. ASSUME NEW m \in Messages, Written(m)
      PROVE  Written(m)' /\ time(m)' = time(m) /\ FileForm(Line(m))' = FileForm(Line(m))
  <2>1. m.by = "self" => m.id \in OwnIds
    BY DEF OwnIds
  <2>2. m.by = "self" => stamp[m.id] > 0 /\ stamp'[m.id] = stamp[m.id]
    BY <1>1, <2>1 DEF Written, TellsOn
  <2>3. Written(m)' /\ time(m)' = time(m)
    BY <1>1, <2>2 DEF Written, TellsOn, time
  <2> QED BY <2>3 DEF Line, FileForm
<1>2. Told(c) \subseteq Told(c)'
  <2> SUFFICES ASSUME NEW l \in Told(c) PROVE l \in Told(c)'
    OBVIOUS
  <2>1. PICK m \in Messages : m.chat = c /\ LineOf(l, m) /\ l \in Lines
    BY DEF Told
  <2>2. LineOf(l, m)'
    BY <1>1, <2>1 DEF LineOf
  <2> QED BY <2>1, <2>2 DEF Told
<1>3. Late(c) \subseteq Late(c)'
  BY <1>1 DEF Late, LateBy, WrittenBy, TellsOn
<1> QED BY <1>2, <1>3

LEMMA ChatStart == NamesAreClear /\ ChatInit => ChatInv
<1> SUFFICES ASSUME NamesAreClear, ChatInit PROVE ChatInv
  OBVIOUS
<1>1. PICK old \in SUBSET Legacy :
        /\ open = [c \in Chats |-> IF \E m \in old : m.chat = c THEN "open" ELSE "new"]
        /\ file = [c \in Chats |->
             SetToSeq({PlaceholderOf(Line(m)) : m \in {n \in old : n.chat = c}})]
  BY DEF ChatInit
<1>2. /\ role \in {"user", "admin"} /\ clock = 1
      /\ relay = Legacy \cup {m \in Messages : m.by = "stranger"}
      /\ stamp = [i \in OwnIds |-> 0]
      /\ mem = file /\ listed = OpenChats /\ notes = << >> /\ updates = << >>
  BY DEF ChatInit, OwnIds
<1>3. /\ clock \in Nat \ {0} /\ Legacy \subseteq relay /\ relay \subseteq Messages
      /\ stamp \in [OwnIds -> Nat] /\ open \in [Chats -> Lives]
      /\ notes \in Seq(relay) /\ updates \in Seq(Updates)
  BY <1>1, <1>2, LegacyAssumption DEF Lives
<1>4. ASSUME NEW c \in Chats
      PROVE  /\ file[c] \in Seq(Told(c)) /\ Distinct(file[c])
             /\ \A i \in DOMAIN file[c] : FileForm(file[c][i]) = file[c][i]
             /\ open[c] = "new" => file[c] = << >>
  <2> DEFINE Ofc == {n \in old : n.chat = c}
             S == {PlaceholderOf(Line(m)) : m \in Ofc}
  <2>1. IsFiniteSet(S)
    <3>1. Ofc \in SUBSET Messages
      BY LegacyAssumption
    <3>2. IsFiniteSet(Ofc)
      <4> HIDE DEF Ofc
      <4> QED BY <3>1, MessagesAssumption, FS_Subset
    <3> DEFINE f == [m \in Ofc |-> PlaceholderOf(Line(m))]
    <3>3. f \in Surjection(Ofc, S)
      BY DEF Surjection
    <3> HIDE DEF f, Ofc, S
    <3> QED BY <3>2, <3>3, FS_Surjection
  <2>2. ASSUME NEW l \in S
        PROVE  /\ l \in Told(c) /\ l \in Lines /\ FileForm(l) = l
               /\ l.att = FALSE /\ l.wrapped = FALSE
    <3>1. PICK m \in Messages : /\ m \in Legacy /\ m.chat = c /\ l = PlaceholderOf(Line(m))
                                /\ m.by = "peer" /\ m.att
      BY LegacyAssumption
    <3>2. /\ Line(m) \in Lines
          /\ Line(m).by = m.by /\ Line(m).ts = time(m) /\ Line(m).text = m.text
          /\ Line(m).att = m.att /\ Line(m).wrapped = FALSE
      <4>1. m.ts \in Nat /\ m.att \in BOOLEAN /\ m.text \in Texts /\ m.by \in Signers
        BY MessagesAssumption DEF Texts
      <4> QED BY <3>1, <4>1 DEF Line, Lines, time
    <3>3. l \in Lines /\ SameWords(l, Line(m)) /\ l.att = FALSE /\ l.wrapped = FALSE
      BY <3>1, <3>2, PlaceholderFields
    <3>4. Written(m)
      BY <1>2, <3>1 DEF Written
    <3>5. LineOf(l, m)
      BY <3>1, <3>2, <3>3, <3>4 DEF LineOf, SameWords, Parties
    <3>6. l.text \notin LongTexts
      BY <3>1, <3>2, <3>3 DEF SameWords, NamesAreClear
    <3>7. FileForm(l) = l
      BY <3>3, <3>6, FileFormFields
    <3> QED BY <3>1, <3>3, <3>5, <3>7 DEF Told
  <2> DEFINE n == Cardinality(S)
  <2>3. /\ n \in Nat /\ file[c] \in [1 .. n -> S]
        /\ \A i, j \in 1 .. n : file[c][i] = file[c][j] => i = j
    <3>1. file[c] = SetToSeq(S)
      BY <1>1
    <3> HIDE DEF S
    <3> QED BY <2>1, <3>1, SetToSeqOrders
  <2>4. open[c] = "new" => S = {}
    BY <1>1
  <2> HIDE DEF S, n
  <2>5. file[c] \in Seq(Told(c)) /\ DOMAIN file[c] = 1 .. n
    <3>1. file[c] \in [1 .. n -> Told(c)]
      BY <2>2, <2>3
    <3> HIDE DEF n
    <3> QED BY <2>3, <3>1, SeqDef
  <2>6. Distinct(file[c])
    <3> SUFFICES ASSUME NEW i \in 1 .. n, NEW j \in 1 .. n, SameWords(file[c][i], file[c][j])
                 PROVE  i = j
      BY <2>5 DEF Distinct
    <3>1. file[c][i] \in S /\ file[c][j] \in S
      BY <2>3
    <3>2. file[c][i] = file[c][j]
      BY <2>2, <3>1, SameLine
    <3> QED BY <2>3, <3>2
  <2>7. open[c] = "new" => file[c] = << >>
    <3> SUFFICES ASSUME S = {} PROVE file[c] = << >>
      BY <2>4
    <3>1. n = 0
      <4>1. \A i \in 1 .. n : FALSE
        BY <2>3
      <4>2. n >= 1 => 1 \in 1 .. n
        BY <2>3
      <4> QED BY <2>3, <4>1, <4>2
    <3>2. Len(file[c]) = 0
      <4>1. Len(file[c]) \in Nat /\ DOMAIN file[c] = 1 .. Len(file[c])
        BY <2>5, LenProperties
      <4>2. Len(file[c]) >= 1 => 1 \in DOMAIN file[c]
        BY <4>1
      <4>3. 1 \notin DOMAIN file[c]
        BY <2>5, <3>1
      <4> QED BY <4>1, <4>2, <4>3
    <3> QED BY <2>5, <3>2, EmptySeq
  <2> QED BY <2>2, <2>3, <2>5, <2>6, <2>7
<1>5. file \in [Chats -> Seq(Lines)]
  <2>1. ASSUME NEW c \in Chats PROVE file[c] \in Seq(Lines)
    <3>1. Told(c) \subseteq Lines
      BY DEF Told
    <3>2. Seq(Told(c)) \subseteq Seq(Lines)
      BY <3>1
    <3> QED BY <1>4, <3>2
  <2>2. file = [c \in Chats |-> file[c]]
    BY <1>1
  <2> QED BY <2>1, <2>2
<1>6. ChatTyped
  BY <1>2, <1>3, <1>5 DEF ChatTyped
<1>7. \A c \in Chats : InPlace(file[c], mem[c], Told(c), Late(c), open[c] = "forgotten")
  <2>1. \A c \in Chats : Pane(file[c], mem[c], Told(c), Late(c))
    BY <1>2, <1>4, PaneOfFile DEF Transcribed
  <2>2. \A c \in Chats : open[c] # "forgotten"
    BY <1>1
  <2> QED BY <2>1, <2>2 DEF InPlace
<1>8. \A c \in Chats : open[c] = "new" => file[c] = << >> /\ mem[c] = << >>
  BY <1>2, <1>4
<1> QED BY <1>6, <1>7, <1>8, RoutesStart DEF ChatInv
-----------------------------------------------------------------------------
(* Every step keeps the invariant, and every transcript grows.             *)

\* Most steps leave the files alone, and read what they show from them at most.
ShowsOn(c) ==
  /\ open'[c] # "forgotten" => open[c] # "forgotten" /\ mem'[c] \in {mem[c], file[c]}
  /\ open'[c] = "forgotten" =>
       mem'[c] = << >> \/ (mem'[c] = mem[c] /\ open[c] = "forgotten")
  /\ open'[c] = "new" => open[c] = "new" /\ mem'[c] \in {mem[c], << >>}

LEMMA FilesAlone ==
  ASSUME ChatInv, Routes', ChatTyped', TellsOn, UNCHANGED file, \A c \in Chats : ShowsOn(c)
  PROVE  /\ ChatInv'
         /\ \A c \in Chats : open[c] # "forgotten" => Transcribed(file'[c], Told(c)')
<1>1. ASSUME NEW c \in Chats
      PROVE  /\ InPlace(file[c], mem'[c], Told(c)', Late(c)', open'[c] = "forgotten")
             /\ open[c] # "forgotten" => Transcribed(file[c], Told(c)')
  <2> DEFINE f == file[c]
             m == mem[c]
             T == Told(c)
             T2 == Told(c)'
             L2 == Late(c)'
  <2>1. T \subseteq T2 /\ Late(c) \subseteq L2
    BY ToldOn DEF ChatInv
  <2>2. InPlace(f, m, T, Late(c), open[c] = "forgotten")
    BY DEF ChatInv
  <2>3. open[c] = "forgotten" => Afresh(f, m, T2) /\ Recorded(f, T2)
    BY <2>1, <2>2, PaneKept DEF InPlace
  <2>4. open[c] # "forgotten" =>
          Pane(f, m, T2, L2) /\ Transcribed(f, T2) /\ Recorded(f, T2)
    BY <2>1, <2>2, PaneKept DEF InPlace, Pane
  <2> HIDE DEF f, m, T, T2, L2
  <2>5. CASE open'[c] = "forgotten"
    <3>1. Afresh(f, << >>, T2)
      <4>1. << >> \in Seq(T2) /\ AreMessages(<< >>)
        BY EmptySeq DEF AreMessages
      <4> QED BY <2>3, <2>4, <4>1 DEF Afresh
    <3>2. Afresh(f, mem'[c], T2)
      BY <2>3, <2>5, <3>1 DEF ShowsOn, m
    <3> QED BY <2>4, <2>5, <3>2 DEF InPlace, f, T2
  <2>6. CASE open'[c] # "forgotten"
    <3>1. Pane(f, f, T2, L2)
      BY <2>4, <2>6, PaneOfFile DEF ShowsOn
    <3>2. Pane(f, mem'[c], T2, L2)
      BY <2>4, <2>6, <3>1 DEF ShowsOn, f, m
    <3> QED BY <2>4, <2>6, <3>2 DEF InPlace, f, T2, L2
  <2> QED BY <2>5, <2>6
<1>2. \A c \in Chats : open'[c] = "new" => file[c] = << >> /\ mem'[c] = << >>
  BY DEF ChatInv, ShowsOn
<1>3. \A c \in Chats : file'[c] = file[c]
  OBVIOUS
<1> QED BY <1>1, <1>2, <1>3 DEF ChatInv

\* A step that leaves the transcripts and what is written alone.
Silent == UNCHANGED <<role, relay, stamp, file>>

LEMMA SilentTells ==
  ASSUME Silent
  PROVE  /\ TellsOn /\ Seq(Updates)' = Seq(Updates) /\ Seq(relay)' = Seq(relay)
         /\ \A c : Filed(c)' = Filed(c) /\ Late(c)' = Late(c) /\ Told(c)' = Told(c)
<1>1. TellsOn
  BY DEF Silent, TellsOn
<1>2. Updates' = Updates
  BY DEF Silent, Updates
<1>3. \A m : /\ time(m)' = time(m) /\ (Written(m)' <=> Written(m))
             /\ FileForm(Line(m))' = FileForm(Line(m))
  BY DEF Silent, time, Written, Line, FileForm
<1>4. \A S : WrittenBy(S)' = WrittenBy(S)
  BY <1>3 DEF WrittenBy
<1>5. \A c : Filed(c)' = Filed(c)
  BY <1>4 DEF Filed
<1>6. \A c : Late(c)' = Late(c)
  BY <1>3 DEF Late, LateBy, Silent, WrittenBy
<1>7. \A c : Told(c)' = Told(c)
  BY <1>3 DEF Told, LineOf
<1> QED BY <1>1, <1>2, <1>5, <1>6, <1>7 DEF Silent

LEMMA ReadNoteTyped ==
  ChatTyped /\ Listen => notes # << >> /\ notes' \in Seq(relay) /\ Note \in relay
BY HeadTailProperties DEF ChatTyped, Listen, Note

LEMMA EmitTyped ==
  ASSUME ChatTyped, NEW c \in Chats, NEW msgs \in Seq(Messages), Emit(c, msgs),
         \A i \in DOMAIN msgs : msgs[i] \in relay /\ msgs[i].by \in Parties /\ msgs[i].chat = c
  PROVE  updates' \in Seq(Updates)
<1> DEFINE u == [chat |-> c, msgs |-> msgs]
<1>1. u \in Updates
  BY DEF Updates
<1> HIDE DEF u
<1>2. Append(updates, u) \in Seq(Updates)
  BY <1>1 DEF ChatTyped
<1> QED BY <1>2 DEF Emit, ChatTyped, u

LEMMA ByTimeTyped ==
  ASSUME NEW c \in Chats, ChatTyped,
         NEW found, found \subseteq {m \in relay : m.chat = c /\ m.by \in Parties},
         NEW msgs \in ByTime(found)
  PROVE  /\ msgs \in Seq(Messages)
         /\ \A i \in DOMAIN msgs :
              msgs[i] \in relay /\ msgs[i].by \in Parties /\ msgs[i].chat = c
<1>1. found \in SUBSET Messages
  BY DEF ChatTyped
<1>2. IsFiniteSet(found)
  BY <1>1, MessagesAssumption, FS_Subset
<1>3. Cardinality(found) \in Nat
  BY <1>2, FS_CardinalityType
<1>4. msgs \in [1 .. Cardinality(found) -> found]
  BY DEF ByTime
<1>5. msgs \in [1 .. Cardinality(found) -> Messages]
  BY <1>1, <1>4
<1>6. msgs \in Seq(Messages)
  BY <1>3, <1>5, SeqDef
<1> QED BY <1>4, <1>6

\* The steps of the router, and those that respawn it or move its commands, leave
\* files and screen alone.
RouterStep ==
  \/ Respawn \/ Tick \/ Skip \/ ApplyCmds \/ Subscribe \/ SubscribeFails \/ Hydrate
  \/ IgnoreNote \/ TurnAway \/ ReadNote
  \/ \E c \in Chats : List(c) \/ Again(c)
  \/ \E m \in Messages : Redeliver(m)

LEMMA RouterStepTyped ==
  ASSUME ChatTyped, RouterStep
  PROVE  ChatTyped' /\ Silent /\ UNCHANGED <<mem, open>>
<1> USE DEF world, router, screen, ghosts
<1>1. Silent /\ UNCHANGED <<mem, open>>
  BY DEF RouterStep, Silent, Respawn, Reborn, Tick, Skip, ApplyCmds, Subscribe,
         SubscribeFails, Hydrate, Listen, IgnoreNote, TurnAway, ReadNote, List, Again, Redeliver
<1>2. clock' \in Nat \ {0}
  BY DEF ChatTyped, RouterStep, Respawn, Reborn, Tick, Skip, ApplyCmds, Subscribe,
         SubscribeFails, Hydrate, Listen, IgnoreNote, TurnAway, ReadNote, List, Again, Redeliver
<1>3. listed' \subseteq OpenChats'
  BY DEF ChatTyped, OpenChats, RouterStep, Respawn, Reborn, Tick, Skip, ApplyCmds, Subscribe,
         SubscribeFails, Hydrate, Listen, IgnoreNote, TurnAway, ReadNote, List, Again, Redeliver
<1>4. notes' \in Seq(relay)
  <2>1. CASE IgnoreNote \/ TurnAway \/ ReadNote
    BY <2>1, ReadNoteTyped DEF IgnoreNote, TurnAway, ReadNote
  <2>2. CASE Skip
    BY <2>2, HeadTailProperties DEF Skip, ChatTyped
  <2>3. CASE \E m \in Messages : Redeliver(m)
    BY <2>3 DEF Redeliver, ChatTyped
  <2>4. CASE Respawn
    BY <2>4 DEF Respawn, Reborn
  <2>5. CASE \/ Tick \/ ApplyCmds \/ Subscribe \/ SubscribeFails \/ Hydrate
             \/ \E c \in Chats : List(c) \/ Again(c)
    BY <2>5 DEF ChatTyped, Tick, ApplyCmds, Subscribe, SubscribeFails, Hydrate, List, Again
  <2> QED BY <2>1, <2>2, <2>3, <2>4, <2>5 DEF RouterStep
<1>5. updates' \in Seq(Updates)
  <2>1. CASE Hydrate
    <3> DEFINE c == Head(pending_hydration)
    <3>1. CASE c \notin DOMAIN targets
      BY <2>1, <3>1 DEF Hydrate, ChatTyped
    <3>2. CASE c \in DOMAIN targets
      <4>1. PICK found, msgs :
              /\ msgs \in ByTime(found)
              /\ found \subseteq {m \in relay : m.chat = c /\ m.by \in Parties}
              /\ Emit(c, msgs)
        BY <2>1, <3>2 DEF Hydrate, unwrap_ok, allowed_signers, Parties
      <4>2. CASE c \in Chats
        BY <4>1, <4>2, ByTimeTyped, EmitTyped
      <4>3. CASE c \notin Chats
        <5>. \A m \in relay : m.chat \in Chats
          BY MessagesAssumption DEF ChatTyped
        <5>. HIDE DEF c
        <5>1. found = {}
          BY <4>1, <4>3
        <5>2. msgs \in [1 .. Cardinality(found) -> {}]
          BY <4>1, <5>1 DEF ByTime
        <5>3. Cardinality(found) = 0
          BY <5>1, FS_EmptySet
        <5>4. msgs = << >>
          BY <5>2, <5>3
        <5> QED BY <4>1, <5>4 DEF Emit, ChatTyped
      <4> QED BY <4>2, <4>3
    <3> QED BY <3>1, <3>2
  <2>2. CASE ReadNote
    <3>1. CASE Readable
      <4>1. Note \in relay /\ Note \in Messages
        BY <2>2, ReadNoteTyped DEF ReadNote, ChatTyped
      <4>2. Note.chat \in Chats /\ Note.by \in Parties
        BY <3>1, <4>1, MessagesAssumption DEF Readable, unwrap_ok, allowed_signers, Parties
      <4>3. Emit(Note.chat, <<Note>>)
        BY <2>2, <3>1 DEF ReadNote
      <4> DEFINE msgs == <<Note>>
      <4>4. msgs \in Seq(Messages) /\ DOMAIN msgs = {1} /\ msgs[1] = Note
        BY <4>1
      <4> HIDE DEF msgs
      <4> QED BY <4>1, <4>2, <4>3, <4>4, EmitTyped DEF msgs
    <3>2. CASE ~Readable
      BY <2>2, <3>2 DEF ReadNote, ChatTyped
    <3> QED BY <3>1, <3>2
  <2>3. CASE ~(Hydrate \/ ReadNote)
    BY <2>3 DEF ChatTyped, RouterStep, Respawn, Reborn, Tick, Skip, ApplyCmds, Subscribe,
         SubscribeFails, Listen, IgnoreNote, TurnAway, List, Again, Redeliver
  <2> QED BY <2>1, <2>2, <2>3
<1>6. Seq(Updates)' = Seq(Updates) /\ Seq(relay)' = Seq(relay)
  BY <1>1, SilentTells
<1>7. updates' \in Seq(Updates)' /\ notes' \in Seq(relay)'
  BY <1>4, <1>5, <1>6
<1> QED BY <1>1, <1>2, <1>3, <1>7 DEF ChatTyped, Silent, OpenChats

\* The chats open and close, and the process starts anew: what is shown is what it
\* was, or what the file has, or nothing of a chat that is over.
LEMMA ChatsStep ==
  ASSUME ChatInv, Restart \/ \E d \in Chats : Open(d) \/ CloseChat(d) \/ Forget(d)
  PROVE  ChatTyped' /\ Silent /\ \A c \in Chats : ShowsOn(c)
<1> USE DEF world, router, screen, ghosts
<1>1. /\ Silent /\ UNCHANGED clock
      /\ notes' = notes \/ notes' = << >>
      /\ updates' = updates \/ updates' = << >>
  BY DEF Silent, Restart, Reborn, Open, CloseChat, Forget
<1>2. ChatTyped
  BY DEF ChatInv
<1>3. Seq(Updates)' = Seq(Updates) /\ Seq(relay)' = Seq(relay)
  BY <1>1, SilentTells
<1>4. notes' \in Seq(relay)' /\ updates' \in Seq(Updates)'
  <2>1. << >> \in Seq(relay) /\ << >> \in Seq(Updates)
    BY EmptySeq
  <2> QED BY <1>1, <1>2, <1>3, <2>1 DEF ChatTyped
<1>5. CASE Restart
  <2>1. /\ open' = [c \in Chats |-> IF open[c] = "closed" THEN "forgotten" ELSE open[c]]
        /\ listed' = OpenChats
        /\ mem' = [c \in Chats |-> IF open[c] = "open" THEN file[c] ELSE << >>]
    BY <1>5 DEF Restart
  <2>2. mem' \in [Chats -> Seq(Lines)]
    <3>1. << >> \in Seq(Lines)
      BY EmptySeq
    <3> QED BY <1>2, <2>1, <3>1 DEF ChatTyped
  <2>3. listed' \subseteq OpenChats'
    BY <2>1 DEF OpenChats
  <2>4. open' \in [Chats -> Lives]
    BY <1>2, <2>1 DEF ChatTyped, Lives
  <2>5. ChatTyped'
    BY <1>1, <1>2, <1>4, <2>2, <2>3, <2>4 DEF ChatTyped, Silent, OwnIds
  <2>6. ASSUME NEW c \in Chats PROVE ShowsOn(c)
    <3>1. /\ open'[c] = IF open[c] = "closed" THEN "forgotten" ELSE open[c]
          /\ mem'[c] = IF open[c] = "open" THEN file[c] ELSE << >>
          /\ open[c] = "new" => file[c] = << >>
          /\ open[c] \in Lives
      BY <1>2, <2>1 DEF ChatInv, ChatTyped
    <3> QED BY <3>1 DEF ShowsOn, Lives
  <2> QED BY <1>1, <2>5, <2>6
<1>6. ASSUME NEW d \in Chats, Open(d)
      PROVE  ChatTyped' /\ \A c \in Chats : ShowsOn(c)
  <2>1. /\ open[d] = "new" /\ open' = [open EXCEPT ![d] = "open"] /\ UNCHANGED mem
        /\ listed' \subseteq listed \cup {d}
    BY <1>6 DEF Open
  <2>2. listed' \subseteq OpenChats'
    BY <1>2, <2>1 DEF ChatTyped, OpenChats
  <2>3. open' \in [Chats -> Lives]
    BY <1>2, <2>1 DEF ChatTyped, Lives
  <2>4. ChatTyped'
    BY <1>1, <1>2, <1>4, <2>1, <2>2, <2>3 DEF ChatTyped, Silent, OwnIds
  <2>5. \A c \in Chats : ShowsOn(c)
    BY <1>2, <2>1 DEF ShowsOn, ChatInv, ChatTyped
  <2> QED BY <2>4, <2>5
<1>7. ASSUME NEW d \in Chats, CloseChat(d)
      PROVE  ChatTyped' /\ \A c \in Chats : ShowsOn(c)
  <2>1. /\ open[d] = "open" /\ open' = [open EXCEPT ![d] = "closed"]
        /\ UNCHANGED mem /\ listed' = listed \ {d}
    BY <1>7 DEF CloseChat
  <2>2. listed' \subseteq OpenChats'
    BY <1>2, <2>1 DEF ChatTyped, OpenChats
  <2>3. open' \in [Chats -> Lives]
    BY <1>2, <2>1 DEF ChatTyped, Lives
  <2>4. ChatTyped'
    BY <1>1, <1>2, <1>4, <2>1, <2>2, <2>3 DEF ChatTyped, Silent, OwnIds
  <2>5. \A c \in Chats : ShowsOn(c)
    BY <1>2, <2>1 DEF ShowsOn, ChatTyped
  <2> QED BY <2>4, <2>5
<1>8. ASSUME NEW d \in Chats, Forget(d)
      PROVE  ChatTyped' /\ \A c \in Chats : ShowsOn(c)
  <2>1. /\ open[d] = "closed" /\ open' = [open EXCEPT ![d] = "forgotten"]
        /\ mem' = [mem EXCEPT ![d] = << >>] /\ UNCHANGED listed
    BY <1>8 DEF Forget
  <2>2. mem' \in [Chats -> Seq(Lines)]
    <3>1. << >> \in Seq(Lines)
      BY EmptySeq
    <3> QED BY <1>2, <2>1, <3>1 DEF ChatTyped
  <2>3. listed' \subseteq OpenChats'
    BY <1>2, <2>1 DEF ChatTyped, OpenChats
  <2>4. open' \in [Chats -> Lives]
    BY <1>2, <2>1 DEF ChatTyped, Lives
  <2>5. ChatTyped'
    BY <1>1, <1>2, <1>4, <2>2, <2>3, <2>4 DEF ChatTyped, Silent, OwnIds
  <2>6. \A c \in Chats : ShowsOn(c)
    BY <1>2, <2>1 DEF ShowsOn, ChatTyped
  <2> QED BY <2>5, <2>6
<1> QED BY <1>1, <1>5, <1>6, <1>7, <1>8

LEMMA PublishStep ==
  ASSUME ChatInv, NEW m \in Messages, Publish(m)
  PROVE  ChatTyped' /\ TellsOn /\ UNCHANGED file /\ \A c \in Chats : ShowsOn(c)
<1>1. /\ relay' = relay \cup {m} /\ notes' \in {notes, Append(notes, m)}
      /\ UNCHANGED <<role, clock, stamp, open, listed, updates, file, mem>>
  BY DEF Publish, Hear, screen
<1>2. ChatTyped
  BY DEF ChatInv
<1>3. notes' \in Seq(relay')
  <2>1. notes \in Seq(relay') /\ m \in relay'
    <3>1. Seq(relay) \subseteq Seq(relay')
      BY <1>1
    <3> QED BY <1>1, <1>2, <3>1 DEF ChatTyped
  <2> QED BY <1>1, <2>1
<1>4. updates' \in Seq(Updates')
  <2>1. Updates \subseteq Updates'
    BY <1>1 DEF Updates
  <2>2. Seq(Updates) \subseteq Seq(Updates')
    BY <2>1
  <2> QED BY <1>1, <1>2, <2>2 DEF ChatTyped
<1>5. ChatTyped'
  BY <1>1, <1>2, <1>3, <1>4 DEF ChatTyped, OwnIds, OpenChats
<1>6. TellsOn /\ \A c \in Chats : ShowsOn(c)
  BY <1>1 DEF TellsOn, ShowsOn
<1> QED BY <1>1, <1>5, <1>6

\* We write: the line is new, for no other of ours has its words.
LEMMA SendStep ==
  ASSUME NamesAreClear, OwnLinesDiffer', ChatInv, NEW m \in Messages, Send(m)
  PROVE  /\ ChatTyped' /\ TellsOn
         /\ Pane(file'[m.chat], mem'[m.chat], Told(m.chat)', Late(m.chat)')
         /\ Grows(file[m.chat], file'[m.chat], Filed(m.chat)', Late(m.chat))
         /\ open[m.chat] = "open" /\ UNCHANGED open
         /\ \A c \in Chats \ {m.chat} : file'[c] = file[c] /\ mem'[c] = mem[c]
<1> DEFINE d == m.chat
<1>0. PICK line : line = Line(m)'
  OBVIOUS
<1>1. /\ m.by = "self" /\ stamp[m.id] = 0 /\ open[d] = "open"
      /\ stamp' = [stamp EXCEPT ![m.id] = clock]
      /\ mem' = [mem EXCEPT ![d] = Append(@, line)]
      /\ \/ file' = [file EXCEPT ![d] = Saved(@, line)]
         \/ role = "admin" /\ file' = file
      /\ UNCHANGED <<role, clock, relay, open, listed, notes, updates>>
  BY <1>0 DEF Send, router
<1>2. ChatTyped
  BY DEF ChatInv
<1>3. m.id \in OwnIds /\ d \in Chats /\ m.ts \in Nat /\ m.att \in BOOLEAN /\ m.text \in Texts
  BY <1>1, MessagesAssumption DEF OwnIds, Texts
<1>4. stamp' \in [OwnIds -> Nat] /\ stamp'[m.id] = clock /\ clock \in Nat \ {0}
  BY <1>1, <1>2, <1>3 DEF ChatTyped
<1>5. time(m)' = clock /\ Written(m)'
  BY <1>1, <1>4 DEF time, Written
<1>6. /\ line \in Lines /\ line.by = "self" /\ line.ts = clock /\ line.text = m.text
      /\ line.att = m.att /\ line.wrapped = FALSE
  <2>1. line = [by |-> m.by, ts |-> clock, text |-> m.text, att |-> m.att, wrapped |-> FALSE]
    BY <1>0, <1>5 DEF Line
  <2> QED BY <1>1, <1>3, <1>4, <2>1 DEF Lines, Signers
<1>7. TellsOn
  <2>1. \A i \in OwnIds : stamp[i] > 0 => stamp'[i] = stamp[i]
    BY <1>1, <1>2, <1>3 DEF ChatTyped
  <2> QED BY <1>1, <2>1 DEF TellsOn
<1>8. \A k \in DOMAIN mem[d] : ~SameWords(mem[d][k], line)
  <2> SUFFICES ASSUME NEW k \in DOMAIN mem[d], SameWords(mem[d][k], line) PROVE FALSE
    OBVIOUS
  <2>1. mem[d] \in Seq(Told(d))
    BY <1>1, <1>3 DEF ChatInv, InPlace, Pane
  <2>2. mem[d][k] \in Told(d)
    BY <2>1
  <2>3. PICK n \in Messages : n.chat = d /\ LineOf(mem[d][k], n)
    BY <2>2 DEF Told
  <2>4. n.by = "self" /\ n.text = m.text /\ stamp[n.id] > 0 /\ stamp[n.id] = clock
    BY <1>6, <2>3 DEF SameWords, LineOf, Written, time
  <2>5. n # m /\ n.id # m.id /\ n.id \in OwnIds
    BY <1>1, <2>4, MessagesAssumption DEF OwnIds
  <2>6. stamp'[n.id] = clock
    BY <1>1, <1>2, <2>4, <2>5 DEF ChatTyped
  <2>7. Written(n)' /\ time(n)' = clock
    BY <1>4, <2>4, <2>6 DEF Written, time
  <2> QED BY <1>1, <1>5, <2>3, <2>4, <2>5, <2>7 DEF OwnLinesDiffer
<1>9. line \in Told(d)' /\ FileForm(line) \in Filed(d)'
      /\ (role = "admin" => FileForm(line) \in Late(d)')
  <2>1. LineOf(line, m)'
    BY <1>1, <1>5, <1>6 DEF LineOf, Parties
  <2>2. FileForm(line) = FileForm(Line(m))'
    BY <1>0 DEF FileForm
  <2>3. line \in Told(d)'
    BY <1>6, <2>1 DEF Told
  <2>4. FileForm(line) \in Filed(d)'
    BY <1>1, <1>3, <1>5, <2>2 DEF Filed, WrittenBy, Parties
  <2>5. role = "admin" => FileForm(line) \in Late(d)'
    BY <1>1, <1>3, <1>5, <2>2 DEF Late, LateBy, WrittenBy
  <2> QED BY <2>3, <2>4, <2>5
<1>10. ChatTyped'
  <2>1. FileForm(line) \in Lines
    BY <1>6, FileFormFields
  <2>2. mem[d] \in Seq(Lines) /\ file[d] \in Seq(Lines)
    BY <1>2, <1>3 DEF ChatTyped
  <2>3. Append(mem[d], line) \in Seq(Lines) /\ Saved(file[d], line) \in Seq(Lines)
    BY <1>6, <2>1, <2>2 DEF Saved
  <2>4. mem' \in [Chats -> Seq(Lines)] /\ file' \in [Chats -> Seq(Lines)]
    BY <1>1, <1>2, <1>3, <2>3 DEF ChatTyped
  <2>5. Updates' = Updates
    BY <1>1 DEF Updates
  <2> QED BY <1>1, <1>2, <1>4, <2>4, <2>5 DEF ChatTyped, OwnIds, OpenChats
<1>11. Sound(Told(d)', Filed(d)', Late(d)')
  <2>1. Sounds'
    BY <1>10, SoundThen
  <2> QED BY <1>3, <2>1 DEF Sounds
<1>12. Pane(file[d], mem[d], Told(d)', Late(d)')
  <2>1. Told(d) \subseteq Told(d)' /\ Late(d) \subseteq Late(d)'
    BY <1>2, <1>3, <1>7, ToldOn
  <2>2. Pane(file[d], mem[d], Told(d), Late(d))
    BY <1>1, <1>3 DEF ChatInv, InPlace
  <2> QED BY <2>1, <2>2, PaneKept
<1> DEFINE T == Told(d)'
           W == Filed(d)'
           L == Late(d)'
           M == Late(d)
           f == file[d]
           n == mem[d]
<1>13. mem'[d] = Append(n, line)
  BY <1>1, <1>2, <1>3 DEF ChatTyped
<1>14. ASSUME file' = [file EXCEPT ![d] = Saved(@, line)]
       PROVE  Pane(file'[d], mem'[d], T, L) /\ Grows(f, file'[d], W, M)
  <2>1. file'[d] = Saved(f, line)
    BY <1>2, <1>3, <1>14 DEF ChatTyped
  <2>2. ~is_duplicate(n, line)
    BY <1>8 DEF is_duplicate, SameMessage, SameWords
  <2>3. ~line.wrapped
    BY <1>6
  <2>4. Pane(Saved(f, line), Append(n, line), T, L) /\ Grows(f, Saved(f, line), W, M)
    <3>1. Sound(T, W, L) /\ Pane(f, n, T, L) /\ line \in T /\ FileForm(line) \in W
      BY <1>9, <1>11, <1>12
    <3> HIDE DEF T, W, L, M, f, n
    <3> QED BY <2>2, <2>3, <3>1, ShownAppends
  <2> QED BY <1>13, <2>1, <2>4
<1>15. ASSUME role = "admin", file' = file
       PROVE  Pane(file'[d], mem'[d], T, L) /\ Grows(f, file'[d], W, M)
  <2>1. Pane(f, Append(n, line), T, L)
    <3>1. Sound(T, W, L) /\ Pane(f, n, T, L) /\ line \in T /\ FileForm(line) \in L
          /\ \A k \in DOMAIN n : ~SameWords(n[k], line)
      BY <1>8, <1>9, <1>11, <1>12, <1>15
    <3> HIDE DEF T, W, L, M, f, n
    <3> QED BY <3>1, LineShown
  <2>2. Grows(f, f, W, M)
    <3>1. f \in Seq(Lines)
      BY <1>2, <1>3 DEF ChatTyped
    <3> HIDE DEF W, M, f
    <3> QED BY <3>1, GrowsStill
  <2> QED BY <1>13, <1>15, <2>1, <2>2
<1>16. \A c \in Chats \ {d} : file'[c] = file[c] /\ mem'[c] = mem[c]
  BY <1>1, <1>2 DEF ChatTyped
<1> QED BY <1>1, <1>7, <1>10, <1>13, <1>14, <1>15, <1>16

\* The chat f belongs to is forgotten or not: its file goes on, or grows.
GoesOn(f, g, W, L, gone) == IF gone THEN Extends(f, g, W) ELSE Grows(f, g, W, L)

LEMMA UpdateStep ==
  ASSUME NamesAreClear, ChatInv, ApplyUpdate
  PROVE  /\ ChatTyped' /\ UNCHANGED <<role, relay, stamp, open>>
         /\ \A c \in Chats :
              /\ InPlace(file'[c], mem'[c], Told(c), Late(c), open[c] = "forgotten")
              /\ GoesOn(file[c], file'[c], Filed(c), Late(c), open[c] = "forgotten")
              /\ open[c] = "new" => file'[c] = << >> /\ mem'[c] = << >>
         /\ \E d \in Chats : \A c \in Chats \ {d} : file'[c] = file[c]
<1> DEFINE d == Head(updates).chat
           msgs == Head(updates).msgs
           start == [mem |-> mem[d], file |-> file[d], ids |-> ids[d],
                     top |-> seen[d], lost |-> lost]
<1>1. ChatTyped
  BY DEF ChatInv
<1>2. updates # << >> /\ updates' = Tail(updates)
      /\ UNCHANGED <<role, clock, relay, stamp, open, listed, notes>>
  BY DEF ApplyUpdate, world, router
<1>3. Head(updates) \in Updates /\ updates' \in Seq(Updates)
  BY <1>1, <1>2, HeadTailProperties DEF ChatTyped
<1>4. /\ d \in Chats /\ msgs \in Seq(Messages)
      /\ \A i \in DOMAIN msgs : msgs[i] \in relay /\ msgs[i].by \in Parties /\ msgs[i].chat = d
      /\ open[d] # "new"
  <2>1. 1 \in DOMAIN updates /\ Head(updates) = updates[1]
    BY <1>1, <1>2 DEF ChatTyped
  <2>2. d \in Met
    BY <2>1 DEF ChatInv, Routes
  <2> QED BY <1>3, <2>2 DEF Updates, Met
<1>5. PICK unsaved, unnoted :
        LET a == Applied(start, msgs, unsaved, unnoted)
        IN  mem' = [mem EXCEPT ![d] = a.mem] /\ file' = [file EXCEPT ![d] = a.file]
  BY DEF ApplyUpdate
<1> DEFINE a == Applied(start, msgs, unsaved, unnoted)
           gone == open[d] = "forgotten"
<1>6. start.mem = mem[d] /\ start.file = file[d] /\ IsRecord(start)
  BY DEF IsRecord
<1> HIDE DEF start, msgs, a, d
<1>7. mem' = [mem EXCEPT ![d] = a.mem] /\ file' = [file EXCEPT ![d] = a.file]
  BY <1>5 DEF a
<1>8. /\ mem'[d] = a.mem /\ file'[d] = a.file
      /\ \A c \in Chats \ {d} : mem'[c] = mem[c] /\ file'[c] = file[c]
  BY <1>1, <1>4, <1>7 DEF ChatTyped
<1>9. InStep(start, d, gone)
  BY <1>4, <1>6 DEF ChatInv, InStep
<1>10. GoodStep(a, start, d, gone)
  <2>1. gone \in BOOLEAN
    OBVIOUS
  <2> HIDE DEF gone
  <2> QED BY <1>1, <1>4, <1>9, <2>1, UpdateApplied DEF a
<1>11. /\ InPlace(file'[d], mem'[d], Told(d), Late(d), gone)
       /\ GoesOn(file[d], file'[d], Filed(d), Late(d), gone)
       /\ IsRecord(a) /\ InStep(a, d, gone)
  BY <1>6, <1>8, <1>10 DEF GoodStep, GoodAcc, IsAcc, InStep, InPlace, IsRecord, GoesOn
<1>12. a.file \in Seq(Lines) /\ a.mem \in Seq(Lines)
  <2>1. gone \in BOOLEAN
    OBVIOUS
  <2> HIDE DEF gone
  <2> QED BY <1>4, <1>11, <2>1, StepFiles
<1>13. ASSUME NEW c \in Chats
       PROVE  /\ InPlace(file'[c], mem'[c], Told(c), Late(c), open[c] = "forgotten")
              /\ GoesOn(file[c], file'[c], Filed(c), Late(c), open[c] = "forgotten")
              /\ open[c] = "new" => file'[c] = << >> /\ mem'[c] = << >>
  <2>1. CASE c = d
    BY <1>4, <1>11, <2>1
  <2>2. CASE c # d
    <3>1. file'[c] = file[c] /\ mem'[c] = mem[c] /\ file[c] \in Seq(Lines)
      BY <1>1, <1>8, <2>2 DEF ChatTyped
    <3>2. Grows(file[c], file[c], Filed(c), Late(c)) /\ Extends(file[c], file[c], Filed(c))
      BY <3>1, GrowsStill, ExtendsOn
    <3> QED BY <3>1, <3>2 DEF ChatInv, GoesOn
  <2> QED BY <2>1, <2>2
<1>14. ChatTyped'
  <2>1. mem' \in [Chats -> Seq(Lines)] /\ file' \in [Chats -> Seq(Lines)]
    BY <1>1, <1>7, <1>12 DEF ChatTyped
  <2>2. Updates' = Updates
    BY <1>2 DEF Updates
  <2> QED BY <1>1, <1>2, <1>3, <2>1, <2>2 DEF ChatTyped, OwnIds, OpenChats
<1> QED BY <1>2, <1>4, <1>8, <1>13, <1>14

\* What a step does to the transcripts: one of them grows at most.
StepGrows ==
  /\ \A c \in Chats :
       /\ GoesOn(file[c], file'[c], Filed(c)', Late(c), open[c] = "forgotten")
       /\ open[c] # "forgotten" => Transcribed(file'[c], Told(c)')
  /\ Silent \/ \E d \in Chats : \A c \in Chats \ {d} : file'[c] = file[c]

LEMMA StaysGoesOn ==
  ASSUME NEW f \in Seq(Lines), NEW W, NEW L, NEW gone
  PROVE  GoesOn(f, f, W, L, gone)
BY GrowsStill, ExtendsOn DEF GoesOn

LEMMA GoesOnGrows ==
  ASSUME NEW f \in Seq(Lines), NEW g \in Seq(Lines), NEW W, NEW L, NEW gone,
         GoesOn(f, g, W, L, gone)
  PROVE  Grows(f, g, W, L)
BY ExtendsGrows DEF GoesOn

LEMMA ChatStep ==
  ASSUME NamesAreClear, OwnLinesDiffer', ChatInv, [ChatNext]_chatVars
  PROVE  ChatInv' /\ StepGrows
<1>1. ChatTyped
  BY DEF ChatInv
<1>2. Routes'
  BY RoutesStep DEF ChatInv
<1>3. ASSUME Silent, ChatTyped', \A c \in Chats : ShowsOn(c)
      PROVE  ChatInv' /\ StepGrows
  <2>1. /\ ChatInv'
        /\ \A c \in Chats : open[c] # "forgotten" => Transcribed(file'[c], Told(c)')
    BY <1>2, <1>3, FilesAlone, SilentTells DEF Silent
  <2>2. ASSUME NEW c \in Chats
        PROVE  GoesOn(file[c], file'[c], Filed(c)', Late(c), open[c] = "forgotten")
    <3>1. file'[c] = file[c] /\ file[c] \in Seq(Lines)
      BY <1>1, <1>3 DEF ChatTyped, Silent
    <3> QED BY <3>1, StaysGoesOn
  <2> QED BY <1>3, <2>1, <2>2 DEF StepGrows
<1>4. CASE RouterStep
  <2>1. ChatTyped' /\ Silent /\ UNCHANGED <<mem, open>>
    BY <1>1, <1>4, RouterStepTyped
  <2>2. \A c \in Chats : ShowsOn(c)
    BY <2>1 DEF ShowsOn
  <2> QED BY <1>3, <2>1, <2>2
<1>5. CASE Restart \/ \E d \in Chats : Open(d) \/ CloseChat(d) \/ Forget(d)
  BY <1>3, <1>5, ChatsStep
<1>6. CASE UNCHANGED chatVars
  <2>1. Silent /\ UNCHANGED <<mem, open, clock, notes, updates, listed>>
    BY <1>6 DEF Silent, chatVars, world, router, screen
  <2>2. Updates' = Updates
    BY <2>1 DEF Silent, Updates
  <2>3. ChatTyped'
    BY <1>1, <2>1, <2>2 DEF ChatTyped, Silent, OwnIds, OpenChats
  <2>4. \A c \in Chats : ShowsOn(c)
    BY <2>1 DEF ShowsOn
  <2> QED BY <1>3, <2>1, <2>3, <2>4
<1>7. ASSUME NEW m \in Messages, Publish(m) PROVE ChatInv' /\ StepGrows
  <2>1. ChatTyped' /\ TellsOn /\ UNCHANGED file /\ \A c \in Chats : ShowsOn(c)
    BY <1>7, PublishStep
  <2>2. /\ ChatInv'
        /\ \A c \in Chats : open[c] # "forgotten" => Transcribed(file'[c], Told(c)')
    BY <1>2, <2>1, FilesAlone
  <2>3. ASSUME NEW c \in Chats
        PROVE  GoesOn(file[c], file'[c], Filed(c)', Late(c), open[c] = "forgotten")
    <3>1. file[c] \in Seq(Lines) /\ file'[c] = file[c]
      BY <1>1, <2>1 DEF ChatTyped
    <3> QED BY <3>1, StaysGoesOn
  <2>4. m.chat \in Chats
    BY MessagesAssumption
  <2> QED BY <2>1, <2>2, <2>3, <2>4 DEF StepGrows
<1>8. ASSUME NEW m \in Messages, Send(m) PROVE ChatInv' /\ StepGrows
  <2> DEFINE d == m.chat
  <2>1. /\ ChatTyped' /\ TellsOn
        /\ Pane(file'[d], mem'[d], Told(d)', Late(d)')
        /\ Grows(file[d], file'[d], Filed(d)', Late(d))
        /\ open[d] = "open" /\ UNCHANGED open
        /\ \A c \in Chats \ {d} : file'[c] = file[c] /\ mem'[c] = mem[c]
    BY <1>8, SendStep
  <2>2. d \in Chats
    BY MessagesAssumption
  <2> HIDE DEF d
  <2>3. ASSUME NEW c \in Chats
        PROVE  Told(c) \subseteq Told(c)' /\ Late(c) \subseteq Late(c)'
    BY <1>1, <2>1, ToldOn
  <2>4. ASSUME NEW c \in Chats \ {d}
        PROVE  /\ InPlace(file'[c], mem'[c], Told(c)', Late(c)', open'[c] = "forgotten")
               /\ open[c] # "forgotten" => Transcribed(file'[c], Told(c)')
               /\ open'[c] = "new" => file'[c] = << >> /\ mem'[c] = << >>
               /\ GoesOn(file[c], file'[c], Filed(c)', Late(c), open[c] = "forgotten")
    <3>1. file'[c] = file[c] /\ mem'[c] = mem[c] /\ open'[c] = open[c] /\ file[c] \in Seq(Lines)
      BY <1>1, <2>1 DEF ChatTyped
    <3>2. InPlace(file[c], mem[c], Told(c), Late(c), open[c] = "forgotten")
      BY DEF ChatInv
    <3>3. /\ InPlace(file[c], mem[c], Told(c)', Late(c)', open[c] = "forgotten")
          /\ open[c] # "forgotten" => Transcribed(file[c], Told(c)')
      BY <2>3, <3>2, PaneKept DEF InPlace, Pane
    <3>4. GoesOn(file[c], file[c], Filed(c)', Late(c), open[c] = "forgotten")
      BY <3>1, StaysGoesOn
    <3> QED BY <3>1, <3>3, <3>4 DEF ChatInv
  <2>5. /\ InPlace(file'[d], mem'[d], Told(d)', Late(d)', open'[d] = "forgotten")
        /\ Transcribed(file'[d], Told(d)') /\ open'[d] = "open"
        /\ GoesOn(file[d], file'[d], Filed(d)', Late(d), open[d] = "forgotten")
    BY <2>1 DEF InPlace, GoesOn, Pane
  <2>6. ASSUME NEW c \in Chats
        PROVE  /\ InPlace(file'[c], mem'[c], Told(c)', Late(c)', open'[c] = "forgotten")
               /\ open[c] # "forgotten" => Transcribed(file'[c], Told(c)')
               /\ open'[c] = "new" => file'[c] = << >> /\ mem'[c] = << >>
               /\ GoesOn(file[c], file'[c], Filed(c)', Late(c), open[c] = "forgotten")
    <3>1. CASE c = d
      BY <2>5, <3>1
    <3>2. CASE c # d
      BY <2>4, <3>2
    <3> QED BY <3>1, <3>2
  <2>7. ChatInv'
    BY <1>2, <2>1, <2>6 DEF ChatInv
  <2> QED BY <2>1, <2>2, <2>6, <2>7 DEF StepGrows
<1>9. CASE ApplyUpdate
  <2>1. /\ ChatTyped' /\ UNCHANGED <<role, relay, stamp, open>>
        /\ \A c \in Chats :
             /\ InPlace(file'[c], mem'[c], Told(c), Late(c), open[c] = "forgotten")
             /\ GoesOn(file[c], file'[c], Filed(c), Late(c), open[c] = "forgotten")
             /\ open[c] = "new" => file'[c] = << >> /\ mem'[c] = << >>
        /\ \E d \in Chats : \A c \in Chats \ {d} : file'[c] = file[c]
    BY <1>9, UpdateStep
  <2>2. \A m : time(m)' = time(m) /\ (Written(m)' <=> Written(m))
                /\ FileForm(Line(m))' = FileForm(Line(m))
    BY <2>1 DEF time, Written, Line, FileForm
  <2>3. \A c \in Chats : Told(c)' = Told(c) /\ Filed(c)' = Filed(c) /\ Late(c)' = Late(c)
    <3>1. \A c \in Chats : Told(c)' = Told(c)
      BY <2>2 DEF Told, LineOf
    <3>2. \A c \in Chats : Filed(c)' = Filed(c)
      BY <2>2 DEF Filed, WrittenBy
    <3>3. \A c \in Chats : Late(c)' = Late(c)
      BY <2>1, <2>2 DEF Late, LateBy, WrittenBy
    <3> QED BY <3>1, <3>2, <3>3
  <2>4. \A c \in Chats : open[c] # "forgotten" => Transcribed(file'[c], Told(c))
    BY <2>1 DEF InPlace, Pane
  <2>5. ChatInv'
    BY <1>2, <2>1, <2>3 DEF ChatInv
  <2> QED BY <2>1, <2>3, <2>4, <2>5 DEF StepGrows
<1>10. CASE ChatNext
  BY <1>4, <1>5, <1>7, <1>8, <1>9, <1>10 DEF ChatNext, RouterStep
<1> QED BY <1>6, <1>10

LEMMA ChatInvHolds ==
  ASSUME NamesAreClear
  PROVE  ChatSpec /\ []OwnLinesDiffer => []ChatInv
<1>1. ChatInit => ChatInv
  BY ChatStart
<1>2. ChatInv /\ [ChatNext]_chatVars /\ OwnLinesDiffer' => ChatInv'
  BY ChatStep
<1> QED BY <1>1, <1>2, PTL DEF ChatSpec

-----------------------------------------------------------------------------
(* What the two properties say follows.                                    *)

Forgotten == {c \in Chats : open[c] = "forgotten"}

LEMMA StepKeepsTranscript ==
  ASSUME NamesAreClear, ChatInv, ChatInv', StepGrows
  PROVE  [Transcript!Next]_<<WrittenBy(Parties), WrittenBy(LateBy), file, Forgotten>>
<1>1. ASSUME NEW c \in Chats, open[c] # "forgotten" PROVE Transcript!Grow(c)
  <2>1. PICK p : GrowsAt(p, file[c], file'[c], Filed(c)', Late(c))
    BY <1>1 DEF StepGrows, GoesOn, Grows
  <2>2. p \in [DOMAIN file[c] -> DOMAIN file'[c]] /\ Transcript!InOrder(p)
    BY <2>1 DEF GrowsAt, Transcript!InOrder
  <2>3. \A i \in DOMAIN p :
          file'[c][p[i]] # file[c][i] => file[c][i] = PlaceholderOf(file'[c][p[i]])
    BY <2>1, <2>2 DEF GrowsAt
  <2>4. \A k \in DOMAIN file'[c] \ Transcript!Range(p) :
          /\ file'[c][k] \in Filed(c)'
          /\ (\E i \in DOMAIN p : k < p[i])
               => file'[c][k] \in Late(c) \/ Repeatable(file'[c][k])
    BY <2>1, <2>2 DEF GrowsAt, Transcript!Range, Repeatable
  <2>5. \A i, j \in Transcript!OnceOf(file'[c]) : file'[c][i] = file'[c][j] => i = j
    <3> SUFFICES ASSUME NEW i \in DOMAIN file'[c], NEW j \in DOMAIN file'[c],
                        ~file'[c][i].wrapped, file'[c][i] = file'[c][j]
                 PROVE  i = j
      BY DEF Transcript!OnceOf, Repeatable
    <3> DEFINE l == file'[c][i]
    <3>1. Transcribed(file'[c], Told(c)') /\ ChatTyped'
      BY <1>1 DEF ChatInv, StepGrows
    <3>2. l \in Told(c)' /\ FileForm(l) = l /\ Distinct(file'[c])
      BY <3>1 DEF Transcribed
    <3>3. Sound(Told(c)', Filed(c)', Late(c)')
      BY <3>1, SoundThen DEF Sounds
    <3>4. l \in Lines /\ (l.att => l.text \notin LongTexts)
      BY <3>2, <3>3 DEF Sound
    <3> HIDE DEF l
    <3>5. l.text \notin LongTexts
      BY <3>2, <3>4, FileFormFields DEF l
    <3> QED BY <3>2, <3>5 DEF Distinct, SameWords, l
  <2> QED BY <2>2, <2>3, <2>4, <2>5 DEF Transcript!Grow, Filed, Late, Parties, LateBy
<1>2. ASSUME NEW c \in Chats, open[c] = "forgotten" PROVE Transcript!Extend(c)
  <2>1. Extends(file[c], file'[c], Filed(c)')
    BY <1>2 DEF StepGrows, GoesOn
  <2>2. file[c] \in Seq(Lines) /\ file'[c] \in Seq(Lines)
    BY DEF ChatInv, ChatTyped
  <2>3. IsPrefix(file[c], file'[c])
    BY <2>1, <2>2, ExtendsIsPrefix
  <2>4. \A k \in DOMAIN file'[c] \ DOMAIN file[c] : file'[c][k] \in Filed(c)'
    BY <2>1 DEF Extends
  <2> QED BY <2>3, <2>4 DEF Transcript!Extend, Transcript!IsPrefix, IsPrefix, Filed, Parties
<1>3. ASSUME NEW d \in Chats, \A c \in Chats \ {d} : file'[c] = file[c]
      PROVE  Transcript!Next
  BY <1>1, <1>2, <1>3 DEF Transcript!Next
<1>4. CASE Silent
  <2>1. CASE Chats = {}
    <3>1. Forgotten' = Forgotten
      BY <2>1 DEF Forgotten
    <3> QED BY <1>4, <3>1 DEF Silent, WrittenBy, LateBy, Written, time, Line
  <2>2. CASE Chats # {}
    BY <1>3, <1>4, <2>2 DEF Silent
  <2> QED BY <2>1, <2>2
<1> QED BY <1>3, <1>4 DEF StepGrows

LEMMA TranscriptStarted == NamesAreClear /\ ChatInv => Transcript!Started
<1> SUFFICES ASSUME NamesAreClear, ChatInv, NEW c \in Chats, NEW i \in DOMAIN file[c]
             PROVE  \E line \in Filed(c) : file[c][i] \in {line, PlaceholderOf(line)}
  BY DEF Transcript!Started, Filed, Parties
<1> DEFINE l == file[c][i]
<1>1. Recorded(file[c], Told(c)) /\ ChatTyped
  BY PaneKept DEF ChatInv, InPlace
<1>2. l \in Told(c) /\ FileForm(l) = l
  BY <1>1 DEF Recorded
<1> HIDE DEF l
<1>3. PICK m \in Messages : m.chat = c /\ LineOf(l, m) /\ l \in Lines
  BY <1>2 DEF Told
<1>4. /\ Line(m) \in Lines /\ Line(m).by = m.by /\ Line(m).ts = time(m)
      /\ Line(m).text = m.text /\ Line(m).att = m.att /\ Line(m).wrapped = FALSE
  BY <1>1, LineTyped
<1> DEFINE k == FileForm(Line(m))
<1>5. k \in Filed(c)
  BY <1>3 DEF Filed, WrittenBy, LineOf
<1>6. /\ k \in Lines /\ SameWords(k, Line(m)) /\ k.att = m.att
      /\ k.wrapped <=> (~m.att /\ m.text \in LongTexts)
  BY <1>4, FileFormFields
<1> HIDE DEF k
<1>7. SameWords(l, k)
  BY <1>3, <1>4, <1>6 DEF LineOf, SameWords
<1>8. l.wrapped <=> (~l.att /\ l.text \in LongTexts)
  <2>1. l.wrapped => ~m.att /\ m.text \in LongTexts
    BY <1>3 DEF LineOf
  <2>2. l.wrapped => ~l.att /\ l.text \in LongTexts
    BY <1>3, <2>1, LegacyAssumption DEF LineOf
  <2> QED BY <1>2, <1>3, <2>2, FileFormFields
<1>9. CASE l.att = m.att
  <2>1. l.wrapped = k.wrapped
    BY <1>3, <1>6, <1>8, <1>9 DEF Lines, LineOf
  <2>2. l = k
    BY <1>3, <1>6, <1>7, <1>9, <2>1, SameLine
  <2> QED BY <1>5, <2>2 DEF l
<1>10. CASE l.att # m.att
  <2>1. m.att /\ ~l.att
    BY <1>3, <1>10, LegacyAssumption DEF LineOf
  <2>2. m.text \notin LongTexts
    BY <2>1 DEF NamesAreClear
  <2>3. l.wrapped = FALSE /\ k.wrapped = FALSE /\ l.att = FALSE
    BY <1>3, <1>6, <1>8, <2>1, <2>2 DEF Lines, LineOf
  <2>4. /\ PlaceholderOf(k) \in Lines /\ SameWords(PlaceholderOf(k), k)
        /\ PlaceholderOf(k).att = FALSE /\ PlaceholderOf(k).wrapped = FALSE
    BY <1>6, <2>3, PlaceholderFields
  <2>5. l = PlaceholderOf(k)
    <3>1. SameWords(l, PlaceholderOf(k))
      BY <1>7, <2>4 DEF SameWords
    <3> QED BY <1>3, <2>3, <2>4, <3>1, SameLine
  <2> QED BY <1>5, <2>5 DEF l
<1> QED BY <1>9, <1>10

\* KeepsTranscript: whatever the router, the relays and the process do, a chat's file
\* drops no line and moves none before another, gains only lines its two parties have
\* written, each once, at its end (a placeholder may become its attachment, and an
\* admin's line that could not be saved may be kept later), until its order is deleted
\* from the history or the process restarts without it; what is still on its way to it
\* then goes to the end of the file, and may stand there already.  It holds for any
\* messages and bounds; as long as attachments have names the file keeps as they are and
\* no other message reads like, and we do not write the same words twice in one second.
\* (chat_utils.rs, ui/helpers/startup.rs)
THEOREM FilesAreTranscripts ==
  ASSUME NamesAreClear
  PROVE  ChatSpec /\ []OwnLinesDiffer => KeepsTranscript
<1>1. ChatInv => Transcript!Started
  BY TranscriptStarted
<1>2. ChatInv /\ ChatInv' /\ [ChatNext]_chatVars /\ OwnLinesDiffer'
        => [Transcript!Next]_<<WrittenBy(Parties), WrittenBy(LateBy), file, Forgotten>>
  BY ChatStep, StepKeepsTranscript
<1>3. ChatSpec /\ []OwnLinesDiffer => []ChatInv
  BY ChatInvHolds
<1> QED BY <1>1, <1>2, <1>3, PTL
      DEF ChatSpec, KeepsTranscript, Transcript!Spec, Parties, LateBy, Forgotten

LEMMA ScreenOfPane == NamesAreClear /\ ChatInv => ScreenIsTranscript
<1> SUFFICES ASSUME NamesAreClear, ChatInv, NEW c \in OpenChats,
                    NEW m \in relay, m.by = "peer", m.chat = c, m.text \notin LongTexts
             PROVE  /\ Times(mem[c], Line(m)) = Times(file[c], Line(m))
                    /\ Times(mem[c], Line(m)) <= 1
  BY DEF ScreenIsTranscript
<1> DEFINE l == Line(m)
           f == file[c]
           s == mem[c]
<1>1. ChatTyped /\ m \in Messages /\ c \in Chats
  BY DEF ChatInv, ChatTyped, OpenChats
<1>2. l \in Lines /\ l.by = "peer" /\ l.text \notin LongTexts /\ l.wrapped = FALSE
  BY <1>1, LineTyped
<1> HIDE DEF l
<1>3. FileForm(l) = l
  BY <1>2, FileFormFields
<1>4. Sound(Told(c), Filed(c), Late(c))
  BY <1>1, SoundNow DEF Sounds
<1>5. /\ f \in Seq(Told(c)) /\ s \in Seq(Told(c)) /\ Distinct(f) /\ Distinct(s)
      /\ Follows(f, s, Late(c))
  BY DEF ChatInv, InPlace, Pane, Transcribed, OpenChats
<1> HIDE DEF f, s
<1>6. PICK e : Places(e, f, s, Late(c))
  BY <1>5 DEF Follows
<1> DEFINE At(lines) == {i \in DOMAIN lines : lines[i] = l}
<1>7. ASSUME NEW i \in At(f) PROVE e[i] \in At(s)
  <2>1. e[i] \in DOMAIN s /\ FileForm(s[e[i]]) = l
    BY <1>6 DEF Places
  <2>2. s[e[i]] \in Told(c) /\ s[e[i]] \in Lines
    BY <1>4, <1>5, <2>1 DEF Sound
  <2> QED BY <1>2, <2>1, <2>2, FileFormFields
<1>8. ASSUME NEW j \in At(s) PROVE \E i \in DOMAIN f : i \in At(f)
  <2>1. ~FileForm(s[j]).wrapped /\ FileForm(s[j]) \notin Late(c)
    BY <1>2, <1>3, <1>4 DEF Sound
  <2>2. PICK i \in DOMAIN f : e[i] = j
    BY <1>6, <2>1 DEF Places
  <2>3. f[i] = l
    BY <1>3, <1>6, <2>2 DEF Places
  <2> QED BY <2>3
<1>9. ASSUME NEW lines, Distinct(lines), At(lines) # {}
      PROVE  Cardinality(At(lines)) = 1
  <2>1. PICK i : i \in At(lines)
    BY <1>9
  <2>2. \A j \in At(lines) : j = i
    BY <1>2, <1>9, <2>1 DEF Distinct, SameWords
  <2>3. At(lines) = {i}
    BY <2>1, <2>2
  <2> HIDE DEF At
  <2> QED BY <2>3, FS_Singleton
<1>10. At(f) = {} <=> At(s) = {}
  <2>1. At(f) # {} => At(s) # {}
    BY <1>7
  <2>2. At(s) # {} => At(f) # {}
    BY <1>8
  <2> QED BY <2>1, <2>2
<1>11. Times(f, l) = Cardinality(At(f)) /\ Times(s, l) = Cardinality(At(s))
  BY DEF Times
<1> HIDE DEF At
<1>12. CASE At(f) = {}
  <2>1. Times(f, l) = 0 /\ Times(s, l) = 0
    BY <1>10, <1>11, <1>12, FS_EmptySet
  <2> QED BY <2>1 DEF l, f, s
<1>13. CASE At(f) # {}
  <2>1. Times(f, l) = 1 /\ Times(s, l) = 1
    BY <1>5, <1>9, <1>10, <1>11, <1>13
  <2> QED BY <2>1 DEF l, f, s
<1> QED BY <1>12, <1>13

\* ScreenIsTranscript: what the interface shows of the other party is what the file
\* has, each line once, through restarts, redeliveries and failed writes, for any
\* messages and bounds.  (ui/helpers/startup.rs:476-843)
THEOREM ScreenIsTranscriptHolds ==
  ASSUME NamesAreClear
  PROVE  ChatSpec /\ []OwnLinesDiffer => []ScreenIsTranscript
<1>1. ChatInv => ScreenIsTranscript
  BY ScreenOfPane
<1>2. ChatSpec /\ []OwnLinesDiffer => []ChatInv
  BY ChatInvHolds
<1> QED BY <1>1, <1>2, PTL
-----------------------------------------------------------------------------
(* Nothing is lost: where a message of the other party may be.             *)

\* The file has the line, in the form it keeps it in.
Has(f, l) == \E i \in DOMAIN f : SameMessage(f[i], FileForm(l))
PeerKept(shown, f) == \A j \in DOMAIN shown : shown[j].by = "peer" => Has(f, shown[j])

MessageIds == {m.id : m \in Messages}
Theirs == {m \in Messages : m.by = "peer"}

RouterTyped ==
  /\ IsCmds(cmds, Chats)
  /\ pc \in {"idle", "subscribe", "hydrate"}
  /\ DOMAIN targets \subseteq Chats /\ targets = [c \in DOMAIN targets |-> targets[c]]
  /\ pending_hydration \in Seq(Chats)
  /\ pc = "idle" => pending_hydration = << >>
  /\ pc = "hydrate" => pending_hydration # << >>
  /\ outer \in Seq({m.id : m \in relay})
  /\ inner \in [Chats -> SUBSET MessageIds]
  /\ ids \in [Chats -> SUBSET MessageIds]

\* The router has passed the message on: it is kept, or on its way, or a failure that
\* was counted took it.
InUpdates(m) == \E i \in DOMAIN updates : m \in Range(updates[i].msgs)
Passed(m) == InFile(m) \/ InUpdates(m) \/ m \in lost

\* The router has it still to fetch, or to read.
ToFetch(m) == m.chat \in Range(pending_hydration)
ToRead(m) == m \in Range(notes) /\ m.id \notin Range(outer)

\* Each tracked chat is subscribed to, or known not to be, or about to be.
AllHeard ==
  \A c \in DOMAIN targets :
    c \in live \/ c \in deaf \/ (pc = "subscribe" /\ c \in Range(pending_hydration))

Due(m) == m.chat \in DOMAIN targets /\ m.ts >= targets[m.chat]

\* What was recorded is in the file, what was let through has been passed on, and what
\* is due has been passed on or still will be.
Accounted(m) ==
  /\ m.id \in ids[m.chat] => InFile(m)
  /\ m.chat \in DOMAIN targets /\ m.id \in inner[m.chat] => Passed(m)
  /\ m \in relay /\ Due(m) => Passed(m) \/ ToFetch(m) \/ ToRead(m)

KeptInv ==
  /\ RouterTyped /\ AllHeard
  /\ \A c \in Chats : PeerKept(mem[c], file[c])
  /\ \A m \in Theirs : Accounted(m)

LEMMA InFileIsHas == \A m : InFile(m) <=> Has(file[m.chat], Line(m))
BY DEF InFile, Has

LEMMA SameAsItself == \A l : SameMessage(l, l)
BY DEF SameMessage

LEMMA HasGrows ==
  ASSUME NEW f, NEW g \in Seq(Lines), NEW W, NEW L, Grows(f, g, W, L), NEW l, Has(f, l)
  PROVE  Has(g, l)
<1>1. PICK p : GrowsAt(p, f, g, W, L)
  BY DEF Grows
<1>2. PICK i \in DOMAIN f : SameMessage(f[i], FileForm(l))
  BY DEF Has
<1>3. p[i] \in DOMAIN g /\ (g[p[i]] = f[i] \/ f[i] = PlaceholderOf(g[p[i]]))
  BY <1>1 DEF GrowsAt
<1> DEFINE k == g[p[i]]
<1>. k \in Lines /\ (k = f[i] \/ f[i] = PlaceholderOf(k))
  BY <1>3
<1> HIDE DEF k
<1>4. /\ k.by = f[i].by /\ k.ts = f[i].ts /\ k.text = f[i].text
      /\ k.wrapped = f[i].wrapped
  BY PlaceholderFields DEF SameWords
<1>5. SameMessage(k, FileForm(l))
  BY <1>2, <1>4 DEF SameMessage
<1> QED BY <1>3, <1>5 DEF Has, k

LEMMA PeerKeptGrows ==
  ASSUME NEW f, NEW g \in Seq(Lines), NEW W, NEW L, Grows(f, g, W, L), NEW shown, PeerKept(shown, f)
  PROVE  PeerKept(shown, g)
BY HasGrows DEF PeerKept

LEMMA SavedHas ==
  ASSUME NEW f \in Seq(Lines), NEW l \in Lines
  PROVE  Has(Saved(f, l), l)
<1>1. FileForm(l) \in Lines
  BY FileFormFields
<1>2. CASE Saved(f, l) = Append(f, FileForm(l))
  <2> DEFINE g == Append(f, FileForm(l))
  <2>1. Len(g) \in DOMAIN g /\ g[Len(g)] = FileForm(l)
    BY <1>1, AppendProperties
  <2> QED BY <1>2, <2>1, SameAsItself DEF Has
<1>3. CASE Saved(f, l) # Append(f, FileForm(l))
  <2>1. Saved(f, l) = f /\ f # << >> /\ SameMessage(Last(f), FileForm(l))
    BY <1>3 DEF Saved
  <2>2. Len(f) \in DOMAIN f /\ Last(f) = f[Len(f)]
    BY <2>1 DEF Last
  <2> QED BY <2>1, <2>2 DEF Has
<1> QED BY <1>2, <1>3

\* A line that is taken for one the screen shows is taken for its line of the file.
LEMMA DoubleHas ==
  ASSUME NEW T, NEW W, NEW L, Sound(T, W, L), NEW shown \in Seq(T), NEW f \in Seq(T),
         PeerKept(shown, f), NEW l \in T, l.by = "peer", ~l.wrapped, is_duplicate(shown, l)
  PROVE  Has(f, l)
<1>1. PICK j \in DOMAIN shown : SameMessage(shown[j], l)
  BY DEF is_duplicate
<1> DEFINE k == shown[j]
<1>2. k \in T /\ k.by = "peer" /\ SameWords(k, l)
  BY <1>1 DEF SameMessage, SameWords
<1>3. PICK i \in DOMAIN f : SameMessage(f[i], FileForm(k))
  BY <1>1, <1>2 DEF PeerKept, Has
<1>4. f[i] \in T
  OBVIOUS
<1> HIDE DEF k
<1>5. /\ k \in Lines /\ l \in Lines /\ f[i] \in Lines
      /\ k.att => k.text \notin LongTexts
      /\ f[i].wrapped => f[i].text \in LongTexts
  BY <1>2, <1>4 DEF Sound
<1>6. /\ SameWords(FileForm(k), k) /\ FileForm(k).att = k.att /\ FileForm(k) \in Lines
      /\ FileForm(k).wrapped <=> (k.wrapped \/ (~k.att /\ k.text \in LongTexts))
      /\ SameWords(FileForm(l), l) /\ FileForm(l).att = l.att /\ FileForm(l) \in Lines
      /\ FileForm(l).wrapped <=> (l.wrapped \/ (~l.att /\ l.text \in LongTexts))
  BY <1>5, FileFormFields
<1>7. SameWords(f[i], FileForm(l))
  BY <1>2, <1>3, <1>6 DEF SameMessage, SameWords
<1>8. ~l.att => f[i].wrapped = FileForm(l).wrapped
  <2> SUFFICES ASSUME ~l.att PROVE f[i].wrapped <=> FileForm(l).wrapped
    BY <1>5, <1>6 DEF Lines
  <2>1. ~k.wrapped
    BY <1>1, <1>5 DEF SameMessage, k, Lines
  <2>2. ~k.att => f[i].wrapped = FileForm(k).wrapped
    BY <1>3, <1>6 DEF SameMessage
  <2>3. f[i].text = l.text /\ k.text = l.text
    BY <1>2, <1>6, <1>7 DEF SameWords
  <2> QED BY <1>5, <1>6, <2>1, <2>2, <2>3
<1>9. SameMessage(f[i], FileForm(l))
  BY <1>6, <1>7, <1>8 DEF SameMessage, SameWords
<1> QED BY <1>9 DEF Has
-----------------------------------------------------------------------------
(* An update leaves every message of the other party kept or counted.      *)

KeptAcc(b, c, gone) ==
  /\ InStep(b, c, gone) /\ PeerKept(b.mem, b.file)
  /\ b.ids \subseteq MessageIds
  /\ \A n \in Theirs : n.chat = c /\ n.id \in b.ids => Has(b.file, Line(n))

KeepsOn(b, a, c, gone) ==
  /\ KeptAcc(b, c, gone)
  /\ \A l \in Lines : Has(a.file, l) => Has(b.file, l)
  /\ a.lost \subseteq b.lost

LEMMA RecordFields ==
  ASSUME NEW a, IsRecord(a), NEW m, NEW unnoted
  PROVE  /\ IsRecord(Taken(a, m)) /\ Taken(a, m).file = a.file /\ Taken(a, m).mem = a.mem
         /\ Taken(a, m).ids = a.ids /\ Taken(a, m).lost = a.lost
         /\ IsRecord(Noted(a, m, unnoted)) /\ Noted(a, m, unnoted).file = a.file
         /\ Noted(a, m, unnoted).mem = a.mem /\ Noted(a, m, unnoted).lost = a.lost
         /\ Noted(a, m, unnoted).ids \in {a.ids, a.ids \cup {m.id}}
         /\ LET b == [a EXCEPT !.lost = @ \cup {m}]
            IN  /\ IsRecord(b) /\ b.file = a.file /\ b.mem = a.mem /\ b.ids = a.ids
                /\ b.lost = a.lost \cup {m}
BY DEF IsRecord, Taken, Noted

LEMMA NotedFields ==
  ASSUME NEW a, IsRecord(a), NEW m, NEW unnoted
  PROVE  LET b == Noted(Taken(a, m), m, unnoted)
         IN  /\ IsRecord(b) /\ b.file = a.file /\ b.mem = a.mem /\ b.lost = a.lost
             /\ b.ids \in {a.ids, a.ids \cup {m.id}}
<1> DEFINE t == Taken(a, m)
<1>1. IsRecord(t) /\ t.file = a.file /\ t.mem = a.mem /\ t.lost = a.lost /\ t.ids = a.ids
  BY RecordFields
<1> HIDE DEF t
<1>2. /\ IsRecord(Noted(t, m, unnoted)) /\ Noted(t, m, unnoted).file = t.file
      /\ Noted(t, m, unnoted).mem = t.mem /\ Noted(t, m, unnoted).lost = t.lost
      /\ Noted(t, m, unnoted).ids \in {t.ids, t.ids \cup {m.id}}
  BY <1>1 DEF Noted, IsRecord
<1> QED BY <1>1, <1>2 DEF t

LEMMA MessageKept ==
  ASSUME NamesAreClear, ChatTyped, NEW c \in Chats, NEW gone \in BOOLEAN,
         NEW a, KeptAcc(a, c, gone),
         NEW m \in Messages, m \in relay, m.by \in Parties, m.chat = c,
         NEW unsaved, NEW unnoted
  PROVE  LET b == apply_message(a, m, unsaved, unnoted)
         IN  /\ KeepsOn(b, a, c, gone)
             /\ m.by = "peer" => Has(b.file, Line(m)) \/ m \in b.lost
<1> DEFINE line == Line(m)
           old == Placeholders(a.mem, line)
           b == apply_message(a, m, unsaved, unnoted)
           Lost == [a EXCEPT !.lost = @ \cup {m}]
           Handled == Echo(m) \/ m.id \in a.ids
           Double == old = {} /\ is_duplicate(a.mem, line)
           Remarked == Noted(Taken(a, m), m, unnoted)
           New == IF old # {} THEN Upgraded(a, line) ELSE Shown(a, line)
<1>1. /\ b = IF Handled THEN Taken(a, m)
             ELSE IF SignerUnknown(m) THEN Taken(Lost, m)
             ELSE IF Double THEN Remarked
             ELSE IF m \in unsaved THEN Lost
             ELSE Noted(Taken(New, m), m, unnoted)
  BY DEF apply_message
<1>2. IsRecord(a) /\ m.id \in MessageIds /\ InStep(a, c, gone)
  BY DEF KeptAcc, InStep, MessageIds
<1>3. /\ line \in Lines /\ line.by = m.by /\ line.ts = time(m) /\ line.text = m.text
      /\ line.att = m.att /\ line.wrapped = FALSE
  BY LineTyped
<1>4. \A n \in Theirs : n.id = m.id => n = m
  BY MessagesAssumption DEF Theirs
<1>5. m.by = "peer" \/ Echo(m)
  BY DEF Parties, Echo
\* Nothing but the list of losses and the newest time may change.
<1>6. ASSUME NEW x, IsRecord(x), x.file = a.file, x.mem = a.mem, x.ids = a.ids,
             a.lost \subseteq x.lost
      PROVE  KeepsOn(x, a, c, gone)
  <2>1. InStep(x, c, gone)
    BY <1>2, <1>6 DEF InStep
  <2> QED BY <1>6, <2>1 DEF KeptAcc, KeepsOn
\* A new file is a longer one, which has the line.
<1>7. ASSUME NEW x, InStep(x, c, gone), PeerKept(x.mem, x.file),
             Grows(a.file, x.file, Filed(c), Late(c)), Has(x.file, line),
             x.ids \in {a.ids, a.ids \cup {m.id}}, a.lost = x.lost
      PROVE  KeepsOn(x, a, c, gone)
  <2>1. x.file \in Seq(Lines)
    BY <1>7, StepFiles
  <2>2. \A l \in Lines : Has(a.file, l) => Has(x.file, l)
    BY <1>7, <2>1, HasGrows
  <2>3. ASSUME NEW n \in Theirs, n.chat = c, n.id \in x.ids PROVE Has(x.file, Line(n))
    <3>1. Line(n) \in Lines
      BY LineTyped DEF Theirs
    <3>2. CASE n.id \in a.ids
      BY <2>2, <2>3, <3>1, <3>2 DEF KeptAcc
    <3>3. CASE n.id = m.id
      BY <1>4, <1>7, <3>3
    <3> QED BY <1>7, <2>3, <3>2, <3>3
  <2>4. x.ids \subseteq MessageIds
    BY <1>2, <1>7 DEF KeptAcc
  <2> HIDE DEF line
  <2> QED BY <1>7, <2>1, <2>2, <2>3, <2>4 DEF KeptAcc, KeepsOn
<1> HIDE DEF b, line, old, Lost, Handled, Double, Remarked, New
<1>8. CASE Handled
  <2>1. b = Taken(a, m)
    BY <1>1, <1>8
  <2>2. KeepsOn(b, a, c, gone) /\ b.file = a.file
    BY <1>2, <1>6, <2>1, RecordFields
  <2>3. m.by = "peer" => Has(a.file, line)
    BY <1>8 DEF Handled, Echo, KeptAcc, Theirs, line
  <2> QED BY <2>2, <2>3 DEF b, line
<1>9. CASE ~Handled /\ SignerUnknown(m)
  <2>1. b = Taken(Lost, m)
    BY <1>1, <1>9
  <2>2. /\ IsRecord(Lost) /\ Lost.file = a.file /\ Lost.mem = a.mem /\ Lost.ids = a.ids
        /\ Lost.lost = a.lost \cup {m}
    BY <1>2, RecordFields DEF Lost
  <2>3. /\ IsRecord(b) /\ b.file = a.file /\ b.mem = a.mem /\ b.ids = a.ids
        /\ b.lost = a.lost \cup {m}
    BY <2>1, <2>2 DEF Taken, IsRecord
  <2>4. KeepsOn(b, a, c, gone) /\ m \in b.lost
    BY <1>6, <2>3
  <2> QED BY <2>4 DEF b
<1>10. CASE ~Handled /\ ~SignerUnknown(m) /\ ~Double /\ m \in unsaved
  <2>1. b = Lost
    BY <1>1, <1>10
  <2>2. /\ IsRecord(Lost) /\ Lost.file = a.file /\ Lost.mem = a.mem /\ Lost.ids = a.ids
        /\ Lost.lost = a.lost \cup {m}
    BY <1>2, RecordFields DEF Lost
  <2>3. KeepsOn(b, a, c, gone) /\ m \in b.lost
    BY <1>6, <2>1, <2>2
  <2> QED BY <2>3 DEF b
\* The line is kept.
<1>11. ASSUME ~Handled
       PROVE  /\ m.by = "peer" /\ PeerKept(a.mem, a.file)
              /\ InStep(b, c, gone) /\ Grows(a.file, b.file, Filed(c), Late(c))
              /\ Sound(Told(c), Filed(c), Late(c))
              /\ a.mem \in Seq(Told(c)) /\ a.file \in Seq(Told(c))
              /\ line \in Told(c) /\ a.file \in Seq(Lines) /\ a.mem \in Seq(Lines)
  <2>1. m.by = "peer" /\ PeerKept(a.mem, a.file)
    BY <1>5, <1>11 DEF Handled, KeptAcc
  <2>2. GoodStep(b, a, c, gone)
    BY <1>2, MessageStep DEF b
  <2>3. InStep(b, c, gone) /\ Grows(a.file, b.file, Filed(c), Late(c))
    BY <1>2, <2>2, StepOn
  <2>4. Sound(Told(c), Filed(c), Late(c))
    BY SoundNow DEF Sounds
  <2>5. /\ a.mem \in Seq(Told(c)) /\ a.file \in Seq(Told(c))
        /\ a.file \in Seq(Lines) /\ a.mem \in Seq(Lines)
    BY <1>2, StepFiles
  <2>6. LineOf(line, m)
    BY <1>3, <2>1 DEF LineOf, Written
  <2> QED BY <1>3, <2>1, <2>3, <2>4, <2>5, <2>6 DEF Told
<1>12. CASE ~Handled /\ ~SignerUnknown(m) /\ Double
  <2>1. b = Remarked
    BY <1>1, <1>12
  <2>2. /\ IsRecord(b) /\ b.file = a.file /\ b.mem = a.mem /\ b.lost = a.lost
        /\ b.ids \in {a.ids, a.ids \cup {m.id}}
    BY <1>2, <2>1, NotedFields DEF Remarked
  <2>3. Has(a.file, line)
    <3>1. is_duplicate(a.mem, line) /\ line.by = "peer" /\ ~line.wrapped
      BY <1>3, <1>11, <1>12 DEF Double
    <3> QED BY <1>11, <1>12, <3>1, DoubleHas
  <2>4. KeepsOn(b, a, c, gone)
    BY <1>7, <1>11, <1>12, <2>2, <2>3
  <2> QED BY <2>2, <2>3, <2>4 DEF b, line
<1>13. ASSUME ~Handled, ~SignerUnknown(m), ~Double, m \notin unsaved
       PROVE  KeepsOn(b, a, c, gone) /\ Has(b.file, line)
  <2>1. b = Noted(Taken(New, m), m, unnoted)
    BY <1>1, <1>13
  <2>2. InStep(b, c, gone) /\ Grows(a.file, b.file, Filed(c), Late(c))
    BY <1>11, <1>13
  <2>3. /\ IsRecord(New) /\ New.ids = a.ids /\ New.lost = a.lost
        /\ Has(New.file, line)
        /\ \/ \A j \in DOMAIN New.mem : Has(New.file, New.mem[j])
           \/ New.mem = Append(a.mem, line)
    <3>1. CASE old # {}
      <4>1. New = Upgraded(a, line)
        BY <3>1 DEF New
      <4> DEFINE i == Min(old)
                 shown == [a.mem EXCEPT ![i] = line]
                 g == [j \in DOMAIN shown |-> FileForm(shown[j])]
      <4>2. New = [a EXCEPT !.mem = shown, !.file = g]
        BY <4>1 DEF Upgraded, old
      <4>3. i \in DOMAIN a.mem
        <5>1. old \in SUBSET Nat /\ old \subseteq DOMAIN a.mem
          BY <1>11, <1>13 DEF Placeholders, old
        <5>2. PICK x \in old : \A y \in old : ~(y < x)
          BY <3>1, <5>1, Least
        <5>3. x \in old /\ \A y \in old : x <= y
          BY <5>1, <5>2
        <5>4. Min(old) \in old
          BY <5>3 DEF Min
        <5> QED BY <5>1, <5>4
      <4> HIDE DEF i
      <4>4. i \in DOMAIN shown /\ shown[i] = line
        BY <4>3
      <4> HIDE DEF shown
      <4>5. \A j \in DOMAIN shown : Has(g, shown[j])
        BY SameAsItself DEF Has
      <4> HIDE DEF g
      <4>6. /\ IsRecord(New) /\ New.ids = a.ids /\ New.lost = a.lost
            /\ New.file = g /\ New.mem = shown
        BY <1>2, <4>2 DEF IsRecord
      <4> QED BY <4>4, <4>5, <4>6
    <3>2. CASE old = {}
      <4>1. New = [a EXCEPT !.file = Saved(@, line), !.mem = Append(@, line)]
        BY <3>2 DEF New, Shown
      <4>2. Has(Saved(a.file, line), line)
        BY <1>3, <1>11, <1>13, SavedHas
      <4>3. /\ IsRecord(New) /\ New.ids = a.ids /\ New.lost = a.lost
            /\ New.file = Saved(a.file, line) /\ New.mem = Append(a.mem, line)
        BY <1>2, <4>1 DEF IsRecord
      <4> QED BY <4>2, <4>3
    <3> QED BY <3>1, <3>2
  <2>4. /\ IsRecord(b) /\ b.file = New.file /\ b.mem = New.mem /\ b.lost = a.lost
        /\ b.ids \in {a.ids, a.ids \cup {m.id}}
    BY <2>1, <2>3, NotedFields
  <2>5. b.file \in Seq(Lines)
    BY <2>2, StepFiles
  <2>6. PeerKept(b.mem, b.file)
    <3>1. CASE \A j \in DOMAIN New.mem : Has(New.file, New.mem[j])
      BY <2>4, <3>1 DEF PeerKept
    <3>2. CASE New.mem = Append(a.mem, line)
      <4>1. PeerKept(a.mem, b.file)
        BY <1>11, <1>13, <2>2, <2>5, PeerKeptGrows
      <4>2. ASSUME NEW j \in DOMAIN New.mem
            PROVE  New.mem[j] = line \/ (j \in DOMAIN a.mem /\ New.mem[j] = a.mem[j])
        BY <1>3, <1>11, <1>13, <3>2, AppendProperties
      <4> QED BY <2>3, <2>4, <4>1, <4>2 DEF PeerKept
    <3> QED BY <2>3, <3>1, <3>2
  <2> QED BY <1>7, <2>2, <2>3, <2>4, <2>6
<1> QED BY <1>8, <1>9, <1>10, <1>12, <1>13 DEF b, line

LEMMA UpdateKept ==
  ASSUME NamesAreClear, ChatTyped, NEW c \in Chats, NEW gone \in BOOLEAN,
         NEW a, KeptAcc(a, c, gone),
         NEW msgs \in Seq(Messages),
         \A i \in DOMAIN msgs :
           msgs[i] \in relay /\ msgs[i].by \in Parties /\ msgs[i].chat = c,
         NEW unsaved, NEW unnoted
  PROVE  LET b == Applied(a, msgs, unsaved, unnoted)
         IN  /\ KeepsOn(b, a, c, gone)
             /\ \A i \in DOMAIN msgs : msgs[i].by = "peer" =>
                  Has(b.file, Line(msgs[i])) \/ msgs[i] \in b.lost
<1>1. Len(msgs) \in Nat /\ DOMAIN msgs = 1 .. Len(msgs)
  OBVIOUS
<1>2. PICK g : /\ g[0] = a /\ Applied(a, msgs, unsaved, unnoted) = g[Len(msgs)]
               /\ \A i \in 1 .. Len(msgs) :
                    g[i] = apply_message(g[i - 1], msgs[i], unsaved, unnoted)
  BY <1>1, AppliedStepwise
<1> DEFINE Done(n) == /\ KeepsOn(g[n], a, c, gone)
                      /\ \A i \in 1 .. n : msgs[i].by = "peer" =>
                           Has(g[n].file, Line(msgs[i])) \/ msgs[i] \in g[n].lost
           P == {n \in Nat : n <= Len(msgs) => Done(n)}
<1>3. 0 \in P
  BY <1>2 DEF KeepsOn
<1>4. ASSUME NEW n \in Nat, n \in P PROVE n + 1 \in P
  <2> SUFFICES ASSUME n + 1 <= Len(msgs) PROVE Done(n + 1)
    OBVIOUS
  <2>1. Done(n)
    BY <1>1, <1>4
  <2> DEFINE m == msgs[n + 1]
             b == g[n + 1]
  <2>2. m \in Messages /\ m \in relay /\ m.by \in Parties /\ m.chat = c
    BY <1>1
  <2>3. b = apply_message(g[n], m, unsaved, unnoted)
    <3>1. n + 1 \in 1 .. Len(msgs) /\ (n + 1) - 1 = n
      BY <1>1
    <3> QED BY <1>2, <3>1
  <2> HIDE DEF m, b
  <2>4. KeptAcc(g[n], c, gone)
    BY <2>1 DEF KeepsOn
  <2>5. /\ KeepsOn(b, g[n], c, gone)
        /\ m.by = "peer" => Has(b.file, Line(m)) \/ m \in b.lost
    BY <2>2, <2>3, <2>4, MessageKept
  <2>6. KeepsOn(b, a, c, gone)
    BY <2>1, <2>5 DEF KeepsOn
  <2>7. ASSUME NEW i \in 1 .. n + 1, msgs[i].by = "peer"
        PROVE  Has(b.file, Line(msgs[i])) \/ msgs[i] \in b.lost
    <3>1. CASE i = n + 1
      BY <2>5, <2>7, <3>1 DEF m
    <3>2. CASE i # n + 1
      <4>1. i \in 1 .. n /\ msgs[i] \in Messages
        BY <1>1, <2>7, <3>2
      <4>2. Line(msgs[i]) \in Lines
        BY <4>1, LineTyped
      <4> QED BY <2>1, <2>5, <2>7, <4>1, <4>2 DEF KeepsOn
    <3> QED BY <3>1, <3>2
  <2> QED BY <2>6, <2>7 DEF b
<1>5. Len(msgs) \in P
  <2> HIDE DEF P
  <2> QED BY <1>1, <1>3, <1>4, SetInduction
<1> HIDE DEF Done
<1>6. Done(Len(msgs))
  BY <1>1, <1>5
<1> QED BY <1>1, <1>2, <1>6 DEF Done
-----------------------------------------------------------------------------
(* The router takes its commands.                                          *)

Booked(r) ==
  /\ DOMAIN r = {"targets", "pending_hydration", "resubscribe", "inner", "tokens"}
  /\ r = [x \in DOMAIN r |-> r[x]]
  /\ DOMAIN r.targets \subseteq Chats
  /\ r.targets = [c \in DOMAIN r.targets |-> r.targets[c]]
  /\ r.pending_hydration \in Seq(Chats)
  /\ r.inner \in [Chats -> SUBSET MessageIds]
  /\ r.pending_hydration # << >> => r.resubscribe
  /\ \A c \in DOMAIN r.targets :
       IF c \in Range(r.pending_hydration) THEN r.inner[c] = ids[c]
       ELSE /\ c \in DOMAIN targets /\ r.targets[c] = targets[c]
            /\ r.inner[c] = inner[c]

LEMMA CmdBooked ==
  ASSUME NEW r, Booked(r), ids \in [Chats -> SUBSET MessageIds],
         NEW cmd, cmd.chat \in Chats
  PROVE  Booked(apply_chat_router_cmd(r, cmd))
<1> DEFINE c == cmd.chat
           b == apply_chat_router_cmd(r, cmd)
<1>0. /\ DOMAIN r = {"targets", "pending_hydration", "resubscribe", "inner", "tokens"}
      /\ r = [x \in DOMAIN r |-> r[x]]
  BY DEF Booked
<1>1. CASE cmd.do = "track" /\ c \notin DOMAIN r.targets
  <2> DEFINE T == [d \in DOMAIN r.targets \cup {c} |->
                    IF d = c THEN cmd.since ELSE r.targets[d]]
             q == Append(r.pending_hydration, c)
             I == [r.inner EXCEPT ![c] = ids[c]]
  <2>1. b = [r EXCEPT !.targets = T, !.pending_hydration = q, !.resubscribe = TRUE, !.inner = I]
    BY <1>1 DEF apply_chat_router_cmd, Booked
  <2>2. /\ DOMAIN T = DOMAIN r.targets \cup {c} /\ T = [d \in DOMAIN T |-> T[d]]
        /\ \A d \in DOMAIN r.targets : T[d] = r.targets[d]
    BY <1>1
  <2>3. q \in Seq(Chats) /\ Range(q) = Range(r.pending_hydration) \cup {c}
    <3>1. r.pending_hydration \in Seq(Chats)
      BY DEF Booked
    <3>2. /\ q \in Seq(Chats) /\ Len(q) = Len(r.pending_hydration) + 1
          /\ \A i \in 1 .. Len(r.pending_hydration) : q[i] = r.pending_hydration[i]
          /\ q[Len(q)] = c
      BY <3>1, AppendProperties
    <3>3. DOMAIN q = 1 .. Len(q) /\ DOMAIN r.pending_hydration = 1 .. Len(r.pending_hydration)
          /\ Len(r.pending_hydration) \in Nat
      BY <3>1, <3>2, LenProperties
    <3> HIDE DEF q
    <3>4. \A i \in DOMAIN q : i \in DOMAIN r.pending_hydration \/ i = Len(q)
      BY <3>2, <3>3
    <3>5. Len(q) \in DOMAIN q /\ DOMAIN r.pending_hydration \subseteq DOMAIN q
      BY <3>2, <3>3
    <3> QED BY <3>2, <3>3, <3>4, <3>5 DEF Range
  <2>4. /\ I \in [Chats -> SUBSET MessageIds] /\ I[c] = ids[c]
        /\ \A d \in Chats \ {c} : I[d] = r.inner[d]
    BY DEF Booked
  <2> HIDE DEF T, q, I
  <2>5. /\ DOMAIN b = DOMAIN r /\ b = [x \in DOMAIN b |-> b[x]]
        /\ b.targets = T /\ b.pending_hydration = q /\ b.resubscribe = TRUE /\ b.inner = I
    BY <1>0, <2>1
  <2> HIDE DEF b
  <2>6. \A d \in DOMAIN T :
          IF d \in Range(q) THEN I[d] = ids[d]
          ELSE /\ d \in DOMAIN targets /\ T[d] = targets[d]
               /\ I[d] = inner[d]
    <3> SUFFICES ASSUME NEW d \in DOMAIN T, d # c
                 PROVE  IF d \in Range(q) THEN I[d] = ids[d]
                        ELSE /\ d \in DOMAIN targets /\ T[d] = targets[d]
                             /\ I[d] = inner[d]
      BY <2>3, <2>4
    <3>1. d \in DOMAIN r.targets /\ d \in Chats /\ T[d] = r.targets[d] /\ I[d] = r.inner[d]
      BY <2>2, <2>4 DEF Booked
    <3> QED BY <2>3, <3>1 DEF Booked
  <2> QED BY <2>2, <2>3, <2>4, <2>5, <2>6 DEF Booked, b
<1>2. CASE cmd.do = "untrack" /\ c \in DOMAIN r.targets
  <2> DEFINE T == [d \in DOMAIN r.targets \ {c} |-> r.targets[d]]
             I == [r.inner EXCEPT ![c] = {}]
             K == [r.tokens EXCEPT ![c] = Burst]
  <2>1. b = [r EXCEPT !.targets = T, !.resubscribe = TRUE, !.inner = I, !.tokens = K]
    BY <1>2 DEF apply_chat_router_cmd, Booked
  <2>2. /\ I \in [Chats -> SUBSET MessageIds]
        /\ \A d \in Chats \ {c} : I[d] = r.inner[d]
    BY DEF Booked
  <2>3. /\ DOMAIN T = DOMAIN r.targets \ {c} /\ T = [d \in DOMAIN T |-> T[d]]
        /\ \A d \in DOMAIN T : T[d] = r.targets[d]
    OBVIOUS
  <2> HIDE DEF T, I, K
  <2>4. /\ DOMAIN b = DOMAIN r /\ b = [x \in DOMAIN b |-> b[x]]
        /\ b.targets = T /\ b.pending_hydration = r.pending_hydration
        /\ b.resubscribe = TRUE /\ b.inner = I
    BY <1>0, <2>1
  <2> HIDE DEF b
  <2> QED BY <2>2, <2>3, <2>4 DEF Booked, b
<1>3. CASE /\ ~(cmd.do = "track" /\ c \notin DOMAIN r.targets)
           /\ ~(cmd.do = "untrack" /\ c \in DOMAIN r.targets)
  BY <1>3 DEF apply_chat_router_cmd
<1> QED BY <1>1, <1>2, <1>3

LEMMA CmdsBooked ==
  ASSUME RouterTyped
  PROVE  Booked(apply_chat_router_cmds)
<1>1. PICK S : cmds \in Seq(S) /\ \A x \in S : x.chat \in Chats
  BY DEF RouterTyped, IsCmds
<1>2. /\ Len(cmds) \in Nat /\ DOMAIN cmds = 1 .. Len(cmds)
      /\ \A i \in 1 .. Len(cmds) : cmds[i].chat \in Chats
  BY <1>1
<1> DEFINE g == CHOOSE h : Receives(h, Kept0, Len(cmds))
<1>3. Receives(g, Kept0, Len(cmds))
  BY <1>2, ReceivesIsDefined
<1>4. apply_chat_router_cmds = g[Len(cmds)]
  BY DEF apply_chat_router_cmds, Receives, Kept0
<1> HIDE DEF g
<1>5. \A i \in 0 .. Len(cmds) :
        g[i] = IF i = 0 THEN Kept0 ELSE apply_chat_router_cmd(g[i - 1], cmds[i])
  BY <1>3 DEF Receives
<1> DEFINE P == {n \in Nat : n <= Len(cmds) => Booked(g[n])}
<1>6. 0 \in P
  <2>1. << >> \in Seq(Chats) /\ Range(<< >>) = {}
    BY EmptySeq DEF Range
  <2>2. Booked(Kept0)
    <3> DEFINE r == Kept0
    <3>1. /\ DOMAIN r = {"targets", "pending_hydration", "resubscribe", "inner", "tokens"}
          /\ r.targets = targets /\ r.pending_hydration = << >> /\ r.inner = inner
          /\ r = [x \in DOMAIN r |-> r[x]]
      BY DEF Kept0
    <3> QED BY <2>1, <3>1 DEF Booked, RouterTyped
  <2>3. g[0] = Kept0
    BY <1>2, <1>5
  <2> QED BY <2>2, <2>3
<1>7. ASSUME NEW n \in Nat, n \in P PROVE n + 1 \in P
  <2> SUFFICES ASSUME n + 1 <= Len(cmds) PROVE Booked(g[n + 1])
    OBVIOUS
  <2>1. Booked(g[n])
    BY <1>2, <1>7
  <2>2. /\ n + 1 \in 0 .. Len(cmds) /\ n + 1 # 0 /\ (n + 1) - 1 = n
        /\ cmds[n + 1].chat \in Chats
    BY <1>2
  <2>3. g[n + 1] = apply_chat_router_cmd(g[n], cmds[n + 1])
    BY <1>5, <2>2
  <2> QED BY <2>1, <2>2, <2>3, CmdBooked DEF RouterTyped
<1>8. Len(cmds) \in P
  <2> HIDE DEF P
  <2> QED BY <1>2, <1>6, <1>7, SetInduction
<1> QED BY <1>2, <1>4, <1>8
-----------------------------------------------------------------------------
(* Every step accounts for every message.                                  *)

LEMMA RangeOfTail ==
  ASSUME NEW S, NEW q \in Seq(S), q # << >>
  PROVE  /\ Range(q) = {Head(q)} \cup Range(Tail(q))
         /\ Tail(q) \in Seq(S) /\ Head(q) \in S
<1>1. /\ Head(q) \in S /\ Tail(q) \in Seq(S) /\ Len(Tail(q)) = Len(q) - 1
      /\ \A i \in 1 .. Len(Tail(q)) : Tail(q)[i] = q[i + 1]
  BY HeadTailProperties
<1>2. /\ Len(q) \in Nat /\ DOMAIN q = 1 .. Len(q) /\ Len(q) # 0 /\ Head(q) = q[1]
      /\ DOMAIN Tail(q) = 1 .. Len(Tail(q))
  BY <1>1
<1>3. ASSUME NEW i \in DOMAIN q PROVE q[i] = Head(q) \/ \E j \in DOMAIN Tail(q) : q[i] = Tail(q)[j]
  <2>1. CASE i = 1
    BY <1>2, <2>1
  <2>2. CASE i # 1
    <3>1. i - 1 \in DOMAIN Tail(q) /\ (i - 1) + 1 = i
      BY <1>1, <1>2, <2>2
    <3> QED BY <1>1, <1>2, <3>1
  <2> QED BY <2>1, <2>2
<1>4. ASSUME NEW j \in DOMAIN Tail(q) PROVE j + 1 \in DOMAIN q /\ Tail(q)[j] = q[j + 1]
  BY <1>1, <1>2
<1>5. 1 \in DOMAIN q
  BY <1>2
<1> DEFINE t == Tail(q)
           h == Head(q)
<1>6. Range(q) \subseteq {h} \cup Range(t)
  BY <1>3 DEF Range
<1>7. Range(t) \subseteq Range(q) /\ h \in Range(q)
  <2>1. \A j \in DOMAIN t : \E i \in DOMAIN q : t[j] = q[i]
    BY <1>4
  <2>2. h = q[1]
    BY <1>2
  <2> HIDE DEF t, h
  <2> QED BY <1>5, <2>1, <2>2 DEF Range
<1> QED BY <1>1, <1>6, <1>7

LEMMA RangeOfAppend ==
  ASSUME NEW S, NEW q \in Seq(S), NEW x \in S
  PROVE  Append(q, x) \in Seq(S) /\ Range(Append(q, x)) = Range(q) \cup {x}
<1> DEFINE r == Append(q, x)
<1>1. /\ r \in Seq(S) /\ Len(r) = Len(q) + 1
      /\ \A i \in 1 .. Len(q) : r[i] = q[i]
      /\ r[Len(q) + 1] = x
  BY AppendProperties
<1>2. Len(q) \in Nat /\ DOMAIN q = 1 .. Len(q) /\ DOMAIN r = 1 .. Len(q) + 1
  BY <1>1, LenProperties
<1> HIDE DEF r
<1>3. \A i \in DOMAIN r : i \in DOMAIN q \/ i = Len(q) + 1
  BY <1>2
<1>4. Len(q) + 1 \in DOMAIN r /\ DOMAIN q \subseteq DOMAIN r
  BY <1>2
<1>5. Range(r) \subseteq Range(q) \cup {x}
  BY <1>1, <1>2, <1>3 DEF Range
<1>6. Range(q) \subseteq Range(r) /\ x \in Range(r)
  <2>1. \A i \in DOMAIN q : r[i] = q[i]
    BY <1>1, <1>2
  <2>2. Range(q) \subseteq Range(r)
    BY <1>4, <2>1 DEF Range
  <2>3. x \in Range(r)
    BY <1>1, <1>4 DEF Range
  <2> QED BY <2>2, <2>3
<1>7. Range(r) = Range(q) \cup {x}
  BY <1>5, <1>6
<1> QED BY <1>1, <1>7 DEF r

LEMMA TheirLines ==
  ASSUME NEW m \in Theirs
  PROVE  /\ Line(m)' = Line(m) /\ time(m) = m.ts /\ m \in Messages /\ m.by = "peer"
         /\ m.chat \in Chats /\ m.id \in MessageIds
BY MessagesAssumption DEF Theirs, Line, time, MessageIds

LEMMA InFileStays ==
  ASSUME ChatTyped, ChatTyped', StepGrows, NEW m \in Theirs, InFile(m)
  PROVE  InFile(m)'
<1> DEFINE c == m.chat
<1>1. c \in Chats /\ Line(m)' = Line(m) /\ Line(m) \in Lines
  BY TheirLines, LineTyped
<1>2. Grows(file[c], file'[c], Filed(c)', Late(c)) /\ file'[c] \in Seq(Lines)
  <2>1. file[c] \in Seq(Lines) /\ file'[c] \in Seq(Lines)
    BY <1>1 DEF ChatTyped
  <2> QED BY <1>1, <2>1, GoesOnGrows DEF StepGrows
<1>3. Has(file[c], Line(m))
  BY DEF InFile, Has
<1> DEFINE l == Line(m)
           f == file[c]
           g == file'[c]
           W == Filed(c)'
           L == Late(c)
<1>4. Has(g, l)
  <2>1. Grows(f, g, W, L) /\ Has(f, l) /\ g \in Seq(Lines)
    BY <1>2, <1>3
  <2> HIDE DEF l, f, g, W, L
  <2> QED BY <2>1, HasGrows
<1> QED BY <1>1, <1>4 DEF InFile, Has, FileForm

\* A step accounts for a message if it loses no hold of it.
LEMMA AccountedOn ==
  ASSUME NEW m \in Theirs, Accounted(m), InFile(m) => InFile(m)',
         UNCHANGED <<targets, ids>>, lost \subseteq lost',
         m \in relay' => m \in relay,
         InUpdates(m) => InUpdates(m)',
         m.chat \in DOMAIN targets /\ m.id \in inner'[m.chat]
           => m.id \in inner[m.chat] \/ Passed(m)',
         m \in relay /\ Due(m) /\ ToFetch(m) => ToFetch(m)' \/ Passed(m)',
         m \in relay /\ Due(m) /\ ToRead(m) => ToRead(m)' \/ Passed(m)'
  PROVE  Accounted(m)'
<1>1. Passed(m) => Passed(m)'
  BY DEF Passed
<1>2. Due(m)' <=> Due(m)
  BY DEF Due
<1> QED BY <1>1, <1>2 DEF Accounted

\* What the steps of this section start from, and what they come to.
Ready == NamesAreClear /\ ChatInv /\ ChatInv' /\ StepGrows /\ KeptInv
AllAccounted == RouterTyped /\ AllHeard /\ \A m \in Theirs : Accounted(m)

LEMMA ReadyFacts ==
  ASSUME Ready
  PROVE  /\ ChatTyped /\ ChatTyped' /\ RouterTyped /\ AllHeard /\ notes \in Seq(Messages)
         /\ \A m \in Theirs : Accounted(m) /\ (InFile(m) => InFile(m)')
<1>1. ChatTyped /\ ChatTyped' /\ RouterTyped /\ AllHeard /\ \A m \in Theirs : Accounted(m)
  BY DEF Ready, ChatInv, KeptInv
<1>2. Seq(relay) \subseteq Seq(Messages)
  <2>1. relay \subseteq Messages
    BY <1>1 DEF ChatTyped
  <2> QED BY <2>1
<1>3. notes \in Seq(Messages)
  BY <1>1, <1>2 DEF ChatTyped
<1> QED BY <1>1, <1>3, InFileStays DEF Ready

\* Steps that leave the router's memory alone, but for commands and events in front
\* of it.
RestingStep ==
  \/ Tick
  \/ \E c \in Chats : Open(c) \/ List(c) \/ Again(c) \/ CloseChat(c) \/ Forget(c)
  \/ \E m \in Messages : Redeliver(m) \/ Send(m)
  \/ UNCHANGED chatVars

LEMMA RestingStepAccounts ==
  ASSUME Ready, RestingStep
  PROVE  AllAccounted'
<1> USE DEF world, router, screen, ghosts
<1>0. /\ ChatTyped /\ ChatTyped' /\ RouterTyped /\ AllHeard /\ notes \in Seq(Messages)
      /\ \A m \in Theirs : Accounted(m) /\ (InFile(m) => InFile(m)')
  BY ReadyFacts
<1>1. UNCHANGED <<pc, targets, pending_hydration, live, outer, inner, ids, updates, lost,
                  deaf, relay>>
  BY DEF RestingStep, Tick, Open, List, Again, CloseChat, Forget, Redeliver, Send, chatVars
<1>2. cmds' = cmds \/ \E x : x.chat \in Chats /\ cmds' = Append(cmds, x)
  BY DEF RestingStep, Tick, Open, List, Again, CloseChat, Forget, Redeliver, Send, chatVars,
         Track, Untrack
<1>3. notes' = notes \/ \E n \in Messages : notes' = Append(notes, n)
  BY DEF RestingStep, Tick, Open, List, Again, CloseChat, Forget, Redeliver, Send, chatVars
<1>4. IsCmds(cmds', Chats)
  <2>1. IsCmds(cmds, Chats)
    BY <1>0 DEF RouterTyped
  <2>2. ASSUME NEW x, x.chat \in Chats PROVE IsCmds(Append(cmds, x), Chats)
    BY <2>1, <2>2, CmdAppended
  <2> QED BY <1>2, <2>1, <2>2
<1>5. RouterTyped'
  BY <1>0, <1>1, <1>4 DEF RouterTyped, IsCmds
<1>6. AllHeard'
  BY <1>0, <1>1 DEF AllHeard
<1>7. Range(notes) \subseteq Range(notes')
  <2>1. CASE notes' = notes
    BY <2>1
  <2>2. ASSUME NEW n \in Messages, notes' = Append(notes, n)
        PROVE  Range(notes) \subseteq Range(notes')
    BY <1>0, <2>2, RangeOfAppend
  <2> QED BY <1>3, <2>1, <2>2
<1>8. ASSUME NEW m \in Theirs PROVE Accounted(m)'
  <2>1. InUpdates(m) => InUpdates(m)'
    BY <1>1 DEF InUpdates
  <2>2. ToRead(m) => ToRead(m)'
    BY <1>1, <1>7 DEF ToRead
  <2>3. ToFetch(m) => ToFetch(m)'
    BY <1>1 DEF ToFetch
  <2> QED BY <1>0, <1>1, <2>1, <2>2, <2>3, AccountedOn
<1> QED BY <1>5, <1>6, <1>8 DEF AllAccounted

\* A message reaches the relays: it will be read, or is lost to a chat nothing listens
\* to, or its history is still to be fetched.
LEMMA PublishAccounts ==
  ASSUME Ready, NEW n \in Messages, Publish(n)
  PROVE  AllAccounted'
<1>0. /\ ChatTyped /\ ChatTyped' /\ RouterTyped /\ AllHeard /\ notes \in Seq(Messages)
      /\ \A m \in Theirs : Accounted(m) /\ (InFile(m) => InFile(m)')
  BY ReadyFacts
<1>1. /\ UNCHANGED <<pc, cmds, targets, pending_hydration, live, outer, inner, ids, updates,
                     deaf>>
      /\ n \notin relay /\ relay' = relay \cup {n}
      /\ notes' = IF n.chat \in live THEN Append(notes, n) ELSE notes
      /\ lost' = lost \cup {m \in IF n.chat \in deaf THEN {n} ELSE {} : m.by = "peer"}
  BY DEF Publish, Hear, Lose, screen
<1>2. outer \in Seq({m.id : m \in relay'})
  <2>1. {m.id : m \in relay} \subseteq {m.id : m \in relay'}
    BY <1>1
  <2> QED BY <1>0, <2>1, SeqMonotonic DEF RouterTyped
<1>3. RouterTyped'
  BY <1>0, <1>1, <1>2 DEF RouterTyped, IsCmds
<1>4. AllHeard'
  BY <1>0, <1>1 DEF AllHeard
<1>5. /\ Range(notes) \subseteq Range(notes')
      /\ n.chat \in live => n \in Range(notes')
  BY <1>0, <1>1, RangeOfAppend
<1>6. ASSUME NEW m \in Theirs PROVE Accounted(m)'
  <2>1. InUpdates(m) => InUpdates(m)'
    BY <1>1 DEF InUpdates
  <2>2. ToRead(m) => ToRead(m)'
    BY <1>1, <1>5 DEF ToRead
  <2>3. ToFetch(m) => ToFetch(m)'
    BY <1>1 DEF ToFetch
  <2>4. CASE m # n
    <3>1. m \in relay' => m \in relay
      BY <1>1, <2>4
    <3>2. lost \subseteq lost'
      BY <1>1
    <3> QED BY <1>0, <1>1, <2>1, <2>2, <2>3, <3>1, <3>2, AccountedOn
  <2>5. CASE m = n
    <3>1. Passed(m) => Passed(m)'
      BY <1>0, <1>1, <2>1 DEF Passed
    <3>2. m.id \notin Range(outer)
      <4> SUFFICES ASSUME NEW i \in DOMAIN outer, outer[i] = m.id PROVE FALSE
        BY DEF Range
      <4>1. outer[i] \in {k.id : k \in relay}
        BY <1>0 DEF RouterTyped
      <4>2. PICK k \in relay : k.id = m.id
        BY <4>1
      <4> QED BY <1>0, <1>1, <2>5, <4>2, MessagesAssumption DEF ChatTyped
    <3>3. Due(m)' => Passed(m)' \/ ToFetch(m)' \/ ToRead(m)'
      <4> SUFFICES ASSUME m.chat \in DOMAIN targets
                   PROVE  Passed(m)' \/ ToFetch(m)' \/ ToRead(m)'
        BY <1>1 DEF Due
      <4>1. CASE m.chat \in live
        BY <1>1, <1>5, <2>5, <3>2, <4>1 DEF ToRead
      <4>2. CASE m.chat \in deaf
        <5>1. m \in lost'
          BY <1>1, <2>5, <4>2, TheirLines
        <5> QED BY <5>1 DEF Passed
      <4>3. CASE m.chat \in Range(pending_hydration)
        BY <1>1, <4>3 DEF ToFetch
      <4> QED BY <1>0, <4>1, <4>2, <4>3 DEF AllHeard
    <3> QED BY <1>0, <1>1, <3>1, <3>3 DEF Accounted
  <2> QED BY <2>4, <2>5
<1> QED BY <1>3, <1>4, <1>6 DEF AllAccounted

\* The task or the process starts anew, with everything still to be tracked.
LEMMA RebornAccounts ==
  ASSUME Ready, Respawn \/ Restart
  PROVE  AllAccounted'
<1>0. /\ ChatTyped /\ RouterTyped
      /\ \A m \in Theirs : Accounted(m) /\ (InFile(m) => InFile(m)')
  BY ReadyFacts
<1>1. /\ pc' = "idle" /\ targets' = << >> /\ pending_hydration' = << >> /\ outer' = << >>
      /\ inner' = [c \in Chats |-> {}] /\ UNCHANGED ids
      /\ \E cs, since : cs \subseteq Chats /\ cmds' = track_startup_chats(cs, since)
  <2>1. OpenChats \subseteq Chats
    BY DEF OpenChats
  <2> QED BY <2>1 DEF Respawn, Restart, Reborn, screen
<1>2. IsCmds(cmds', Chats)
  BY <1>1, StartTracks
<1>3. DOMAIN targets' = {} /\ targets' = [c \in DOMAIN targets' |-> targets'[c]]
  BY <1>1
<1>4. RouterTyped'
  <2>1. outer' \in Seq({m.id : m \in relay'}) /\ pending_hydration' \in Seq(Chats)
    BY <1>1, EmptySeq
  <2> QED BY <1>0, <1>1, <1>2, <1>3, <2>1 DEF RouterTyped, IsCmds
<1> QED BY <1>0, <1>1, <1>3, <1>4 DEF AllAccounted, AllHeard, Accounted, Due

LEMMA CmdsAccount ==
  ASSUME Ready, ApplyCmds
  PROVE  AllAccounted'
<1> DEFINE r == apply_chat_router_cmds
<1>0. /\ ChatTyped /\ RouterTyped /\ AllHeard
      /\ \A m \in Theirs : Accounted(m) /\ (InFile(m) => InFile(m)')
  BY ReadyFacts
<1>1. Booked(r)
  BY <1>0, CmdsBooked
<1>2. /\ pc = "idle" /\ cmds' = << >> /\ targets' = r.targets
      /\ pending_hydration' = r.pending_hydration
      /\ inner' = r.inner
      /\ pc' = IF r.resubscribe THEN "subscribe" ELSE "idle"
      /\ lost' = {m \in lost : m.chat \notin Range(r.pending_hydration)}
      /\ UNCHANGED <<ids, updates, outer, live, deaf, notes, relay>>
  BY DEF ApplyCmds, world, screen
<1> HIDE DEF r
<1>3. IsCmds(cmds', Chats)
  <2>1. << >> \in Seq({}) /\ \A x \in {} : x.chat \in Chats
    BY EmptySeq
  <2> QED BY <1>2, <2>1 DEF IsCmds
<1>4. RouterTyped'
  <2>1. DOMAIN targets' \subseteq Chats /\ targets' = [c \in DOMAIN targets' |-> targets'[c]]
    BY <1>1, <1>2 DEF Booked
  <2>2. /\ pending_hydration' \in Seq(Chats) /\ inner' \in [Chats -> SUBSET MessageIds]
        /\ pending_hydration' # << >> => pc' = "subscribe"
    BY <1>1, <1>2 DEF Booked
  <2> QED BY <1>0, <1>2, <1>3, <2>1, <2>2 DEF RouterTyped, IsCmds
\* A tracked chat was tracked before, or its history will be fetched.
<1>5. ASSUME NEW c \in DOMAIN targets'
      PROVE  IF c \in Range(pending_hydration') THEN inner'[c] = ids[c] /\ pc' = "subscribe"
             ELSE /\ c \in DOMAIN targets /\ targets'[c] = targets[c]
                  /\ inner'[c] = inner[c]
  <2>1. c \in Range(pending_hydration') => pending_hydration' # << >>
    BY EmptySeq DEF Range
  <2> QED BY <1>1, <1>2, <2>1 DEF Booked
<1>6. AllHeard'
  BY <1>0, <1>2, <1>5 DEF AllHeard
<1>7. ASSUME NEW m \in Theirs PROVE Accounted(m)'
  <2>1. CASE m.chat \in Range(pending_hydration')
    BY <1>0, <1>2, <1>5, <2>1 DEF Accounted, Passed, ToFetch
  <2>2. CASE m.chat \notin Range(pending_hydration')
    <3>1. Passed(m) => Passed(m)'
      BY <1>0, <1>2, <2>2 DEF Passed, InUpdates
    <3>2. ~ToFetch(m) /\ (ToRead(m) => ToRead(m)')
      <4>1. pending_hydration = << >>
        BY <1>0, <1>2 DEF RouterTyped
      <4> QED BY <1>2, <4>1, EmptySeq DEF ToFetch, ToRead, Range
    <3>3. m.chat \in DOMAIN targets' =>
            /\ m.chat \in DOMAIN targets /\ inner'[m.chat] = inner[m.chat]
            /\ Due(m)' => Due(m)
      BY <1>5, <2>2 DEF Due
    <3>4. Due(m)' => m.chat \in DOMAIN targets'
      BY DEF Due
    <3> QED BY <1>0, <1>2, <3>1, <3>2, <3>3, <3>4 DEF Accounted
  <2> QED BY <2>1, <2>2
<1> QED BY <1>4, <1>6, <1>7 DEF AllAccounted

LEMMA SubscribeAccounts ==
  ASSUME Ready, Subscribe \/ SubscribeFails
  PROVE  AllAccounted'
<1>0. /\ ChatTyped /\ RouterTyped /\ AllHeard
      /\ \A m \in Theirs : Accounted(m) /\ (InFile(m) => InFile(m)')
  BY ReadyFacts
<1>1. /\ UNCHANGED <<cmds, targets, pending_hydration, notes, outer, inner, ids, updates, lost,
                     relay>>
      /\ pc' = IF pending_hydration = << >> THEN "idle" ELSE "hydrate"
      /\ DOMAIN targets \subseteq live' \cup deaf'
  BY DEF Subscribe, SubscribeFails, AfterSubscribe, world, screen
<1>2. RouterTyped'
  BY <1>0, <1>1 DEF RouterTyped, IsCmds
<1>3. AllHeard'
  BY <1>1 DEF AllHeard
<1>4. ASSUME NEW m \in Theirs PROVE Accounted(m)'
  <2>1. /\ InUpdates(m) => InUpdates(m)'
        /\ ToRead(m) => ToRead(m)'
        /\ ToFetch(m) => ToFetch(m)'
    BY <1>1 DEF InUpdates, ToRead, ToFetch
  <2> QED BY <1>0, <1>1, <2>1, AccountedOn
<1> QED BY <1>2, <1>3, <1>4 DEF AllAccounted

LEMMA EmitPasses ==
  ASSUME ChatTyped, NEW c, NEW msgs, Emit(c, msgs)
  PROVE  /\ \A m : InUpdates(m) => InUpdates(m)'
         /\ \A m \in Range(msgs) : InUpdates(m)' \/ m \in Dropped(msgs)
<1> DEFINE u == [chat |-> c, msgs |-> msgs]
           S == Updates \cup {u}
<1>1. Seq(Updates) \subseteq Seq(S)
  OBVIOUS
<1>2. updates \in Seq(S) /\ u \in S
  BY <1>1 DEF ChatTyped
<1>3. u.msgs = msgs
  OBVIOUS
<1> HIDE DEF u, S
<1>4. CASE updates' = Append(updates, u)
  <2>1. /\ Len(updates') = Len(updates) + 1 /\ updates' \in Seq(S)
        /\ \A i \in 1 .. Len(updates) : updates'[i] = updates[i]
        /\ updates'[Len(updates) + 1] = u
    BY <1>2, <1>4, AppendProperties
  <2>2. /\ DOMAIN updates \subseteq DOMAIN updates' /\ Len(updates) + 1 \in DOMAIN updates'
        /\ \A i \in DOMAIN updates : updates'[i] = updates[i]
    BY <1>2, <2>1
  <2> QED BY <1>3, <2>1, <2>2 DEF InUpdates
<1>5. CASE updates' = updates /\ (msgs = << >> \/ ~(Len(updates) < QueueCap))
  <2>1. \A m : InUpdates(m) => InUpdates(m)'
    BY <1>5 DEF InUpdates
  <2>2. ASSUME NEW m \in Range(msgs) PROVE m \in Dropped(msgs)
    <3>1. msgs # << >>
      BY <2>2, EmptySeq DEF Range
    <3> QED BY <1>5, <2>2, <3>1 DEF Dropped
  <2> QED BY <2>1, <2>2
<1> QED BY <1>4, <1>5 DEF Emit, u

LEMMA ByTimeHasAll ==
  ASSUME NEW found, IsFiniteSet(found), NEW msgs \in ByTime(found)
  PROVE  Range(msgs) = found
<1> DEFINE n == Cardinality(found)
<1>1. n \in Nat
  BY FS_CardinalityType
<1>2. msgs \in [1 .. n -> found] /\ \A i, j \in 1 .. n : msgs[i] = msgs[j] => i = j
  BY DEF ByTime, IsInjective
<1> HIDE DEF n
<1> DEFINE had == {msgs[i] : i \in 1 .. n}
<1>3. msgs \in Bijection(1 .. n, had)
  BY <1>2 DEF Bijection, Injection, Surjection, IsInjective
<1>4. ExistsBijection(1 .. n, had)
  BY <1>3 DEF ExistsBijection
<1>5. Cardinality(had) = n
  BY <1>1, <1>4, FS_CountingElements
<1>6. had \subseteq found
  BY <1>2
<1> HIDE DEF had
<1>7. had = found
  BY <1>5, <1>6, FS_Subset DEF n
<1>8. Range(msgs) = had
  BY <1>2 DEF Range, had
<1> QED BY <1>7, <1>8

\* A history is fetched: what is due is in it, was let through before, or is lost with
\* the envelope that could not be fetched.
LEMMA HydrateAccounts ==
  ASSUME Ready, Hydrate
  PROVE  AllAccounted'
<1> DEFINE c == Head(pending_hydration)
<1>0. /\ ChatTyped /\ ChatTyped' /\ RouterTyped /\ AllHeard /\ notes \in Seq(Messages)
      /\ \A m \in Theirs : Accounted(m) /\ (InFile(m) => InFile(m)')
  BY ReadyFacts
<1>1. /\ pc = "hydrate" /\ pending_hydration' = Tail(pending_hydration)
      /\ pc' = IF pending_hydration' = << >> THEN "idle" ELSE "hydrate"
      /\ UNCHANGED <<cmds, targets, live, notes, outer, ids, deaf, relay>>
  BY DEF Hydrate, world, screen
<1>2. /\ c \in Chats /\ pending_hydration' \in Seq(Chats)
      /\ Range(pending_hydration) = {c} \cup Range(pending_hydration')
  BY <1>0, <1>1, RangeOfTail DEF RouterTyped
<1>3. AllHeard'
  BY <1>0, <1>1 DEF AllHeard
<1>4. ASSUME inner' \in [Chats -> SUBSET MessageIds] PROVE RouterTyped'
  BY <1>0, <1>1, <1>2, <1>4 DEF RouterTyped, IsCmds
<1>5. ASSUME NEW m \in Theirs, m.chat # c
      PROVE  ToFetch(m) => ToFetch(m)'
  BY <1>2, <1>5 DEF ToFetch
<1>6. ASSUME NEW m \in Theirs PROVE ToRead(m) => ToRead(m)'
  BY <1>1 DEF ToRead
<1>7. CASE c \notin DOMAIN targets
  <2>1. UNCHANGED <<inner, updates, lost>>
    BY <1>7 DEF Hydrate
  <2>2. RouterTyped'
    BY <1>0, <1>4, <2>1 DEF RouterTyped
  <2>3. ASSUME NEW m \in Theirs PROVE Accounted(m)'
    <3>1. Due(m) => m.chat # c
      BY <1>7 DEF Due
    <3>2. InUpdates(m) => InUpdates(m)'
      BY <2>1 DEF InUpdates
    <3> QED BY <1>0, <1>1, <1>5, <1>6, <2>1, <3>1, <3>2, AccountedOn
  <2> QED BY <1>3, <2>2, <2>3 DEF AllAccounted
<1>8. CASE c \in DOMAIN targets
  <2> DEFINE held == {m \in relay : m.chat = c}
             Found(fetched) == {m \in held : m.envelope \in fetched /\ unwrap_ok(m)
                                             /\ WithinCursor(m) /\ Fresh(m)}
  <2>1. PICK fetched \in SUBSET Envelopes : \E msgs \in ByTime(Found(fetched)) :
          /\ inner' = [inner EXCEPT ![c] = @ \cup {m.id : m \in Found(fetched)}]
          /\ Emit(c, msgs)
          /\ Lose(Dropped(msgs) \cup {m \in held : m.envelope \notin fetched})
    BY <1>8 DEF Hydrate
  <2> DEFINE found == Found(fetched)
  <2>2. PICK msgs \in ByTime(found) :
          /\ inner' = [inner EXCEPT ![c] = @ \cup {m.id : m \in found}]
          /\ Emit(c, msgs)
          /\ lost' = lost \cup {m \in Dropped(msgs) \cup {k \in held : k.envelope \notin fetched} :
                                  m.by = "peer"}
    BY <2>1 DEF Lose
  <2>3. /\ \A m : m \in found <=> /\ m \in relay /\ m.chat = c /\ m.envelope \in fetched
                                  /\ unwrap_ok(m) /\ WithinCursor(m) /\ Fresh(m)
        /\ \A m : m \in held <=> m \in relay /\ m.chat = c
    OBVIOUS
  <2> HIDE DEF found, Found, held
  <2>4. relay \subseteq Messages /\ found \subseteq Messages /\ IsFiniteSet(found)
    <3>1. relay \subseteq Messages
      BY <1>0 DEF ChatTyped
    <3>2. found \in SUBSET Messages
      BY <2>3, <3>1
    <3> QED BY <3>1, <3>2, MessagesAssumption, FS_Subset
  <2>5. Range(msgs) = found
    BY <2>4, ByTimeHasAll
  <2>6. /\ \A m : InUpdates(m) => InUpdates(m)'
        /\ \A m \in found : InUpdates(m)' \/ m \in Dropped(msgs)
    BY <1>0, <2>2, <2>5, EmitPasses
  <2>7. lost \subseteq lost'
    BY <2>2
  <2>8. \A m \in found : m.by = "peer" => Passed(m)'
    BY <2>2, <2>6 DEF Passed
  <2>9. RouterTyped'
    <3>1. {m.id : m \in found} \subseteq MessageIds
      BY <2>4 DEF MessageIds
    <3>2. inner' \in [Chats -> SUBSET MessageIds]
      BY <1>0, <1>2, <2>2, <3>1 DEF RouterTyped
    <3> QED BY <1>4, <3>2
  <2>10. ASSUME NEW m \in Theirs PROVE Accounted(m)'
    <3>1. /\ m \in Messages /\ m.by = "peer" /\ m.chat \in Chats /\ time(m) = m.ts
          /\ unwrap_ok(m)
      BY TheirLines DEF unwrap_ok, allowed_signers
    <3>2. Passed(m) => Passed(m)'
      BY <1>0, <2>6, <2>7 DEF Passed
    <3>3. ASSUME m.id \in inner'[m.chat] PROVE m.id \in inner[m.chat] \/ Passed(m)'
      <4>1. CASE m.chat # c
        BY <1>0, <1>2, <2>2, <3>1, <3>3, <4>1 DEF RouterTyped
      <4>2. CASE m.chat = c
        <5>1. m.id \in inner[c] \/ \E k \in found : k.id = m.id
          BY <1>0, <1>2, <2>2, <3>3, <4>2 DEF RouterTyped
        <5>2. \A k \in found : k.id = m.id => k = m
          BY <2>4, <3>1, MessagesAssumption
        <5> QED BY <2>8, <3>1, <4>2, <5>1, <5>2
      <4> QED BY <4>1, <4>2
    <3>4. ASSUME m \in relay, Due(m), ToFetch(m) PROVE ToFetch(m)' \/ Passed(m)'
      <4>1. CASE m.chat # c
        BY <1>5, <3>4, <4>1
      <4>2. CASE m.chat = c /\ m.envelope \notin fetched
        BY <2>2, <2>3, <3>1, <3>4, <4>2 DEF Passed
      <4>3. CASE m.chat = c /\ m.envelope \in fetched /\ ~Fresh(m)
        <5>1. m.id \in inner[m.chat]
          BY <4>3 DEF Fresh
        <5>2. Passed(m)
          BY <1>0, <3>4, <5>1 DEF Accounted, Due
        <5> QED BY <3>2, <5>2
      <4>4. CASE m.chat = c /\ m.envelope \in fetched /\ Fresh(m)
        <5>1. WithinCursor(m)
          BY <3>1, <3>4 DEF WithinCursor, Due
        <5>2. m \in found
          BY <2>3, <3>1, <3>4, <4>4, <5>1
        <5> QED BY <2>8, <3>1, <5>2
      <4> QED BY <4>1, <4>2, <4>3, <4>4
    <3> QED BY <1>0, <1>1, <1>6, <2>6, <2>7, <3>3, <3>4, AccountedOn
  <2> QED BY <1>3, <2>9, <2>10 DEF AllAccounted
<1> QED BY <1>7, <1>8

\* The next event is taken from the subscription.
LEMMA ListenFacts ==
  ASSUME Ready, notes # << >>, notes' = Tail(notes)
  PROVE  /\ Note \in Messages /\ Note \in relay
         /\ Range(notes) = {Note} \cup Range(notes')
         /\ \A m \in Theirs : m.id = Note.id => m = Note
         /\ Range(outer') \subseteq Range(outer) \cup {Note.id}
              => \A m \in Theirs \ {Note} : ToRead(m) => ToRead(m)'
<1>0. ChatTyped
  BY ReadyFacts
<1>1. notes \in Seq(relay) /\ relay \subseteq Messages
  BY <1>0 DEF ChatTyped
<1>2. /\ Note \in relay /\ Range(notes) = {Note} \cup Range(notes')
  BY <1>1, RangeOfTail DEF Note
<1>3. \A m \in Theirs : m.id = Note.id => m = Note
  BY <1>1, <1>2, MessagesAssumption DEF Theirs
<1> QED BY <1>1, <1>2, <1>3 DEF ToRead

LEMMA RememberedTyped ==
  ASSUME RouterTyped, Note \in relay
  PROVE  /\ Remembered \in Seq({m.id : m \in relay})
         /\ Range(Remembered) \subseteq Range(outer) \cup {Note.id}
<1> DEFINE S == {m.id : m \in relay}
           longer == Append(outer, Note.id)
<1>1. outer \in Seq(S) /\ Note.id \in S
  BY DEF RouterTyped
<1> HIDE DEF S
<1>2. longer \in Seq(S) /\ Range(longer) = Range(outer) \cup {Note.id} /\ longer # << >>
  <2>1. Append(outer, Note.id) \in Seq(S) /\ Append(outer, Note.id) # << >>
    BY <1>1, AppendProperties
  <2> QED BY <1>1, <2>1, RangeOfAppend
<1> HIDE DEF longer
<1>3. Tail(longer) \in Seq(S) /\ Range(Tail(longer)) \subseteq Range(longer)
  BY <1>2, RangeOfTail
<1>4. Remembered \in {longer, Tail(longer)}
  BY DEF Remembered, longer
<1> QED BY <1>2, <1>3, <1>4 DEF S

LEMMA NotesAccount ==
  ASSUME Ready, Skip \/ IgnoreNote \/ TurnAway \/ ReadNote
  PROVE  AllAccounted'
<1>0. /\ ChatTyped /\ ChatTyped' /\ RouterTyped /\ AllHeard /\ notes \in Seq(Messages)
      /\ \A m \in Theirs : Accounted(m) /\ (InFile(m) => InFile(m)')
  BY ReadyFacts
<1>1. /\ notes # << >> /\ notes' = Tail(notes)
      /\ UNCHANGED <<cmds, pc, targets, pending_hydration, live, ids, deaf, relay>>
  BY DEF Skip, IgnoreNote, TurnAway, ReadNote, Listen, world, screen
<1>2. /\ Note \in Messages /\ Note \in relay
      /\ Range(notes) = {Note} \cup Range(notes')
      /\ \A m \in Theirs : m.id = Note.id => m = Note
      /\ Range(outer') \subseteq Range(outer) \cup {Note.id}
           => \A m \in Theirs \ {Note} : ToRead(m) => ToRead(m)'
  BY <1>1, ListenFacts
<1>3. /\ outer' \in Seq({m.id : m \in relay})
      /\ Range(outer') \subseteq Range(outer) \cup {Note.id}
  <2>1. outer' \in {outer, Remembered}
    BY DEF Skip, IgnoreNote, TurnAway, ReadNote
  <2> QED BY <1>0, <1>2, <2>1, RememberedTyped DEF RouterTyped
<1>4. \/ UNCHANGED <<inner, updates>>
      \/ /\ inner' = [inner EXCEPT ![Note.chat] = @ \cup {Note.id}]
         /\ Emit(Note.chat, <<Note>>) /\ Lose(Dropped(<<Note>>))
  BY DEF Skip, IgnoreNote, TurnAway, ReadNote
<1>5. lost \subseteq lost' /\ \A m : InUpdates(m) => InUpdates(m)'
  <2>1. lost \subseteq lost'
    BY DEF Skip, IgnoreNote, TurnAway, ReadNote, Lose
  <2>2. CASE UNCHANGED <<inner, updates>>
    BY <2>1, <2>2 DEF InUpdates
  <2> QED BY <1>0, <1>4, <2>1, <2>2, EmitPasses
<1>6. Note.chat \in Chats /\ Note.id \in MessageIds
  BY <1>2, MessagesAssumption DEF MessageIds
<1>7. inner' \in [Chats -> SUBSET MessageIds]
  BY <1>0, <1>4, <1>6 DEF RouterTyped
<1>8. RouterTyped'
  BY <1>0, <1>1, <1>3, <1>7 DEF RouterTyped, IsCmds
<1>9. AllHeard'
  BY <1>0, <1>1 DEF AllHeard
<1>10. PICK n : n = Note
  OBVIOUS
\* What is let through is passed on.
<1>11. ASSUME Emit(Note.chat, <<Note>>), Lose(Dropped(<<Note>>)), n.by = "peer"
       PROVE  Passed(n)'
  <2>1. n \in Range(<<Note>>)
    <3>1. <<Note>>[1] = n /\ 1 \in DOMAIN <<Note>>
      BY <1>10
    <3> QED BY <3>1 DEF Range
  <2>2. InUpdates(n)' \/ n \in Dropped(<<Note>>)
    BY <1>0, <1>11, <2>1, EmitPasses
  <2>3. lost' = lost \cup {m \in Dropped(<<Note>>) : m.by = "peer"}
    BY <1>11 DEF Lose
  <2> QED BY <1>11, <2>2, <2>3 DEF Passed
<1>12. ASSUME NEW m \in Theirs PROVE Accounted(m)'
  <2>1. /\ m.by = "peer" /\ m.chat \in Chats /\ unwrap_ok(m)
    BY TheirLines DEF unwrap_ok, allowed_signers
  <2>2. Passed(m) => Passed(m)'
    BY <1>0, <1>5 DEF Passed
  <2>3. ToFetch(m) => ToFetch(m)'
    BY <1>1 DEF ToFetch
  <2>4. ASSUME m.id \in inner'[m.chat] PROVE m.id \in inner[m.chat] \/ Passed(m)'
    <3>1. CASE UNCHANGED <<inner, updates>>
      BY <2>4, <3>1
    <3>2. CASE /\ inner' = [inner EXCEPT ![Note.chat] = @ \cup {Note.id}]
               /\ Emit(Note.chat, <<Note>>) /\ Lose(Dropped(<<Note>>))
      <4>1. m.id \in inner[m.chat] \/ m.id = Note.id
        BY <1>0, <1>6, <2>1, <2>4, <3>2 DEF RouterTyped
      <4>2. m.id = Note.id => m = n
        BY <1>2, <1>10
      <4> QED BY <1>11, <2>1, <3>2, <4>1, <4>2
    <3> QED BY <1>4, <3>1, <3>2
  <2>5. ASSUME Due(m), ToRead(m), m = n PROVE Passed(m)'
    <3>1. Routed /\ ~Known
      BY <1>10, <2>5 DEF Routed, Known, Due, ToRead, Range
    <3>2. CASE Skip \/ TurnAway
      <4>1. m \in lost'
        BY <1>10, <2>1, <2>5, <3>2 DEF Skip, TurnAway, Lose, Note
      <4> QED BY <4>1 DEF Passed
    <3>3. CASE IgnoreNote
      BY <3>1, <3>3 DEF IgnoreNote
    <3>4. CASE ReadNote /\ Readable
      BY <1>11, <2>1, <2>5, <3>4 DEF ReadNote
    <3>5. CASE ReadNote /\ ~Readable
      <4>1. m.id \in inner[m.chat]
        BY <1>10, <2>1, <2>5, <3>5 DEF Readable, Fresh
      <4>2. Passed(m)
        BY <1>0, <2>5, <4>1 DEF Accounted, Due
      <4> QED BY <2>2, <4>2
    <3> QED BY <3>2, <3>3, <3>4, <3>5
  <2>6. Due(m) /\ ToRead(m) => ToRead(m)' \/ Passed(m)'
    BY <1>2, <1>3, <1>10, <2>5
  <2> QED BY <1>0, <1>1, <1>5, <2>3, <2>4, <2>6, AccountedOn
<1> QED BY <1>8, <1>9, <1>12 DEF AllAccounted

\* The interface takes an update: its messages are kept or counted as lost.
LEMMA UpdateAccounts ==
  ASSUME Ready, ApplyUpdate
  PROVE  AllAccounted' /\ \A c \in Chats : PeerKept(mem'[c], file'[c])
<1> DEFINE d == Head(updates).chat
           msgs == Head(updates).msgs
           start == [mem |-> mem[d], file |-> file[d], ids |-> ids[d],
                     top |-> seen[d], lost |-> lost]
<1>0. /\ ChatTyped /\ ChatTyped' /\ RouterTyped /\ AllHeard /\ NamesAreClear
      /\ \A m \in Theirs : Accounted(m) /\ (InFile(m) => InFile(m)')
  BY ReadyFacts DEF Ready
<1>1. /\ updates # << >> /\ updates' = Tail(updates)
      /\ UNCHANGED <<cmds, pc, targets, pending_hydration, live, notes, outer, inner, deaf, relay>>
  BY DEF ApplyUpdate, world, router
<1>2. /\ Head(updates) \in Updates
      /\ Range(updates) = {Head(updates)} \cup Range(updates')
  BY <1>0, <1>1, RangeOfTail DEF ChatTyped
<1>3. /\ d \in Chats /\ msgs \in Seq(Messages)
      /\ \A i \in DOMAIN msgs : msgs[i] \in relay /\ msgs[i].by \in Parties /\ msgs[i].chat = d
  BY <1>2 DEF Updates
<1>4. PICK unsaved, unnoted :
        LET a == Applied(start, msgs, unsaved, unnoted)
        IN  /\ mem' = [mem EXCEPT ![d] = a.mem] /\ file' = [file EXCEPT ![d] = a.file]
            /\ ids' = [ids EXCEPT ![d] = a.ids] /\ lost' = a.lost
  BY DEF ApplyUpdate
<1> DEFINE a == Applied(start, msgs, unsaved, unnoted)
<1>5. /\ start.mem = mem[d] /\ start.file = file[d] /\ start.ids = ids[d] /\ start.lost = lost
      /\ IsRecord(start)
  BY DEF IsRecord
<1> HIDE DEF start, a
<1>6. /\ mem' = [mem EXCEPT ![d] = a.mem] /\ file' = [file EXCEPT ![d] = a.file]
      /\ ids' = [ids EXCEPT ![d] = a.ids] /\ lost' = a.lost
  BY <1>4 DEF a
<1>7. PICK c : c = d
  OBVIOUS
<1>8. PICK q : q = msgs
  OBVIOUS
<1> HIDE DEF d, msgs
<1>9. /\ mem'[c] = a.mem /\ file'[c] = a.file /\ ids'[c] = a.ids
      /\ \A e \in Chats \ {c} : mem'[e] = mem[e] /\ file'[e] = file[e] /\ ids'[e] = ids[e]
  BY <1>0, <1>3, <1>6, <1>7 DEF ChatTyped, RouterTyped
<1> DEFINE gone == open[c] = "forgotten"
<1>10. gone \in BOOLEAN /\ KeptAcc(start, c, gone)
  <2>1. start.ids \subseteq MessageIds
    BY <1>0, <1>3, <1>5, <1>7 DEF RouterTyped
  <2>2. InStep(start, c, gone) /\ PeerKept(start.mem, start.file)
    BY <1>3, <1>5, <1>7 DEF Ready, ChatInv, KeptInv, InStep
  <2>3. ASSUME NEW n \in Theirs, n.chat = c, n.id \in start.ids
        PROVE  Has(start.file, Line(n))
    BY <1>0, <1>5, <1>7, <2>3 DEF Accounted, InFile, Has
  <2> QED BY <2>1, <2>2, <2>3 DEF KeptAcc
<1> HIDE DEF gone
<1>11. /\ KeepsOn(a, start, c, gone)
       /\ \A i \in DOMAIN q : q[i].by = "peer" => Has(a.file, Line(q[i])) \/ q[i] \in a.lost
  BY <1>0, <1>3, <1>7, <1>8, <1>10, UpdateKept DEF a
<1>12. KeptAcc(a, c, gone) /\ lost \subseteq lost'
  BY <1>5, <1>6, <1>11 DEF KeepsOn
<1>13. ASSUME NEW m \in Theirs, m.chat = c, Has(a.file, Line(m))
       PROVE  InFile(m)'
  BY <1>9, <1>13, TheirLines DEF InFile, Has, FileForm
<1>14. RouterTyped'
  <2>1. ids' \in [Chats -> SUBSET MessageIds]
    BY <1>0, <1>6, <1>12 DEF RouterTyped, KeptAcc
  <2> QED BY <1>0, <1>1, <2>1 DEF RouterTyped, IsCmds
<1>15. AllHeard'
  BY <1>0, <1>1 DEF AllHeard
<1>16. ASSUME NEW m \in Theirs PROVE Accounted(m)'
  <2>1. m.id \in ids'[m.chat] => InFile(m)'
    <3>1. m.chat \in Chats
      BY TheirLines
    <3>2. CASE m.chat = c
      BY <1>9, <1>12, <1>13, <3>2 DEF KeptAcc
    <3>3. CASE m.chat # c
      BY <1>0, <1>9, <3>1, <3>3 DEF Accounted
    <3> QED BY <3>2, <3>3
  <2>2. ASSUME InUpdates(m) PROVE Passed(m)'
    <3>1. m \in Range(q) \/ InUpdates(m)'
      <4>1. PICK u \in Range(updates) : m \in Range(u.msgs)
        BY <2>2 DEF InUpdates, Range
      <4>2. CASE u = Head(updates)
        BY <1>8, <4>1, <4>2 DEF msgs
      <4>3. CASE u \in Range(updates')
        <5>1. PICK i \in DOMAIN updates' : updates'[i] = u
          BY <4>3 DEF Range
        <5> QED BY <4>1, <5>1 DEF InUpdates
      <4> QED BY <1>2, <4>2, <4>3
    <3>2. ASSUME m \in Range(q) PROVE Passed(m)'
      <4>1. PICK i \in DOMAIN q : q[i] = m
        BY <3>2 DEF Range
      <4>2. m.chat = c /\ m.by = "peer"
        BY <1>3, <1>7, <1>8, <4>1, TheirLines
      <4> QED BY <1>6, <1>11, <1>13, <4>1, <4>2 DEF Passed
    <3> QED BY <3>1, <3>2 DEF Passed
  <2>3. Passed(m) => Passed(m)'
    BY <1>0, <1>12, <2>2 DEF Passed
  <2>4. ToFetch(m)' = ToFetch(m) /\ ToRead(m)' = ToRead(m) /\ Due(m)' = Due(m)
    BY <1>1 DEF ToFetch, ToRead, Due
  <2> QED BY <1>0, <1>1, <2>1, <2>3, <2>4 DEF Accounted
<1>17. ASSUME NEW e \in Chats PROVE PeerKept(mem'[e], file'[e])
  <2>1. CASE e # c
    BY <1>9, <2>1 DEF Ready, KeptInv
  <2>2. CASE e = c
    BY <1>9, <1>12, <2>2 DEF KeptAcc
  <2> QED BY <2>1, <2>2
<1> QED BY <1>14, <1>15, <1>16, <1>17 DEF AllAccounted

LEMMA FileIsKept ==
  ASSUME NEW f, NEW T, Recorded(f, T)
  PROVE  PeerKept(f, f)
BY SameAsItself DEF Recorded, PeerKept, Has

LEMMA ScreenKept ==
  ASSUME NamesAreClear, OwnLinesDiffer', Ready, [ChatNext]_chatVars, NEW c \in Chats
  PROVE  PeerKept(mem'[c], file'[c])
<1>1. ChatInv /\ ChatTyped /\ StepGrows /\ ChatTyped'
  BY ReadyFacts DEF Ready
<1>2. PeerKept(mem[c], file[c])
  BY DEF Ready, KeptInv
<1>3. PeerKept(file[c], file[c]) /\ PeerKept(<< >>, file[c])
  <2>1. Recorded(file[c], Told(c))
    BY <1>1, PaneKept DEF ChatInv, InPlace
  <2>2. PeerKept(<< >>, file[c])
    BY EmptySeq DEF PeerKept
  <2> QED BY <2>1, <2>2, FileIsKept
<1>4. ASSUME ShowsOn(c), UNCHANGED file PROVE PeerKept(mem'[c], file'[c])
  <2>1. mem'[c] \in {mem[c], file[c], << >>}
    BY <1>4 DEF ShowsOn
  <2> QED BY <1>2, <1>3, <1>4, <2>1
<1>5. CASE RouterStep
  BY <1>1, <1>4, <1>5, RouterStepTyped DEF ShowsOn, Silent
<1>6. CASE Restart \/ \E d \in Chats : Open(d) \/ CloseChat(d) \/ Forget(d)
  BY <1>1, <1>4, <1>6, ChatsStep DEF Silent
<1>7. CASE UNCHANGED chatVars
  BY <1>4, <1>7 DEF ShowsOn, chatVars, screen
<1>8. ASSUME NEW m \in Messages, Publish(m) PROVE PeerKept(mem'[c], file'[c])
  BY <1>1, <1>4, <1>8, PublishStep
<1>9. ASSUME NEW m \in Messages, Send(m) PROVE PeerKept(mem'[c], file'[c])
  <2>1. /\ m.by = "self" /\ open[m.chat] = "open" /\ UNCHANGED open
        /\ mem' = [mem EXCEPT ![m.chat] = Append(@, Line(m)')]
    BY <1>9 DEF Send
  <2>2. PICK line : line = Line(m)'
    OBVIOUS
  <2>3. line.by = "self"
    BY <2>1, <2>2 DEF Line
  <2>4. file'[c] \in Seq(Lines) /\ mem[c] \in Seq(Lines)
    BY <1>1 DEF ChatTyped
  <2>5. PeerKept(mem[c], file'[c])
    <3>1. Grows(file[c], file'[c], Filed(c)', Late(c)) /\ PeerKept(mem[c], file[c])
      <4>1. file[c] \in Seq(Lines)
        BY <1>1 DEF ChatTyped
      <4> QED BY <1>1, <1>2, <2>4, <4>1, GoesOnGrows DEF StepGrows
    <3> DEFINE f == file[c]
               g == file'[c]
               W == Filed(c)'
               L == Late(c)
               s == mem[c]
    <3>2. Grows(f, g, W, L) /\ PeerKept(s, f) /\ g \in Seq(Lines)
      BY <2>4, <3>1
    <3> HIDE DEF f, g, W, L, s
    <3>3. PeerKept(s, g)
      BY <3>2, PeerKeptGrows
    <3> QED BY <3>3 DEF s, g
  <2>6. mem'[c] \in {mem[c], Append(mem[c], line)}
    BY <1>1, <2>1, <2>2 DEF ChatTyped
  <2>7. ASSUME NEW j \in DOMAIN Append(mem[c], line), Append(mem[c], line)[j].by = "peer"
        PROVE  j \in DOMAIN mem[c] /\ Append(mem[c], line)[j] = mem[c][j]
    BY <2>3, <2>4, <2>7
  <2> QED BY <2>5, <2>6, <2>7 DEF PeerKept
<1>10. CASE ApplyUpdate
  BY <1>10, UpdateAccounts
<1>11. CASE ChatNext
  BY <1>5, <1>6, <1>8, <1>9, <1>10, <1>11 DEF ChatNext, RouterStep
<1> QED BY <1>7, <1>11

LEMMA KeptStart == NamesAreClear /\ ChatInit => KeptInv
<1> SUFFICES ASSUME NamesAreClear, ChatInit PROVE KeptInv
  OBVIOUS
<1>1. ChatInv
  BY ChatStart
<1>2. /\ mem = file /\ ids = [c \in Chats |-> {}] /\ cmds = track_startup_chats(OpenChats, seen)
      /\ pc = "idle" /\ targets = << >> /\ pending_hydration = << >> /\ outer = << >>
      /\ inner = [c \in Chats |-> {}]
  BY DEF ChatInit
<1>3. IsCmds(cmds, Chats)
  <2>1. OpenChats \subseteq Chats
    BY DEF OpenChats
  <2> QED BY <1>2, <2>1, StartTracks
<1>4. DOMAIN targets = {} /\ targets = [c \in DOMAIN targets |-> targets[c]]
  BY <1>2
<1>5. RouterTyped
  <2>1. outer \in Seq({m.id : m \in relay}) /\ pending_hydration \in Seq(Chats)
    BY <1>2, EmptySeq
  <2> QED BY <1>2, <1>3, <1>4, <2>1 DEF RouterTyped
<1>6. ASSUME NEW c \in Chats PROVE PeerKept(mem[c], file[c])
  <2>1. Recorded(file[c], Told(c))
    BY <1>1, PaneKept DEF ChatInv, InPlace
  <2> QED BY <1>2, <2>1, FileIsKept
<1>7. ASSUME NEW m \in Theirs PROVE Accounted(m)
  BY <1>2, <1>4, TheirLines DEF Accounted, Due
<1> QED BY <1>4, <1>5, <1>6, <1>7 DEF KeptInv, AllHeard

LEMMA KeptStep ==
  ASSUME NamesAreClear, OwnLinesDiffer', ChatInv, KeptInv, [ChatNext]_chatVars
  PROVE  ChatInv' /\ KeptInv'
<1>1. ChatInv' /\ StepGrows /\ Ready
  BY ChatStep DEF Ready
<1>2. AllAccounted'
  <2>1. CASE RestingStep
    BY <1>1, <2>1, RestingStepAccounts
  <2>2. CASE \E m \in Messages : Publish(m)
    BY <1>1, <2>2, PublishAccounts
  <2>3. CASE Respawn \/ Restart
    BY <1>1, <2>3, RebornAccounts
  <2>4. CASE ApplyCmds
    BY <1>1, <2>4, CmdsAccount
  <2>5. CASE Subscribe \/ SubscribeFails
    BY <1>1, <2>5, SubscribeAccounts
  <2>6. CASE Hydrate
    BY <1>1, <2>6, HydrateAccounts
  <2>7. CASE Skip \/ IgnoreNote \/ TurnAway \/ ReadNote
    BY <1>1, <2>7, NotesAccount
  <2>8. CASE ApplyUpdate
    BY <1>1, <2>8, UpdateAccounts
  <2> QED BY <2>1, <2>2, <2>3, <2>4, <2>5, <2>6, <2>7, <2>8 DEF ChatNext, RestingStep
<1>3. \A c \in Chats : PeerKept(mem'[c], file'[c])
  BY <1>1, ScreenKept
<1> QED BY <1>1, <1>2, <1>3 DEF KeptInv, AllAccounted, PeerKept, Has, SameMessage, FileForm

LEMMA KeptLosesNothing == ChatInv /\ KeptInv => ChatLosesNothing
<1> SUFFICES ASSUME ChatInv, KeptInv, Quiet, NEW m \in relay, m \notin lost, m.by = "peer",
                    Due(m)
             PROVE  InFile(m)
  BY DEF ChatLosesNothing, Due
<1>1. m \in Theirs
  BY DEF ChatInv, ChatTyped, Theirs
<1>2. Passed(m) \/ ToFetch(m) \/ ToRead(m)
  BY <1>1 DEF KeptInv, Accounted
<1>3. ~InUpdates(m) /\ ~ToFetch(m) /\ ~ToRead(m)
  <2>1. updates = << >> /\ notes = << >> /\ pending_hydration = << >>
    BY DEF Quiet, KeptInv, RouterTyped
  <2> QED BY <2>1 DEF InUpdates, ToFetch, ToRead, Range
<1> QED BY <1>2, <1>3 DEF Passed

\* ChatLosesNothing: once the router and the interface have nothing left to do, each
\* message of the other party that the relays hold and that is due stands in the
\* transcript, but for those a counted failure took: no interleaving of subscription,
\* history, respawn, restart and redelivery drops one, for any messages and bounds.
\* (util/chat_listener.rs:571-681)
THEOREM NothingIsLost ==
  ASSUME NamesAreClear
  PROVE  ChatSpec /\ []OwnLinesDiffer => []ChatLosesNothing
<1>1. ChatInit => ChatInv /\ KeptInv
  BY ChatStart, KeptStart
<1>2. ChatInv /\ KeptInv /\ [ChatNext]_chatVars /\ OwnLinesDiffer' => ChatInv' /\ KeptInv'
  BY KeptStep
<1>3. ChatInv /\ KeptInv => ChatLosesNothing
  BY KeptLosesNothing
<1> QED BY <1>1, <1>2, <1>3, PTL DEF ChatSpec
===========================================================================
