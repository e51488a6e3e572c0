--------------------------- MODULE OrderEntryProofs ---------------------------
(***************************************************************************)
(* What is shown of an order is what is sent, and a draft is neither lost  *)
(* nor doubled, for every text that can be typed, every instance of Mostro *)
(* and any number of requests in flight.                                   *)
(***************************************************************************)
EXTENDS OrderEntry, TLAPS

Texts == Int \cup {Blank, Junk, Word}

Forms ==
  [kind : {"buy", "sell"}, code : Codes \cup {Half, Blank}, range : BOOLEAN,
   picker : BOOLEAN, text : [TextFields -> Texts]]

Takes == [order : Orders, input : TakeTexts \cup {Blank}, error : BOOLEAN]

\* The form and the take are there while a mode shows them.
EntryTyped ==
  /\ mode \in Modes /\ tab \in Tabs /\ accepted \subseteq Codes
  /\ form \in Forms \cup {NoForm} /\ draft \in Forms \cup {NoForm}
  /\ mode \in FormModes => form \in Forms
  /\ mode \in TakeModes => take \in Takes

\* The form that was sent is kept until its wait ends.
SentIsKept == mode = "WaitingForMostro" => draft = form

\* The error on the screen is the one of the amount typed; none is confirmed.
ErrorIsShown ==
  /\ mode \in TakeModes => take.error = validate_range_amount(take)
  /\ mode = "WaitingTakeOrder" => MayTake(take)

EntryInv == EntryTyped /\ OneVersion /\ SentIsKept /\ ErrorIsShown

LEMMA NewFormTyped == new_default_form \in Forms
<1>1. "USD" \in Codes
  BY TextsAssumption
<1>2. [f \in TextFields |->
         CASE f = "ExpirationDays" -> 1
           [] f \in {"AmountSats", "Premium"} -> 0
           [] OTHER -> Blank] \in [TextFields -> Texts]
  BY DEF Texts
<1> QED BY <1>1, <1>2 DEF new_default_form, Forms

\* Resting on a tab opens the form put aside, or puts it aside.
LEMMA RestKeeps ==
  ASSUME NEW kept \in Forms \cup {NoForm}, tab' \in Tabs, accepted' \subseteq Codes, Rest(kept)
  PROVE  EntryInv'
<1>1. CASE tab' = "CreateNewOrder"
  BY <1>1, NewFormTyped
     DEF Rest, Holds, EntryInv, EntryTyped, OneVersion, SentIsKept, ErrorIsShown, Modes, FormModes,
         TakeModes
<1>2. CASE tab' # "CreateNewOrder"
  BY <1>2 DEF Rest, Holds, EntryInv, EntryTyped, OneVersion, SentIsKept, ErrorIsShown, Modes,
              FormModes, TakeModes
<1> QED BY <1>1, <1>2

\* A popup over everything.
LEMMA CoverKeeps ==
  ASSUME NEW m \in InvoicePopups \cup Results \cup {"WaitingPopup"}, Cover(m),
         draft' \in Forms \cup {NoForm}, tab' \in Tabs, accepted' \subseteq Codes
  PROVE  EntryInv'
<1>1. mode' = m /\ form' = NoForm
  BY DEF Cover, Holds
<1>2. m \in Modes /\ m \notin FormModes /\ m \notin TakeModes
  BY DEF Modes, InvoicePopups, Results, FormModes, TakeModes
<1> QED BY <1>1, <1>2 DEF EntryInv, EntryTyped, OneVersion, SentIsKept, ErrorIsShown, FormModes,
                          TakeModes

LEMMA FormKeysKeep ==
  ASSUME EntryInv,
         \/ TypeText \/ ToggleKind \/ ToggleRange \/ OpenCurrencyPicker \/ EraseCode \/ PickCurrency
  PROVE  EntryInv'
<1>1. /\ tab \in Tabs /\ accepted \subseteq Codes /\ mode = "CreatingOrder"
      /\ draft = NoForm /\ form \in Forms
  BY DEF EntryInv, EntryTyped, OneVersion, TypeText, ToggleKind, ToggleRange, OpenCurrencyPicker,
     EraseCode, PickCurrency, FormModes
<1>2. ASSUME NEW f \in Forms, Edit(f) PROVE EntryInv'
  BY <1>1, <1>2 DEF Edit, EntryInv, EntryTyped, OneVersion, SentIsKept, ErrorIsShown, TakeModes
<1>3. CASE TypeText
  <2>0. PICK f \in TextFields :
          \E text \in FormTexts[f] : Edit([form EXCEPT !.text[f] = text])
    BY <1>3 DEF TypeText
  <2>1. PICK text \in FormTexts[f] : Edit([form EXCEPT !.text[f] = text])
    BY <2>0
  <2>2. text \in Texts
    BY TextsAssumption DEF Texts
  <2>3. [form EXCEPT !.text[f] = text] \in Forms
    BY <1>1, <2>2 DEF Forms
  <2> QED BY <1>2, <2>1, <2>3
<1>4. CASE ToggleKind \/ ToggleRange \/ OpenCurrencyPicker
  <2>1. /\ [form EXCEPT !.kind = IF @ = "buy" THEN "sell" ELSE "buy"] \in Forms
        /\ [form EXCEPT !.range = ~@] \in Forms
        /\ [form EXCEPT !.picker = TRUE] \in Forms
    BY <1>1 DEF Forms
  <2> QED BY <1>2, <1>4, <2>1 DEF ToggleKind, ToggleRange, OpenCurrencyPicker
<1>5. CASE EraseCode
  <2>1. [form EXCEPT !.code = IF @ \in Codes THEN Half ELSE Blank] \in Forms
    BY <1>1 DEF Forms
  <2> QED BY <1>2, <1>5, <2>1 DEF EraseCode
<1>6. CASE PickCurrency
  <2>1. PICK code \in {form.code} \cup resolve_options(accepted) :
          Edit([form EXCEPT !.code = code, !.picker = FALSE])
    BY <1>6 DEF PickCurrency
  <2>2. code \in Codes \cup {Half, Blank}
    BY <1>1 DEF resolve_options, Forms
  <2>3. [form EXCEPT !.code = code, !.picker = FALSE] \in Forms
    BY <1>1, <2>2 DEF Forms
  <2> QED BY <1>2, <2>1, <2>3
<1> QED BY <1>3, <1>4, <1>5, <1>6

LEMMA ConfirmKeysKeep ==
  ASSUME EntryInv, handle_enter_creating_order \/ ConfirmOrder \/ BackToForm
  PROVE  EntryInv'
<1>1. /\ tab' \in Tabs /\ accepted' \subseteq Codes /\ form' = form /\ form \in Forms
      /\ draft = NoForm /\ mode \notin TakeModes
  BY DEF EntryInv, EntryTyped, OneVersion, handle_enter_creating_order, ConfirmOrder, BackToForm,
     FormModes, TakeModes
<1>2. \/ mode' = "WaitingForMostro" /\ draft' = form
      \/ mode' \in {"CreatingOrder", "ConfirmingOrder"} /\ draft' = draft
  BY DEF handle_enter_creating_order, ConfirmOrder, BackToForm
<1> QED BY <1>1, <1>2 DEF EntryInv, EntryTyped, OneVersion, SentIsKept, ErrorIsShown, Modes,
                          FormModes, TakeModes

\* Every character is validated, and only an amount without an error confirmed.
LEMMA TakeKeysKeep ==
  ASSUME EntryInv, OpenTake \/ TypeAmount \/ execute_take_order_action
  PROVE  EntryInv'
<1>1. /\ tab' \in Tabs /\ accepted' \subseteq Codes /\ draft' = draft
      /\ draft \in Forms \cup {NoForm}
  BY DEF EntryInv, EntryTyped, OpenTake, TypeAmount, execute_take_order_action
<1>2. ASSUME mode' \in TakeModes, form' \in Forms \cup {NoForm}, take' \in Takes, ErrorIsShown'
      PROVE  EntryInv'
  BY <1>1, <1>2 DEF EntryInv, EntryTyped, OneVersion, SentIsKept, Modes, FormModes, TakeModes
<1>3. CASE OpenTake
  <2>1. PICK o \in Orders :
          Holds("TakingOrder", NoForm, [order |-> o, input |-> Blank, error |-> FALSE])
    BY <1>3 DEF OpenTake
  <2>2. take' = [order |-> o, input |-> Blank, error |-> FALSE] /\ mode' = "TakingOrder"
        /\ form' = NoForm
    BY <2>1 DEF Holds
  <2>3. take' \in Takes
    BY <2>2 DEF Takes
  <2>4. ErrorIsShown'
    BY <2>2 DEF ErrorIsShown, validate_range_amount
  <2> QED BY <1>2, <2>2, <2>3, <2>4 DEF TakeModes
<1>4. CASE TypeAmount
  <2>1. PICK text \in TakeTexts :
          take' = [[take EXCEPT !.input = text]
                     EXCEPT !.error = validate_range_amount([take EXCEPT !.input = text])]
    BY <1>4 DEF TypeAmount
  <2>2. mode = "TakingOrder" /\ mode' = mode /\ form' = form
    BY <1>4 DEF TypeAmount
  <2>3. take \in Takes /\ form \in Forms \cup {NoForm}
    BY <2>2 DEF EntryInv, EntryTyped, TakeModes
  <2> DEFINE typed == [take EXCEPT !.input = text]
  <2>4. /\ typed \in Takes /\ typed.order = take.order /\ typed.input = text
        /\ validate_range_amount(typed) \in BOOLEAN
    BY <2>3 DEF Takes, validate_range_amount, Below, Above
  <2>5. take' \in Takes /\ take'.order = typed.order /\ take'.input = typed.input
        /\ take'.error = validate_range_amount(typed)
    BY <2>1, <2>4 DEF Takes
  <2>6. validate_range_amount(take') = validate_range_amount(typed)
    BY <2>5 DEF validate_range_amount, Below, Above
  <2> QED BY <1>2, <2>2, <2>3, <2>5, <2>6 DEF ErrorIsShown, TakeModes
<1>5. CASE execute_take_order_action
  <2>1. mode' = "WaitingTakeOrder" /\ UNCHANGED <<form, take>> /\ MayTake(take)
        /\ mode = "TakingOrder"
    BY <1>5 DEF execute_take_order_action
  <2>2. take \in Takes /\ form \in Forms \cup {NoForm} /\ take.error = validate_range_amount(take)
    BY <2>1 DEF EntryInv, EntryTyped, ErrorIsShown, TakeModes
  <2> QED BY <1>2, <2>1, <2>2 DEF ErrorIsShown, TakeModes
<1> QED BY <1>3, <1>4, <1>5

\* The form kept when a result comes is a form, or none.
LEMMA DraftAfterTyped ==
  ASSUME EntryInv, NEW result
  PROVE  DraftAfter(result) \in Forms \cup {NoForm}
  BY DEF EntryInv, EntryTyped, DraftAfter

LEMMA ResultKeeps ==
  ASSUME EntryInv, NEW result \in Results, handle_operation_result(result)
  PROVE  EntryInv'
<1>1. tab' \in Tabs /\ accepted' \subseteq Codes
  BY DEF handle_operation_result, EntryInv, EntryTyped
<1>2. CASE mode \in InvoicePopups
  BY <1>1, <1>2 DEF handle_operation_result, EntryInv, EntryTyped, OneVersion, SentIsKept,
     ErrorIsShown, InvoicePopups, FormModes, TakeModes
<1>3. CASE mode \notin InvoicePopups
  BY <1>1, <1>3, CoverKeeps, DraftAfterTyped DEF handle_operation_result
<1> QED BY <1>2, <1>3

LEMMA AnswersKeep ==
  ASSUME EntryInv,
         \/ \E r \in Requests : Answer(r)
         \/ handle_message_notification \/ OtherResult \/ InfoApplied \/ InfoRefreshed
  PROVE  EntryInv'
<1>1. tab \in Tabs /\ accepted \subseteq Codes /\ draft \in Forms \cup {NoForm}
  BY DEF EntryInv, EntryTyped
<1>2. PaymentRequestRequired => EntryInv'
  BY <1>1, CoverKeeps, DraftAfterTyped DEF PaymentRequestRequired, InvoicePopups
<1>3. ASSUME NEW r \in Requests, Answer(r) PROVE EntryInv'
  <2>1. CASE handle_operation_result("Error") \/ handle_operation_result("Success")
    BY <2>1, ResultKeeps DEF Results
  <2>2. CASE \E m \in {"AddInvoice", "WaitingPopup"} : Cover(m) /\ UNCHANGED <<tab, draft, stash, accepted>>
    BY <1>1, <2>2, CoverKeeps DEF InvoicePopups
  <2> QED BY <1>2, <1>3, <2>1, <2>2 DEF Answer
<1>4. CASE handle_message_notification
  BY <1>1, <1>4, CoverKeeps DEF handle_message_notification, InvoicePopups
<1>5. CASE OtherResult
  BY <1>5, ResultKeeps DEF OtherResult, Results
<1>6. CASE InfoApplied
  <2>1. accepted' \subseteq Codes
    BY <1>6, TextsAssumption DEF InfoApplied
  <2> QED BY <1>6, <2>1 DEF InfoApplied, EntryInv, EntryTyped, OneVersion, SentIsKept, ErrorIsShown
<1>7. CASE InfoRefreshed
  <2>1. accepted' \subseteq Codes /\ tab' \in Tabs /\ draft' \in Forms \cup {NoForm}
    BY <1>1, <1>7, TextsAssumption DEF InfoRefreshed
  <2> QED BY <1>7, <2>1, CoverKeeps DEF InfoRefreshed, Results
<1> QED BY <1>3, <1>4, <1>5, <1>6, <1>7

LEMMA TabsKeep ==
  ASSUME EntryInv, DiscardForm \/ SwitchTab \/ DeclineTake \/ ClosePopup \/ CloseResult
  PROVE  EntryInv'
<1>1. /\ tab' \in Tabs /\ accepted' \subseteq Codes
      /\ form \in Forms \cup {NoForm} /\ draft \in Forms \cup {NoForm}
  BY DEF EntryInv, EntryTyped, DiscardForm, SwitchTab, DeclineTake, ClosePopup, CloseResult, Tabs
<1>2. CASE DiscardForm
  BY <1>1, <1>2, RestKeeps DEF DiscardForm
<1>3. CASE SwitchTab
  BY <1>1, <1>3, RestKeeps DEF SwitchTab
<1>4. CASE DeclineTake
  BY <1>1, <1>4, RestKeeps DEF DeclineTake
<1>5. CASE ClosePopup
  BY <1>1, <1>5, RestKeeps, CoverKeeps DEF ClosePopup, Results
<1>6. CASE CloseResult
  BY <1>1, <1>6, RestKeeps DEF CloseResult
<1> QED BY <1>2, <1>3, <1>4, <1>5, <1>6

LEMMA EntryStep == ASSUME EntryInv, [Next]_vars PROVE EntryInv'
<1>1. CASE UNCHANGED vars
  BY <1>1 DEF vars, EntryInv, EntryTyped, OneVersion, SentIsKept, ErrorIsShown
<1> QED BY <1>1, FormKeysKeep, ConfirmKeysKeep, TakeKeysKeep, AnswersKeep, TabsKeep DEF Next

\* The form, its draft and the error of a take are in order in every state of the
\* program.
THEOREM EntryInvariant == Spec => []EntryInv
<1>1. Init => EntryInv
  BY DEF Init, EntryInv, EntryTyped, OneVersion, SentIsKept, ErrorIsShown, Modes, Tabs, FormModes,
     TakeModes
<1>2. EntryInv /\ [Next]_vars => EntryInv'
  BY EntryStep
<1> QED BY <1>1, <1>2, PTL DEF Spec

\* A form being edited is the only version of it, whatever popups came and went.
THEOREM FormHasOneVersion == Spec => []OneVersion
<1>1. EntryInv => OneVersion
  BY DEF EntryInv
<1> QED BY <1>1, EntryInvariant, PTL

-----------------------------------------------------------------------------

\* The check of the whole form and the glyphs of its fields are the same.
LEMMA ReadyIsNoRedField ==
  ASSUME NEW f, NEW info
  PROVE  validate(f, info) <=> \A field \in FormFields : field_status(f, field, info) # "bad"
<1> DEFINE t == f.text
<1>1. field_status(f, "OrderType", info) # "bad"
  BY DEF field_status
<1>2. field_status(f, "Currency", info) # "bad" <=> accepts(info, f.code)
  BY DEF field_status
<1>3. field_status(f, "AmountSats", info) # "bad" <=>
        t["AmountSats"] = Blank \/ (Parses(t["AmountSats"]) /\ t["AmountSats"] >= 0)
  BY DEF field_status
<1>4. field_status(f, "FiatAmount", info) # "bad" <=>
        Parses(t["FiatAmount"]) /\ t["FiatAmount"] > 0
  BY DEF field_status
<1>5. field_status(f, "FiatAmountMax", info) # "bad" <=>
        (f.range => /\ Parses(t["FiatAmount"]) /\ Parses(t["FiatAmountMax"])
                    /\ t["FiatAmountMax"] > t["FiatAmount"])
  BY DEF field_status
<1>6. field_status(f, "PaymentMethod", info) # "bad" <=> t["PaymentMethod"] # Blank
  BY DEF field_status
<1>7. field_status(f, "Premium", info) # "bad" <=> t["Premium"] = Blank \/ Parses(t["Premium"])
  BY DEF field_status
<1>8. field_status(f, "ExpirationDays", info) # "bad" <=>
        Parses(t["ExpirationDays"]) /\ t["ExpirationDays"] >= 1
  BY DEF field_status
<1>9. FormFields = {"OrderType", "Currency", "AmountSats", "FiatAmount", "FiatAmountMax",
                    "PaymentMethod", "Premium", "ExpirationDays"}
  BY DEF FormFields, TextFields
<1> QED BY <1>1, <1>2, <1>3, <1>4, <1>5, <1>6, <1>7, <1>8, <1>9 DEF validate

\* What every reader of a form that is ready makes of it.
LEMMA ReadyReadsAsShown ==
  ASSUME NEW f \in Forms, NEW info, validate(f, info)
  PROVE  LET sent == send_new_order(f) IN
         /\ build_rows(f) = sent /\ sent.days > 0
         /\ \A shown \in {build_preview_lines(f), render_order_confirm(f)} :
              IF f.text["Premium"] = Blank
              THEN [shown EXCEPT !.premium = sent.premium] = sent ELSE shown = sent
<1> DEFINE t == f.text
           sent == send_new_order(f)
           rows == build_rows(f)
           AsSent(shown) == IF t["Premium"] = Blank
                            THEN [shown EXCEPT !.premium = sent.premium] = sent ELSE shown = sent
<1>1. Blank \notin Int /\ Junk \notin Int /\ Word \notin Int
  BY TextsAssumption
<1>2. /\ f.code # Blank
      /\ t["AmountSats"] = Blank \/ t["AmountSats"] \in Int
      /\ t["FiatAmount"] \in Int
      /\ f.range => t["FiatAmountMax"] \in Int
      /\ t["Premium"] = Blank \/ t["Premium"] \in Int
      /\ t["ExpirationDays"] \in Int /\ t["ExpirationDays"] >= 1
  BY DEF validate, accepts, Parses
<1>3. /\ ZeroIfBlank(t["AmountSats"]) = parse_or_zero(t["AmountSats"])
      /\ ZeroIfBlank(t["Premium"]) = parse_or_zero(t["Premium"])
      /\ parse_or_zero(t["FiatAmount"]) = t["FiatAmount"]
      /\ f.range => parse_or_zero(t["FiatAmountMax"]) = t["FiatAmountMax"] /\ t["FiatAmountMax"] # Blank
      /\ parse_or_zero(t["ExpirationDays"]) = t["ExpirationDays"]
      /\ t["ExpirationDays"] # Blank
  BY <1>1, <1>2 DEF ZeroIfBlank, parse_or_zero, Parses
<1>4. rows = sent
  BY <1>2, <1>3 DEF build_rows, send_new_order
<1>5. sent.days = t["ExpirationDays"] /\ sent.days \in Int /\ sent.days > 0
  BY <1>2, <1>3 DEF send_new_order
\* The confirmation and the preview differ from the details in the premium alone.
<1>6. /\ render_order_confirm(f) = [sent EXCEPT !.premium = t["Premium"]]
      /\ t["Premium"] # Blank => sent.premium = t["Premium"]
  BY <1>1, <1>2, <1>3 DEF render_order_confirm, send_new_order, parse_or_zero, Parses
<1> DEFINE shown == IF Parses(t["Premium"]) THEN rows.premium ELSE Junk
<1>7. build_preview_lines(f) = [rows EXCEPT !.premium = shown]
  <2>1. Parses(t["ExpirationDays"]) /\ rows.days > 0
    BY <1>2, <1>4, <1>5 DEF Parses
  <2>2. build_preview_lines(f) = [rows EXCEPT !.premium = shown, !.days = rows.days]
    BY <2>1 DEF build_preview_lines
  <2>3. rows = [kind |-> rows.kind, code |-> rows.code, amount |-> rows.amount,
                fiat |-> rows.fiat, min |-> rows.min, max |-> rows.max, method |-> rows.method,
                premium |-> rows.premium, days |-> rows.days]
    BY DEF build_rows
  <2> HIDE DEF rows, shown
  <2> QED BY <2>2, <2>3
<1>8. t["Premium"] # Blank => shown = sent.premium
  BY <1>2, <1>4 DEF Parses
<1>9. ASSUME NEW p, t["Premium"] # Blank => p = sent.premium
      PROVE  AsSent([sent EXCEPT !.premium = p])
  <2>1. /\ [sent EXCEPT !.premium = sent.premium] = sent
        /\ [[sent EXCEPT !.premium = p] EXCEPT !.premium = sent.premium] = sent
    BY DEF send_new_order
  <2> HIDE DEF sent
  <2> QED BY <1>9, <2>1
<1>10. AsSent(render_order_confirm(f))
  BY <1>6, <1>9
<1>11. AsSent(build_preview_lines(f))
  BY <1>4, <1>7, <1>8, <1>9
<1> QED BY <1>4, <1>5, <1>10, <1>11

\* For every form that can come about: it is called ready exactly when no field is
\* red, and then goes out as every screen showed it, but for a blank premium, which
\* preview and confirmation show as none, and which goes out as a zero.
THEOREM ReadyGoesOutAsShown == Spec => []ReadyIsSentAsShown
<1>1. EntryInv => ReadyIsSentAsShown
  <2>1. ASSUME EntryInv, form # NoForm PROVE form \in Forms
    BY <2>1 DEF EntryInv, EntryTyped
  <2> QED BY <2>1, ReadyIsNoRedField, ReadyReadsAsShown DEF ReadyIsSentAsShown
<1> QED BY <1>1, EntryInvariant, PTL

\* A form put aside stays what it was, until it is edited again or its wait ends.
THEOREM DraftsAreKept == Spec => DraftIsKept
<1> DEFINE Kept ==
      draft # NoForm =>
        \/ draft' = draft
        \/ mode' = "CreatingOrder" /\ form' = draft
        \/ mode = "WaitingForMostro" /\ mode' \in {"Success", "PaymentRequest"}
<1>1. ASSUME EntryInv, Next, draft # NoForm PROVE Kept
  <2>1. mode \notin {"CreatingOrder", "ConfirmingOrder"} /\ (mode = "WaitingForMostro" => draft = form)
    BY <1>1 DEF EntryInv, OneVersion, SentIsKept
  <2>2. Rest(draft) => Kept
    BY <1>1 DEF Rest, Holds
  <2>3. CASE \/ TypeText \/ ToggleKind \/ ToggleRange \/ OpenCurrencyPicker \/ EraseCode
             \/ PickCurrency \/ handle_enter_creating_order \/ DiscardForm \/ ConfirmOrder
             \/ BackToForm
    BY <2>1, <2>3 DEF TypeText, ToggleKind, ToggleRange, OpenCurrencyPicker, EraseCode,
       PickCurrency, handle_enter_creating_order, DiscardForm, ConfirmOrder, BackToForm
  <2>4. CASE SwitchTab \/ DeclineTake \/ ClosePopup \/ CloseResult
    BY <2>1, <2>2, <2>4 DEF SwitchTab, DeclineTake, ClosePopup, CloseResult
  <2>5. CASE \/ OpenTake \/ TypeAmount \/ execute_take_order_action
             \/ handle_message_notification \/ InfoApplied \/ InfoRefreshed
    BY <2>5 DEF OpenTake, TypeAmount, execute_take_order_action, handle_message_notification,
       InfoApplied, InfoRefreshed
  <2>6. ASSUME NEW result, handle_operation_result(result) PROVE Kept
    BY <2>1, <2>6 DEF handle_operation_result, DraftAfter, Cover, Holds
  <2>7. PaymentRequestRequired => Kept
    BY <2>1 DEF PaymentRequestRequired, DraftAfter, Cover, Holds
  <2>8. CASE OtherResult
    BY <2>6, <2>8 DEF OtherResult
  <2>9. ASSUME NEW r \in Requests, Answer(r) PROVE Kept
    BY <2>6, <2>7, <2>9 DEF Answer
  <2> QED BY <1>1, <2>3, <2>4, <2>5, <2>8, <2>9 DEF Next
<1>2. EntryInv /\ [Next]_vars => [Kept]_vars
  BY <1>1
<1> QED BY <1>2, EntryInvariant, PTL DEF Spec, DraftIsKept

\* The amount of a range order is sent when its box is green, and lies in the range.
THEOREM TakesAreWithinRange == Spec => []TakenWithinRange
<1>1. EntryInv => TakenWithinRange
  <2> SUFFICES ASSUME EntryInv PROVE TakenWithinRange
    OBVIOUS
  <2>1. ASSUME mode = "TakingOrder", is_range_order(take.order)
        PROVE  MayTake(take) <=> BoxColor(take) = "green"
    BY <2>1 DEF MayTake, BoxColor
  <2>2. ASSUME mode = "WaitingTakeOrder", AmountTaken(take) # NoLimit
        PROVE  /\ take.order.min # NoLimit => AmountTaken(take) >= take.order.min
               /\ take.order.max # NoLimit => AmountTaken(take) <= take.order.max
    <3>1. take \in Takes /\ ~take.error /\ take.error = validate_range_amount(take)
          /\ is_range_order(take.order)
      BY <2>2 DEF EntryInv, EntryTyped, ErrorIsShown, MayTake, AmountTaken, TakeModes
    <3>2. take.order \in Orders /\ take.input \in TakeTexts \ {Blank, Junk} /\ take.input.whole
          /\ AmountTaken(take) = take.input.halves \div 2
      BY <2>2, <3>1 DEF Takes, AmountTaken
    <3>3. take.input.halves \in Int /\ take.input.halves % 2 = 0
          /\ take.order.min \in Int \cup {NoLimit} /\ take.order.max \in Int \cup {NoLimit}
      BY <3>2, OrdersAssumption
    <3>4. ~Below(take.input, take.order) /\ ~Above(take.input, take.order)
      BY <3>1, <3>2 DEF validate_range_amount
    <3>5. /\ take.order.min # NoLimit => take.input.halves >= 2 * take.order.min
          /\ take.order.max # NoLimit => take.input.halves <= 2 * take.order.max
      BY <3>3, <3>4 DEF Below, Above
    <3> DEFINE h == take.input.halves
    <3>6. \A n \in Int : (h >= 2 * n => h \div 2 >= n) /\ (h <= 2 * n => h \div 2 <= n)
      BY <3>3
    <3> QED BY <3>2, <3>3, <3>5, <3>6
  <2> QED BY <2>1, <2>2 DEF TakenWithinRange
<1> QED BY <1>1, EntryInvariant, PTL
===============================================================================
