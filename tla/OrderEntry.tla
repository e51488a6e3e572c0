----------------------------- MODULE OrderEntry -----------------------------
(***************************************************************************)
(* What the user asks Mostro for: a new order, typed into the form of the  *)
(* Create New Order tab, or an order of the book, taken with an amount.    *)
(*                                                                         *)
(* The same form is read by six pieces of code: field_status marks its     *)
(* fields, validate calls it ready, the details, the preview and the       *)
(* confirmation show it, and send_new_order parses it once more.  Only the *)
(* last one decides what is published, and nothing stops an order that is  *)
(* not ready from being confirmed.                                         *)
(*                                                                         *)
(* The form lives in the mode, in order_form_draft, or in both; every      *)
(* popup and every result replaces the mode.  Texts are what their parsers *)
(* make of them: a number, nothing, or neither.  The buyer's invoice of a  *)
(* new order is passed on as it is and left out; so are the kind of an     *)
(* order taken and the field that has the focus.  Module Terminal has the  *)
(* modes of the other tabs.                                                *)
(***************************************************************************)
EXTENDS Integers

CONSTANTS
  Codes,        \* currency codes a picker can offer
  Half,         \* what a Backspace leaves of a code: no currency
  Blank,        \* a text of spaces, or none
  Junk,         \* a text no parser takes for a number
  Word,         \* a text that is no number and need not be one
  FormTexts,    \* bound: what is typed into each field of the form
  Instances,    \* accepted currencies Mostro may advertise; {} is all of them
  Orders,       \* orders of the book: min and max in fiat, or NoLimit
  NoLimit,
  TakeTexts,    \* bound: amounts typed to take an order
  MaxAsked,     \* bound: requests in flight
  NoForm, NoTake

TextFields == {"AmountSats", "FiatAmount", "FiatAmountMax", "PaymentMethod", "Premium",
               "ExpirationDays"}
FormFields == {"OrderType", "Currency"} \cup TextFields

ASSUME TextsAssumption ==
  /\ Blank \notin Int /\ Junk \notin Int /\ Word \notin Int
  /\ Blank # Junk /\ Blank # Word /\ Blank \notin Codes /\ Half \notin Codes /\ Half # Blank
  /\ "USD" \in Codes
  /\ FormTexts \in [TextFields -> SUBSET (Int \cup {Blank, Junk, Word})]
  /\ \A i \in Instances : i \subseteq Codes
ASSUME OrdersAssumption ==
  /\ NoLimit \notin Int
  /\ \A o \in Orders : o.min \in Int \cup {NoLimit} /\ o.max \in Int \cup {NoLimit}
  /\ \A t \in TakeTexts \ {Blank, Junk} :
       t.halves \in Int /\ (t.whole => t.halves % 2 = 0)
ASSUME MaxAskedAssumption == MaxAsked \in Nat \ {0}

VARIABLES
  mode,      \* app.mode
  tab,       \* app.active_tab
  form,      \* the form the mode holds
  take,      \* the take the mode holds
  draft,     \* app.order_form_draft
  stash,     \* pending_post_take_operation_result holds a result
  accepted,  \* fiat_currencies_accepted of app.mostro_info
  asked      \* tasks in flight

vars == <<mode, tab, form, take, draft, stash, accepted, asked>>

Tabs == {"Orders", "CreateNewOrder", "Settings"}
FormModes == {"CreatingOrder", "ConfirmingOrder", "WaitingForMostro"}
TakeModes == {"TakingOrder", "WaitingTakeOrder"}
InvoicePopups == {"AddInvoice", "PaymentRequest"}
\* OperationResult, told apart by what handle_operation_result matches on.
Results == {"Success", "Error", "Info"}
Modes == FormModes \cup TakeModes \cup InvoicePopups \cup Results \cup
         {"Normal", "WaitingPopup"}
\* A new order that send_new_order refuses by itself, one it sends, a take.
Requests == {"refused", "new", "take"}

-----------------------------------------------------------------------------
(* What a text means.                                                      *)

Parses(text) == text \in Int
parse_or_zero(text) == IF Parses(text) THEN text ELSE 0

new_default_form ==
  [kind |-> "buy", code |-> "USD", range |-> FALSE, picker |-> FALSE,
   text |-> [f \in TextFields |->
               CASE f = "ExpirationDays" -> 1
                 [] f \in {"AmountSats", "Premium"} -> 0
                 [] OTHER -> Blank]]

\* The options of the picker: those of the instance, or the bundled ones.
resolve_options(info) == IF info = {} THEN Codes ELSE info

accepts(info, code) == code # Blank /\ (info = {} \/ code \in info)

\* The glyph beside a field: green, red or none.
field_status(f, field, info) ==
  LET t == f.text IN
  CASE field = "OrderType"      -> "none"
    [] field = "Currency"       -> IF accepts(info, f.code) THEN "ok" ELSE "bad"
    [] field = "AmountSats"     -> IF t[field] = Blank \/ (Parses(t[field]) /\ t[field] >= 0)
                                   THEN "ok" ELSE "bad"
    [] field = "FiatAmount"     -> IF Parses(t[field]) /\ t[field] > 0 THEN "ok" ELSE "bad"
    [] field = "FiatAmountMax"  -> IF ~f.range THEN "none"
                                   ELSE IF /\ Parses(t["FiatAmount"]) /\ Parses(t[field])
                                           /\ t[field] > t["FiatAmount"]
                                        THEN "ok" ELSE "bad"
    [] field = "PaymentMethod"  -> IF t[field] # Blank THEN "ok" ELSE "bad"
    [] field = "Premium"        -> IF t[field] = Blank \/ Parses(t[field]) THEN "ok" ELSE "bad"
    [] field = "ExpirationDays" -> IF Parses(t[field]) /\ t[field] >= 1 THEN "ok" ELSE "bad"

\* Mutated: a range without a maximum is as good as a single amount.
validate_without_max(f, info) ==
  LET t == f.text IN
  /\ accepts(info, f.code)
  /\ t["AmountSats"] = Blank \/ (Parses(t["AmountSats"]) /\ t["AmountSats"] >= 0)
  /\ Parses(t["FiatAmount"]) /\ t["FiatAmount"] > 0
  /\ f.range /\ t["FiatAmountMax"] # Blank =>
       Parses(t["FiatAmountMax"]) /\ t["FiatAmountMax"] > t["FiatAmount"]
  /\ t["PaymentMethod"] # Blank
  /\ t["Premium"] = Blank \/ Parses(t["Premium"])
  /\ Parses(t["ExpirationDays"]) /\ t["ExpirationDays"] >= 1

\* The dot under the preview: ready to submit.
validate(f, info) ==
  LET t == f.text IN
  /\ accepts(info, f.code)
  /\ t["AmountSats"] = Blank \/ (Parses(t["AmountSats"]) /\ t["AmountSats"] >= 0)
  /\ Parses(t["FiatAmount"]) /\ t["FiatAmount"] > 0
  /\ f.range => Parses(t["FiatAmountMax"]) /\ t["FiatAmountMax"] > t["FiatAmount"]
  /\ t["PaymentMethod"] # Blank
  /\ t["Premium"] = Blank \/ Parses(t["Premium"])
  /\ Parses(t["ExpirationDays"]) /\ t["ExpirationDays"] >= 1

\* What is shown of the form.  A blank amount and a zero are the market price, a
\* blank premium is "0 %" in the details, a text is shown as it is.
ZeroIfBlank(text) == IF text = Blank THEN 0 ELSE text

\* The details of the form: a range shows both its fields.
build_rows(f) ==
  LET t == f.text IN
  [kind |-> f.kind, code |-> f.code,
   amount |-> ZeroIfBlank(t["AmountSats"]),
   fiat |-> IF f.range THEN 0 ELSE t["FiatAmount"],
   min |-> IF f.range THEN t["FiatAmount"] ELSE NoLimit,
   max |-> IF f.range THEN t["FiatAmountMax"] ELSE NoLimit,
   method |-> t["PaymentMethod"],
   premium |-> ZeroIfBlank(t["Premium"]),
   days |-> IF t["ExpirationDays"] = Blank THEN 1 ELSE t["ExpirationDays"]]

\* The live preview: a premium that is no number, blank or not, is "?".
build_preview_lines(f) ==
  [build_rows(f) EXCEPT
     !.premium = IF Parses(f.text["Premium"]) THEN @ ELSE Junk,
     !.days = IF Parses(f.text["ExpirationDays"]) /\ @ > 0 THEN @ ELSE Junk]

\* The confirmation: the premium as typed, so that of a blank one only "%" is left.
render_order_confirm(f) ==
  LET t == f.text
      ranged == f.range /\ t["FiatAmountMax"] # Blank
  IN  [kind |-> f.kind, code |-> f.code,
       amount |-> ZeroIfBlank(t["AmountSats"]),
       fiat |-> IF ranged THEN 0 ELSE t["FiatAmount"],
       min |-> IF ranged THEN t["FiatAmount"] ELSE NoLimit,
       max |-> IF ranged THEN t["FiatAmountMax"] ELSE NoLimit,
       method |-> t["PaymentMethod"],
       premium |-> t["Premium"],
       days |-> t["ExpirationDays"]]

\* What send_new_order makes of the form.  A text that is no number is a zero.
send_new_order(f) ==
  LET t == f.text
      ranged == f.range /\ t["FiatAmountMax"] # Blank
  IN  [kind |-> f.kind, code |-> IF f.code = Blank THEN "USD" ELSE f.code,
       amount |-> parse_or_zero(t["AmountSats"]),
       fiat |-> IF ranged THEN 0 ELSE parse_or_zero(t["FiatAmount"]),
       min |-> IF ranged THEN parse_or_zero(t["FiatAmount"]) ELSE NoLimit,
       max |-> IF ranged THEN parse_or_zero(t["FiatAmountMax"]) ELSE NoLimit,
       method |-> t["PaymentMethod"],
       premium |-> parse_or_zero(t["Premium"]),
       days |-> parse_or_zero(t["ExpirationDays"])]

\* No days, and a currency without a market price, are refused before anything
\* is sent; the prices are those of the day.
Refusals(f) ==
  LET sent == send_new_order(f)
  IN  IF sent.days = 0 THEN {TRUE} ELSE IF sent.amount = 0 THEN BOOLEAN ELSE {FALSE}

-----------------------------------------------------------------------------
(* Taking an order: texts are numbers, whole or with a point.              *)

is_range_order(o) == o.min # NoLimit \/ o.max # NoLimit

\* Amounts are counted in halves, so that 3 is the text "1.5".
Below(text, o) == o.min # NoLimit /\ text.halves < 2 * o.min
Above(text, o) == o.max # NoLimit /\ text.halves > 2 * o.max

\* Mutated: out of range only when it is below and above.
validate_range_amount_both(t) ==
  IF t.input = Blank THEN FALSE
  ELSE t.input = Junk \/ (Below(t.input, t.order) /\ Above(t.input, t.order))

\* Whether there is an error to show.
validate_range_amount(t) ==
  IF t.input = Blank THEN FALSE
  ELSE t.input = Junk \/ Below(t.input, t.order) \/ Above(t.input, t.order)

\* The colour of the box the amount is typed into.
BoxColor(t) ==
  IF t.error THEN "red" ELSE IF t.input = Blank THEN "yellow" ELSE "green"

\* The amount sent: a text with a point is no whole number, and none is sent.
AmountTaken(t) ==
  IF is_range_order(t.order) /\ t.input \notin {Blank, Junk} /\ t.input.whole
  THEN t.input.halves \div 2 ELSE NoLimit

-----------------------------------------------------------------------------
(* The mode, after the loop has drawn.                                     *)

Holds(m, f, t) == mode' = m /\ form' = f /\ take' = t

\* Mutated: the draft is copied into the form.
RestOnCopy(kept) ==
  IF tab' = "CreateNewOrder"
  THEN /\ Holds("CreatingOrder", IF kept = NoForm THEN new_default_form ELSE kept, NoTake)
       /\ draft' = kept
  ELSE Holds("Normal", NoForm, NoTake) /\ draft' = kept

\* Resting on the Create New Order tab opens the form: the draft, which is taken
\* out of its place, or a new one.
Rest(kept) ==
  IF tab' = "CreateNewOrder"
  THEN /\ Holds("CreatingOrder", IF kept = NoForm THEN new_default_form ELSE kept, NoTake)
       /\ draft' = NoForm
  ELSE Holds("Normal", NoForm, NoTake) /\ draft' = kept

Cover(m) == Holds(m, NoForm, NoTake)

InFlight == asked["refused"] + asked["new"] + asked["take"]

Ask(r) ==
  /\ InFlight < MaxAsked
  /\ asked' = [asked EXCEPT ![r] = @ + 1]

-----------------------------------------------------------------------------
(* Keys of the form.                                                       *)

Edit(f) ==
  /\ mode = "CreatingOrder"
  /\ form' = f
  /\ UNCHANGED <<mode, tab, take, draft, stash, accepted, asked>>

\* Tab, Down and their reverses, to any field; the maximum is skipped unless
\* there is a range.  Then characters and Backspace, up to what is to be typed.
TypeText ==
  /\ mode = "CreatingOrder" /\ ~form.picker
  /\ \E f \in {g \in TextFields : g = "FiatAmountMax" => form.range} :
       \E text \in FormTexts[f] : Edit([form EXCEPT !.text[f] = text])

\* Space on the fields that are no text.
ToggleKind ==
  /\ mode = "CreatingOrder" /\ ~form.picker
  /\ Edit([form EXCEPT !.kind = IF @ = "buy" THEN "sell" ELSE "buy"])

ToggleRange ==
  /\ mode = "CreatingOrder" /\ ~form.picker
  /\ Edit([form EXCEPT !.range = ~@])

\* Enter, Space and any letter on the currency open its picker; Backspace does
\* not, and takes a letter from the code.
OpenCurrencyPicker ==
  /\ mode = "CreatingOrder" /\ ~form.picker
  /\ Edit([form EXCEPT !.picker = TRUE])

EraseCode ==
  /\ mode = "CreatingOrder" /\ ~form.picker
  /\ Edit([form EXCEPT !.code = IF @ \in Codes THEN Half ELSE Blank])

\* Enter takes the option chosen by filter and arrows, or leaves the code when
\* no option is left; with every currency accepted any code can be typed.
PickCurrency ==
  /\ mode = "CreatingOrder" /\ form.picker
  /\ \E code \in {form.code} \cup resolve_options(accepted) :
       Edit([form EXCEPT !.code = code, !.picker = FALSE])

\* Enter, but on the currency, asks for confirmation, of any form.
handle_enter_creating_order ==
  /\ mode = "CreatingOrder" /\ ~form.picker
  /\ mode' = "ConfirmingOrder"
  /\ UNCHANGED <<tab, form, take, draft, stash, accepted, asked>>

\* Esc forgets the form; the tab opens a new one.
DiscardForm ==
  /\ mode = "CreatingOrder" /\ ~form.picker
  /\ UNCHANGED tab /\ Rest(NoForm)
  /\ UNCHANGED <<stash, accepted, asked>>

ConfirmOrder ==
  /\ mode = "ConfirmingOrder"
  /\ \E refused \in Refusals(form) : Ask(IF refused THEN "refused" ELSE "new")
  /\ mode' = "WaitingForMostro" /\ draft' = form
  /\ UNCHANGED <<tab, form, take, stash, accepted>>

BackToForm ==
  /\ mode = "ConfirmingOrder"
  /\ mode' = "CreatingOrder"
  /\ UNCHANGED <<tab, form, take, draft, stash, accepted, asked>>

\* Left and Right; leaving the form keeps it.
SwitchTab ==
  /\ mode = "Normal" \/ (mode = "CreatingOrder" /\ ~form.picker)
  /\ tab' \in Tabs \ {tab}
  /\ Rest(IF mode = "CreatingOrder" THEN form ELSE draft)
  /\ UNCHANGED <<stash, accepted, asked>>

-----------------------------------------------------------------------------
(* Keys of a take.                                                         *)

OpenTake ==
  /\ mode = "Normal" /\ tab = "Orders"
  /\ \E o \in Orders :
       Holds("TakingOrder", NoForm, [order |-> o, input |-> Blank, error |-> FALSE])
  /\ UNCHANGED <<tab, draft, stash, accepted, asked>>

\* Every character and every Backspace is validated.
TypeAmount ==
  /\ mode = "TakingOrder" /\ is_range_order(take.order)
  /\ \E text \in TakeTexts :
       LET typed == [take EXCEPT !.input = text]
       IN  take' = [typed EXCEPT !.error = validate_range_amount(typed)]
  /\ UNCHANGED <<mode, tab, form, draft, stash, accepted, asked>>

\* A range order needs an amount without an error.
MayTake(t) == is_range_order(t.order) => t.input # Blank /\ ~t.error

\* Enter on YES.
execute_take_order_action ==
  /\ mode = "TakingOrder"
  /\ MayTake(take)
  /\ Ask("take")
  /\ mode' = "WaitingTakeOrder"
  /\ UNCHANGED <<tab, form, take, draft, stash, accepted>>

DeclineTake ==
  /\ mode = "TakingOrder"
  /\ UNCHANGED tab /\ Rest(draft)
  /\ UNCHANGED <<stash, accepted, asked>>

-----------------------------------------------------------------------------
(* What the main loop receives.                                            *)

\* Mutated: an error is a result like any other.
DraftAfter_forgetting(result) ==
  IF mode = "WaitingForMostro" THEN NoForm ELSE draft

\* The form kept when a result comes: only the wait for a new order looks at it.
DraftAfter(result) ==
  CASE mode = "WaitingForMostro" /\ result \in {"Success", "PaymentRequest"} -> NoForm
    [] mode = "WaitingForMostro" /\ result = "Error" -> form
    [] OTHER -> draft

\* A result replaces whatever is shown, whoever asked for it, but a popup that
\* asks for an invoice or a payment: that one stashes it.
handle_operation_result(result) ==
  /\ IF mode \in InvoicePopups
       THEN stash' = TRUE /\ UNCHANGED <<mode, form, take, draft>>
       ELSE Cover(result) /\ draft' = DraftAfter(result) /\ UNCHANGED stash
  /\ UNCHANGED <<tab, accepted>>

\* Mostro asks for a payment first: its invoice is shown in any mode.
PaymentRequestRequired ==
  /\ Cover("PaymentRequest") /\ draft' = DraftAfter("PaymentRequest")
  /\ UNCHANGED <<tab, stash, accepted>>

Answer(r) ==
  /\ asked[r] > 0
  /\ asked' = [asked EXCEPT ![r] = @ - 1]
  /\ \/ handle_operation_result("Error")
     \/ r = "new" /\ handle_operation_result("Success")
     \/ r \in {"new", "take"} /\ PaymentRequestRequired
     \* The reply of a take opens an invoice popup, or the waiting popup.
     \/ /\ r = "take"
        /\ \E m \in {"AddInvoice", "WaitingPopup"} : Cover(m)
        /\ UNCHANGED <<tab, draft, stash, accepted>>

\* A message that calls for an invoice or a payment.
handle_message_notification ==
  /\ \E m \in InvoicePopups : Cover(m)
  /\ UNCHANGED <<tab, draft, stash, accepted, asked>>

\* A result of some other work.
OtherResult ==
  /\ \E result \in {"Info", "Error"} : handle_operation_result(result)
  /\ UNCHANGED asked

\* Enter acknowledges, Esc shows the result that came meanwhile.
ClosePopup ==
  /\ mode \in InvoicePopups \cup {"WaitingPopup"}
  /\ \/ UNCHANGED <<tab, stash>> /\ (mode = "WaitingPopup" => ~stash) /\ Rest(draft)
     \/ stash /\ stash' = FALSE /\ Cover("Info") /\ UNCHANGED <<tab, draft>>
  /\ UNCHANGED <<accepted, asked>>

\* A result goes back to the first tab, or stays in Settings.
CloseResult ==
  /\ mode \in Results
  /\ tab' = IF tab = "Settings" THEN tab ELSE "Orders"
  /\ Rest(draft)
  /\ UNCHANGED <<stash, accepted, asked>>

\* The instance's info is fetched again, or another instance is chosen.
InfoApplied ==
  /\ accepted' \in Instances
  /\ UNCHANGED <<mode, tab, form, take, draft, stash, asked>>

\* What the user asked to fetch is announced over anything, invoices included.
InfoRefreshed ==
  /\ \/ Cover("Info") /\ accepted' \in Instances
     \/ Cover("Error") /\ accepted' = {}
  /\ UNCHANGED <<tab, draft, stash, asked>>

-----------------------------------------------------------------------------
Init ==
  /\ mode = "Normal" /\ tab = "Orders"
  /\ form = NoForm /\ take = NoTake /\ draft = NoForm /\ stash = FALSE
  /\ accepted = {}
  /\ asked = [r \in Requests |-> 0]

Next ==
  \/ TypeText \/ ToggleKind \/ ToggleRange
  \/ OpenCurrencyPicker \/ EraseCode \/ PickCurrency
  \/ handle_enter_creating_order \/ DiscardForm \/ ConfirmOrder \/ BackToForm \/ SwitchTab
  \/ OpenTake \/ TypeAmount \/ execute_take_order_action \/ DeclineTake
  \/ \E r \in Requests : Answer(r)
  \/ handle_message_notification \/ OtherResult \/ ClosePopup \/ CloseResult
  \/ InfoApplied \/ InfoRefreshed

Spec == Init /\ [][Next]_vars

-----------------------------------------------------------------------------
(* Properties.                                                             *)

\* A form is called ready exactly when no field of it is red; it is then not
\* turned away for its days, and is published as details, preview and confirmation
\* showed it: no text of it is read as a zero, no range as a single amount (validate,
\* field_status, build_rows, the preview, the confirmation and send_new_order parse the
\* same texts one by one).  A blank premium is sent as the zero the details show; the
\* other two show none.
ReadyIsSentAsShown ==
  form # NoForm =>
    /\ validate(form, accepted) <=>
         \A field \in FormFields : field_status(form, field, accepted) # "bad"
    /\ validate(form, accepted) =>
         LET sent == send_new_order(form) IN
         /\ build_rows(form) = sent /\ sent.days > 0
         /\ \A shown \in {build_preview_lines(form), render_order_confirm(form)} :
              IF form.text["Premium"] = Blank
              THEN [shown EXCEPT !.premium = sent.premium] = sent ELSE shown = sent

\* While a form is edited or confirmed no other version of it is kept aside: a
\* draft can be neither overwritten nor come back over what was typed since.
OneVersion ==
  mode \in {"CreatingOrder", "ConfirmingOrder"} => draft = NoForm

\* A form put aside, by leaving the tab or by sending it, is only taken out to be
\* edited again, or forgotten when its wait ends with an order or a payment.
DraftIsKept ==
  [][draft # NoForm =>
       \/ draft' = draft
       \/ mode' = "CreatingOrder" /\ form' = draft
       \/ mode = "WaitingForMostro" /\ mode' \in {"Success", "PaymentRequest"}]_vars

\* A range order can be taken exactly when its box is green, and an amount that is
\* sent lies within the range; other orders are taken without one.
TakenWithinRange ==
  /\ mode = "TakingOrder" /\ is_range_order(take.order) =>
       (MayTake(take) <=> BoxColor(take) = "green")
  /\ mode = "WaitingTakeOrder" /\ AmountTaken(take) # NoLimit =>
       /\ take.order.min # NoLimit => AmountTaken(take) >= take.order.min
       /\ take.order.max # NoLimit => AmountTaken(take) <= take.order.max
=============================================================================
