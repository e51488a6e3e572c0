---- MODULE MCOrderEntry ----
EXTENDS OrderEntry

\* One value of every sort a parser tells apart, where the default has another.
MCFormTexts ==
  [f \in TextFields |->
     CASE f = "AmountSats"     -> {Junk}
       [] f = "FiatAmount"     -> {2}
       [] f = "FiatAmountMax"  -> {2, 5}
       [] f = "PaymentMethod"  -> {Word}
       [] f = "Premium"        -> {Blank}
       [] f = "ExpirationDays" -> {0}]

MCInstances == {{}, {"EUR"}}

MCOrders == {[min |-> 2, max |-> 4], [min |-> NoLimit, max |-> 3],
             [min |-> NoLimit, max |-> NoLimit]}

MCTakeTexts ==
  {Blank, Junk, [halves |-> 2, whole |-> TRUE], [halves |-> 4, whole |-> TRUE],
   [halves |-> 4, whole |-> FALSE], [halves |-> 5, whole |-> FALSE],
   [halves |-> 8, whole |-> TRUE], [halves |-> 10, whole |-> TRUE]}
====
