------------------------------- MODULE Orders -------------------------------
(***************************************************************************)
(* struct Order of common/structs.h and its method update, by which an     *)
(* order object absorbs a newer view of the same order: a push from the    *)
(* exchange or the answer to a query.                                      *)
(*                                                                         *)
(* Quantities count contracts and amounts of quote currency are natural    *)
(* numbers.  A price is a pair <<amount, contracts>> standing for their    *)
(* quotient, NoPrice for the 0 of an unset double.  The n-th unit traded   *)
(* is unit n, so a fill that update appends is described by the units it   *)
(* covers, `from + 1 .. to', instead of by their number `to - from'.       *)
(* Fields that update copies without looking at them (prices of the order, *)
(* net amounts, exchange timestamps, detail) are left out.                 *)
(***************************************************************************)
EXTENDS Integers, Sequences

CONSTANT Times  \* values of the wall clock, time_get_now_milli()
ASSUME TimesAssumption == Times \subseteq Nat \ {0}

\* enum class OrderStatus
OrderStatus == {"Created", "New", "PartiallyFilled", "Filled", "Canceling",
                "Canceled", "Amending", "Rejected", "Expired", "Failed"}

Price == Nat \X Nat
NoPrice == <<0, 0>>

Order == [status : OrderStatus, milli : Nat, oid : {"", "oid"}, ec : {"Ok", "Error"},
          cum : Nat, quote : Int, dbase : Nat, dquote : Int, avg : Price]
\* OrderFill: the units it covers and its price
Fill == [from : Nat, to : Nat, price : Price]

\* A default-constructed order, as place_order receives it.
NewOrder(t) == [status |-> "Created", milli |-> t, oid |-> "", ec |-> "Ok",
                cum |-> 0, quote |-> 0, dbase |-> 0, dquote |-> 0, avg |-> NoPrice]

Larger(a, b) == IF a < b THEN b ELSE a

-----------------------------------------------------------------------------
(* bool update(const Order& other), on the order o with the fills fs       *)

\* Faulty: nothing is expected of an order that is being cancelled.
RefusesCanceling(o, other) ==
  o.status \in {"Failed", "Filled", "Canceling"}

\* The states update does not leave.
Refuses(o, other) ==
  \/ o.status \in {"Failed", "Filled"}
  \/ o.status = "Canceled" /\ other.status = "Amending"
  \/ o.status = "Amending" /\ other.status \in {"Created", "New"}

\* status_transit, which is also what update returns
Transits(o, other) ==
  /\ \/ other.status # o.status
     \/ other.cum > o.cum
     \/ other.milli >= o.milli
  /\ ~Refuses(o, other)

\* The assignments of an update that goes through.
Absorbed(o, other) ==
  LET more == other.cum > o.cum
  IN  [status |-> other.status,
       milli  |-> IF other.milli # 0 THEN other.milli ELSE o.milli,
       oid    |-> IF other.oid # "" THEN other.oid ELSE o.oid,
       ec     |-> other.ec,
       cum    |-> Larger(o.cum, other.cum),
       quote  |-> Larger(o.quote, other.quote),
       dbase  |-> IF more THEN other.cum - o.cum ELSE 0,
       dquote |-> IF more THEN other.quote - o.quote ELSE 0,
       avg    |-> IF other.avg # NoPrice THEN other.avg ELSE o.avg]

\* Faulty: the increment is taken without asking whether there is one.
UpdatedAnyDelta(o, other) ==
  IF Transits(o, other)
  THEN [Absorbed(o, other) EXCEPT !.dbase = other.cum - o.cum]
  ELSE [o EXCEPT !.dbase = 0, !.dquote = 0, !.ec = other.ec]

\* Faulty: cum_deal_base is overwritten, by pushes without amounts as well.
UpdatedTakesCum(o, other) ==
  IF Transits(o, other)
  THEN [Absorbed(o, other) EXCEPT !.cum = other.cum]
  ELSE [o EXCEPT !.dbase = 0, !.dquote = 0, !.ec = other.ec]

\* Faulty: cum_deal_quote is taken for an increment.
UpdatedAddsQuote(o, other) ==
  IF Transits(o, other)
  THEN [Absorbed(o, other) EXCEPT !.quote = o.quote + other.quote]
  ELSE [o EXCEPT !.dbase = 0, !.dquote = 0, !.ec = other.ec]

Updated(o, other) ==
  IF Transits(o, other) THEN Absorbed(o, other)
  ELSE [o EXCEPT !.dbase = 0, !.dquote = 0, !.ec = other.ec]

\* Faulty: the fill gets the price the order had before.
UpdatedFillsOldPrice(o, fs, other) ==
  IF Transits(o, other) /\ other.cum > o.cum
  THEN Append(fs, [from |-> o.cum, to |-> other.cum, price |-> o.avg])
  ELSE fs

UpdatedFills(o, fs, other) ==
  IF Transits(o, other) /\ other.cum > o.cum
  THEN Append(fs, [from |-> o.cum, to |-> other.cum, price |-> other.avg])
  ELSE fs
=============================================================================
