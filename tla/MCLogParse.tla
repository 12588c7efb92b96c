----------------------------- MODULE MCLogParse -----------------------------
(* Field orders for LogParse.                                               *)
EXTENDS LogParse

EvalFirst == <<"rate", "mean", "total", "state">>
EvalLast == <<"total", "mean", "state", "rate">>
EvalAmid == <<"state", "rate", "total", "mean">>
AllOrders == {EvalFirst, EvalAmid, EvalLast}
=============================================================================
