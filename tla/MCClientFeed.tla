---------------------------- MODULE MCClientFeed ----------------------------
(***************************************************************************)
(* ClientFeed for TLC: a few lines of each kind that the events file of    *)
(* src/iex_python holds or its generator can write.                        *)
(***************************************************************************)
EXTENDS ClientFeed

REV == <<82, 69, 86>>
TSLA == <<84, 83, 76, 65>>
TSLQ == <<84, 83, 76, 81>>

Line(type, ts, side, symbol, id, price, size) ==
    [type |-> type, timestamp |-> ts, side |-> side, symbol |-> symbol,
     order_id |-> id, price |-> price, size |-> size]

CharS == 83

\* 0.29 dollars come to 28 cents; 16909060 has four different bytes.
ShortCents == {29}

FeedLines ==
    [type : {"limit_add"}, timestamp : {1, 2}, side : {CharB, CharS},
     symbol : {REV}, order_id : {<<97>>}, price : {29, 16909060}, size : {5}]
    \cup [type : {"cancel", "level_cleared"}, timestamp : {1, 2}, side : {CharB},
          symbol : {REV}, order_id : {<<97>>}, price : {300}, size : {5}]
    \cup {Line("cancel_no_trade", 2, CharS, REV, Null, 300, 5),
          Line("limit_add", 2, CharB, REV, <<98>>, 0, 5),
          Line("update", 1, CharS, REV, <<97>>, 300, 0),
          Line("limit_add", 1, CharB, REV, <<98>>, Null, 5),
          Line("multi_level_sweep", 2, CharS, REV, Null, 300, Null),
          Line("modify", 1, CharB, REV, <<97>>, 300, 5),
          Line("limit_add", 1, Null, REV, <<98>>, 300, 5),
          Malformed}

SymbolLines ==
    [type : {"limit_add"}, timestamp : {1, 2}, side : {CharB, CharS},
     symbol : {REV, TSLA, TSLQ}, order_id : {<<97>>, <<98>>}, price : {300},
     size : {5}]
=============================================================================
