------------------------------- MODULE ErrorText -------------------------------
(***************************************************************************)
(* protocol/json/utils.cpp: what guess_error makes of the text with which  *)
(* the exchange refuses a request.  A text is a sequence of words, every   *)
(* word in one spelling: the comparison ignores case.                      *)
(***************************************************************************)
EXTENDS Naturals, Sequences

(* The texts looked for, in the order of the code, under their error.      *)
Listed == <<
  <<"INVALID_ACCOUNT", <<"account", "is", "suspended">>>>,
  <<"INVALID_ACCOUNT", <<"accounts", "do", "not", "match">>>>,
  <<"INVALID_ORDER_ID", <<"duplicate", "clOrdID">>>>,
  <<"INVALID_ORDER_ID", <<"duplicate", "orderID">>>>,
  <<"INVALID_SYMBOL", <<"instrument", "expired">>>>,
  <<"INVALID_SYMBOL", <<"instrument", "not", "listed", "for", "trading", "yet">>>>,
  <<"INVALID_SYMBOL", <<"instruments", "do", "not", "match">>>>,
  <<"INVALID_ACCOUNT", <<"invalid", "account">>>>,
  <<"INVALID_PRICE", <<"invalid", "avgPx">>>>,
  <<"INVALID_QUANTITY", <<"invalid", "cumQty">>>>,
  <<"INVALID_EXECUTION_INSTRUCTION", <<"invalid", "displayQty", "for", "execInst">>>>,
  <<"INVALID_QUANTITY", <<"invalid", "displayQty">>>>,
  <<"INVALID_EXECUTION_INSTRUCTION", <<"invalid", "execIns">>>>,
  <<"INVALID_QUANTITY", <<"invalid", "leavesQty">>>>,
  <<"TOO_LATE_TO_MODIFY_OR_CANCEL",
    <<"invalid", "ordStatus", "(trying", "to", "amend", "a", "canceled", "or",
      "filled", "order)">>>>,
  <<"INVALID_EXECUTION_INSTRUCTION", <<"invalid", "ordType", "for", "execInst">>>>,
  <<"INVALID_EXECUTION_INSTRUCTION",
    <<"invalid", "ordType", "or", "timeInForce", "for", "execInst">>>>,
  <<"INVALID_ORDER_ID", <<"invalid", "orderID">>>>,
  <<"INVALID_QUANTITY", <<"invalid", "orderQty", "or", "simpleOrderQty">>>>,
  <<"INVALID_QUANTITY", <<"invalid", "orderQty">>>>,
  <<"TOO_LATE_TO_MODIFY_OR_CANCEL", <<"invalid", "origClOrdID">>>>,
  <<"INVALID_PRICE", <<"invalid", "price", "tickSize">>>>,
  <<"INVALID_PRICE", <<"invalid", "price">>>>,
  <<"INVALID_SIDE", <<"invalid", "side">>>>,
  <<"INVALID_QUANTITY", <<"invalid", "simpleCumQty">>>>,
  <<"INVALID_QUANTITY", <<"invalid", "simpleLeavesQty">>>>,
  <<"INVALID_QUANTITY", <<"invalid", "simpleOrderQty">>>>,
  <<"INVALID_STOP_PRICE", <<"invalid", "stopPx", "for", "ordType">>>>,
  <<"INVALID_STOP_PRICE", <<"invalid", "stopPx", "tickSize">>>>,
  <<"INVALID_SYMBOL", <<"invalid", "symbol">>>>,
  <<"INVALID_EXECUTION_INSTRUCTION", <<"unsupported", "execInst">>>>,
  <<"INVALID_ORDER_TYPE", <<"unsupported", "ordType">>>>,
  <<"INVALID_TIME_IN_FORCE", <<"unsupported", "timeInForce">>>>,
  <<"INSUFFICIENT_FUNDS",
    <<"account", "has", "insufficient", "available", "balance">>>>,
  <<"INSUFFICIENT_FUNDS", <<"account", "has", "no">>>>,
  <<"INSUFFICIENT_FUNDS", <<"account", "is", "in", "margin", "call">>>>,
  <<"INVALID_PRICE",
    <<"order", "price", "is", "above", "the", "liquidation", "price", "of",
      "current", "short", "position">>>>,
  <<"INVALID_PRICE",
    <<"order", "price", "is", "below", "the", "liquidation", "price", "of",
      "current", "long", "position">>>>,
  <<"INVALID_PRICE", <<"price", "greater", "than", "limitUpPrice">>>>,
  <<"INVALID_PRICE", <<"price", "less", "than", "limitDownPrice">>>>,
  <<"INVALID_QUANTITY", <<"invalid", "leavesQty", "for", "lotSize">>>>,
  <<"INVALID_ORDER_ID", <<"orderID", "or", "origClOrdID", "must", "be", "sent.">>>>,
  <<"REQUEST_RATE_LIMIT_REACHED", <<"rate-limit", "has", "been", "reached">>>>,
  <<"REQUEST_RATE_LIMIT_REACHED", <<"rate", "limit", "exceeded,", "retry", "in">>>>
  >>

ListedErrors == {Listed[n][1] : n \in DOMAIN Listed}

(* compare cuts the listed text, and not the message, to the shorter of    *)
(* the two: they match if the message is the beginning of the text.        *)
BeginningOf(message, text) ==
  Len(message) <= Len(text) /\ message = SubSeq(text, 1, Len(message))

\* mutant: a common first word is enough
SameFirstWord(message, text) == Head(message) = Head(text)
Matches(message, text) == BeginningOf(message, text)

Hits(message) == {n \in DOMAIN Listed : Matches(message, Listed[n][2])}

GuessError(message) ==
  IF message = <<>> THEN "UNDEFINED"
  ELSE IF Hits(message) = {} THEN "UNKNOWN"
  ELSE Listed[CHOOSE n \in Hits(message) : \A k \in Hits(message) : n <= k][1]

===============================================================================
