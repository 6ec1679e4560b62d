----------------------------- MODULE Vocabulary -----------------------------
(***************************************************************************)
(* The words for one thing in the tables and services, in the protocol     *)
(* between the services, and in the REST interface, and how each layer     *)
(* translates them: a switch with a default, or a map that may not have    *)
(* the word.  Errors are translated in the same way.                       *)
(***************************************************************************)

(* A translation is a function of the words that it names. *)
Word(translation, word, default) ==
    IF word \in DOMAIN translation THEN translation[word] ELSE default

-----------------------------------------------------------------------------
(* The status of an order.                                                 *)

OrderStatuses == {"open", "partially_filled", "filled", "cancelled"}

domainOrderStatusToProto ==
    [open             |-> "ORDER_STATUS_OPEN",
     partially_filled |-> "ORDER_STATUS_PARTIALLY_FILLED",
     filled           |-> "ORDER_STATUS_FILLED",
     cancelled        |-> "ORDER_STATUS_CANCELLED"]

protoOrderStatusToDomain ==
    [ORDER_STATUS_OPEN             |-> "open",
     ORDER_STATUS_PARTIALLY_FILLED |-> "partially_filled",
     ORDER_STATUS_FILLED           |-> "filled",
     ORDER_STATUS_CANCELLED        |-> "cancelled"]

protoOrderStatusToString ==
    [ORDER_STATUS_OPEN             |-> "open",
     ORDER_STATUS_PARTIALLY_FILLED |-> "partial",
     ORDER_STATUS_FILLED           |-> "filled",
     ORDER_STATUS_CANCELLED        |-> "cancelled"]

OrderStatus_value == DOMAIN protoOrderStatusToDomain \cup {"ORDER_STATUS_UNSPECIFIED"}

(* The filter of a list of orders; "" is none. *)
OrderFilter(word) ==
    Word(protoOrderStatusToDomain,
         IF word \in OrderStatus_value THEN word ELSE "ORDER_STATUS_UNSPECIFIED", "")

ShownOrderStatus(status) ==
    Word(protoOrderStatusToString,
         Word(domainOrderStatusToProto, status, "ORDER_STATUS_UNSPECIFIED"), "unknown")

-----------------------------------------------------------------------------
(* The side of an order.                                                   *)

(* The gateway refuses a word that is not here. *)
PlacedSide == [buy |-> "ORDER_SIDE_BUY", sell |-> "ORDER_SIDE_SELL"]

protoOrderSideToDomain == [ORDER_SIDE_BUY |-> "buy", ORDER_SIDE_SELL |-> "sell"]

domainOrderSideToProto == [buy |-> "ORDER_SIDE_BUY", sell |-> "ORDER_SIDE_SELL"]

protoOrderSideToString == protoOrderSideToDomain

OrderSide(word) == Word(protoOrderSideToDomain, PlacedSide[word], "buy")

ShownOrderSide(side) ==
    Word(protoOrderSideToString,
         Word(domainOrderSideToProto, side, "ORDER_SIDE_UNSPECIFIED"), "unknown")

-----------------------------------------------------------------------------
(* The status and the type of a market.                                    *)

MarketStatuses == {"draft", "open", "closed", "resolved", "cancelled"}

stringToMarketStatus ==
    [draft     |-> "MARKET_STATUS_DRAFT",
     open      |-> "MARKET_STATUS_OPEN",
     closed    |-> "MARKET_STATUS_CLOSED",
     resolved  |-> "MARKET_STATUS_RESOLVED",
     cancelled |-> "MARKET_STATUS_CANCELLED"]

(* What an administrator can ask for. *)
statusMap ==
    [open      |-> "MARKET_STATUS_OPEN",
     closed    |-> "MARKET_STATUS_CLOSED",
     cancelled |-> "MARKET_STATUS_CANCELLED"]

domainMarketStatusToProto ==
    [draft     |-> "MARKET_STATUS_DRAFT",
     open      |-> "MARKET_STATUS_OPEN",
     closed    |-> "MARKET_STATUS_CLOSED",
     resolved  |-> "MARKET_STATUS_RESOLVED",
     cancelled |-> "MARKET_STATUS_CANCELLED"]

protoMarketStatusToDomain ==
    [MARKET_STATUS_DRAFT     |-> "draft",
     MARKET_STATUS_OPEN      |-> "open",
     MARKET_STATUS_CLOSED    |-> "closed",
     MARKET_STATUS_RESOLVED  |-> "resolved",
     MARKET_STATUS_CANCELLED |-> "cancelled"]

marketStatusToString == protoMarketStatusToDomain

MarketFilter(word) ==
    LET proto == Word(stringToMarketStatus, word, "MARKET_STATUS_UNSPECIFIED")
    IN  IF proto = "MARKET_STATUS_UNSPECIFIED" THEN ""
        ELSE Word(protoMarketStatusToDomain, proto, "draft")

ShownMarketStatus(status) ==
    Word(marketStatusToString,
         Word(domainMarketStatusToProto, status, "MARKET_STATUS_UNSPECIFIED"), "unknown")

(* Only the protocol's names are known, and any other is a binary market. *)
MarketType_value == {"MARKET_TYPE_UNSPECIFIED", "MARKET_TYPE_BINARY", "MARKET_TYPE_MULTI"}

protoMarketTypeToDomain ==
    [MARKET_TYPE_BINARY |-> "binary", MARKET_TYPE_MULTI |-> "multi"]

CreatedType(word) ==
    Word(protoMarketTypeToDomain,
         IF word \in MarketType_value THEN word ELSE "MARKET_TYPE_UNSPECIFIED", "binary")

domainMarketTypeToProto ==
    [binary |-> "MARKET_TYPE_BINARY", multi |-> "MARKET_TYPE_MULTI"]

marketTypeToString == protoMarketTypeToDomain

ShownMarketType(type) ==
    Word(marketTypeToString, Word(domainMarketTypeToProto, type, "MARKET_TYPE_UNSPECIFIED"), "unknown")

-----------------------------------------------------------------------------
(* The dimension of a ranking and the type of a user.                      *)

Dimensions == {"total_assets", "pnl", "volume", "win_rate"}

dimensionMap ==
    [total_assets |-> "RANK_DIMENSION_TOTAL_ASSETS",
     pnl          |-> "RANK_DIMENSION_PNL",
     volume       |-> "RANK_DIMENSION_VOLUME",
     win_rate     |-> "RANK_DIMENSION_WIN_RATE"]

protoDimensionToDomain ==
    [RANK_DIMENSION_TOTAL_ASSETS |-> "total_assets",
     RANK_DIMENSION_PNL          |-> "pnl",
     RANK_DIMENSION_VOLUME       |-> "volume",
     RANK_DIMENSION_WIN_RATE     |-> "win_rate"]

domainDimensionToProto == dimensionMap

RankedBy(word) ==
    Word(protoDimensionToDomain,
         Word(dimensionMap, word, "RANK_DIMENSION_UNSPECIFIED"), "total_assets")

(* A user's ranks: one query for each dimension, and none for a user whom *)
(* the view does not have.                                                 *)
GetByUser(ranked) == IF ranked THEN Dimensions ELSE {}

domainUserToProto == [human |-> "USER_TYPE_HUMAN", agent |-> "USER_TYPE_AGENT"]
protoUserToResponse == [USER_TYPE_AGENT |-> "agent"]
ShownUserType(type) ==
    Word(protoUserToResponse, Word(domainUserToProto, type, "USER_TYPE_UNSPECIFIED"), "human")

-----------------------------------------------------------------------------
(* Errors: of the services, in the protocol and as an HTTP status.         *)

toGRPCError ==
    [NOT_FOUND |-> "NotFound", UNAUTHORIZED |-> "Unauthenticated",
     FORBIDDEN |-> "PermissionDenied", BAD_REQUEST |-> "InvalidArgument",
     CONFLICT |-> "AlreadyExists", INTERNAL_ERROR |-> "Internal",
     INSUFFICIENT_BALANCE |-> "FailedPrecondition",
     MARKET_CLOSED |-> "FailedPrecondition", INVALID_PRICE |-> "InvalidArgument"]

(* An error that has no code of its own, of a statement or of the engine,  *)
(* is "Internal".                                                          *)
Code(err) == Word(toGRPCError, err, "Internal")

EverythingIsBadRequest(code) == 400                      \* mutated form
handleGRPCError(code) ==
    CASE code = "InvalidArgument"                         -> 400
      [] code = "Unauthenticated"                         -> 401
      [] code = "PermissionDenied"                        -> 403
      [] code = "NotFound"                                -> 404
      [] code \in {"FailedPrecondition", "AlreadyExists"} -> 409
      [] OTHER                                            -> 500
=============================================================================
