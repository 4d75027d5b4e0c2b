-------------------------------- MODULE Uri --------------------------------
(***************************************************************************)
(* Uri::parse (uri.h:18-89).  A position beyond the end of the text is     *)
(* where the code has end().                                               *)
(***************************************************************************)
EXTENDS Integers, Sequences, StrUtils

CONSTANTS
  Low,             (* tolower, a function on characters                    *)
  DigitOf,         (* the digits and their values                          *)
  LongMax          (* the largest long                                     *)

QueryStart(raw) == FindChar(raw, 1, "?")

(* "://" is at a position and something is behind it.                      *)
Separates(raw, i) == OccursAt(raw, <<":", "/", "/">>, i) /\ i + 3 <= Len(raw)

(* The protocol ends at the first colon, if that is a separator.           *)
HasProtocol(raw) == Separates(raw, FindChar(raw, 1, ":"))

(* A variant for mutation: any first colon ends a protocol.                *)
HostBehindColon(raw) ==
  LET colon == FindChar(raw, 1, ":") IN IF colon + 3 <= Len(raw) THEN colon + 3 ELSE 1

HostStart(raw) == IF HasProtocol(raw) THEN FindChar(raw, 1, ":") + 3 ELSE 1

PathStart(raw) == FindChar(raw, HostStart(raw), "/")

HasPath(raw) == PathStart(raw) <= Len(raw)

(* A variant for mutation: the host goes on over the path.                 *)
AuthorityToQuery(raw) == QueryStart(raw)

(* Where the host and the port end.                                        *)
AuthorityEnd(raw) == IF HasPath(raw) THEN PathStart(raw) ELSE QueryStart(raw)

(* The host, or what follows it, begins behind the query.  A part from one *)
(* position to an earlier one is a string of a negative length, which the  *)
(* constructor refuses; a search from there for the colon of a port leaves *)
(* the text, and what it finds makes such a part as well.                  *)
Refused(raw) ==
  \/ QueryStart(raw) < HostStart(raw)
  \/ HasPath(raw) /\ QueryStart(raw) < PathStart(raw)

DefaultPort(protocol) ==
  CASE IEquals(protocol, <<"h", "t", "t", "p">>, Low) -> 80
    [] IEquals(protocol, <<"h", "t", "t", "p", "s">>, Low) -> 443
    [] OTHER -> 0

(* What parse() returns for a text that is not refused.                    *)
Parse(raw) ==
  LET start == HostStart(raw)
      authority == SubSeq(raw, 1, AuthorityEnd(raw) - 1)
      hostEnd == FindChar(authority, start, ":")
      protocol == IF HasProtocol(raw) THEN SubSeq(raw, 1, start - 4) ELSE <<>>
      rawPort == SubSeq(authority, hostEnd + 1, Len(authority))
      port == FromChars(rawPort, DigitOf, LongMax).number
  IN  [ protocol |-> protocol,
        host |-> SubSeq(raw, start, hostEnd - 1),
        rawPort |-> rawPort,
        port |-> IF port = 0 THEN DefaultPort(protocol) ELSE port,
        path |-> IF HasPath(raw) THEN SubSeq(raw, PathStart(raw), QueryStart(raw) - 1) ELSE <<>>,
        queryString |-> SubSeq(raw, QueryStart(raw), Len(raw)) ]

NoUri ==
  [protocol |-> <<>>, host |-> <<>>, rawPort |-> <<>>, port |-> 0, path |-> <<>>, queryString |-> <<>>]
=============================================================================
