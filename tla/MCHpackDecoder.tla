---------------------------- MODULE MCHpackDecoder ----------------------------
(* Names and spellings for TLC.  "te" is captured, "t" and "tee" lie along   *)
(* its pattern, and the plain spelling of "coded" is the Huffman code of     *)
(* "te".                                                                     *)
EXTENDS HpackDecoder

MCAppendixA ==      \* RFC 7541, appendix A
    <<":authority", ":method", ":method", ":path", ":path", ":scheme", ":scheme",
      ":status", ":status", ":status", ":status", ":status", ":status", ":status",
      "accept-charset", "accept-encoding", "accept-language", "accept-ranges",
      "accept", "access-control-allow-origin", "age", "allow", "authorization",
      "cache-control", "content-disposition", "content-encoding",
      "content-language", "content-length", "content-location", "content-range",
      "content-type", "cookie", "date", "etag", "expect", "expires", "from",
      "host", "if-match", "if-modified-since", "if-none-match", "if-range",
      "if-unmodified-since", "last-modified", "link", "location", "max-forwards",
      "proxy-authenticate", "proxy-authorization", "range", "referer", "refresh",
      "retry-after", "server", "set-cookie", "strict-transport-security",
      "transfer-encoding", "user-agent", "vary", "via", "www-authenticate">>

MCOtherCase == <<>>
MCNames == ToSet(MCAppendixA) \union {"t", "te", "tee", "coded", ""}

\* A byte of its own stands for every other name.
Number(n) == CHOOSE j \in 1..61 : MCAppendixA[j] = n /\ \A k \in 1..(j - 1) : MCAppendixA[k] # n
MCPlain == [n \in MCNames |-> CASE n = "t" -> <<116>> [] n = "" -> <<>>
                                [] n = "te" -> <<116, 101>>
                                [] n = "tee" -> <<116, 101, 101>> [] n = "coded" -> <<73, 5>>
                                [] OTHER -> <<Number(n), 0>>]
MCHuff == [n \in MCNames |-> CASE n = "t" -> <<73>> [] n = "" -> <<>> [] n = "te" -> <<73, 5>>
                               [] n = "tee" -> <<73, 5, 41>> [] n = "coded" -> <<7, 7, 7>>
                               [] OTHER -> <<Number(n), 255>>]

MCCaptures == <<"te", ":method", "te", "content-type", "age">>
MCEmpty == [len |-> 0, huff |-> TRUE]
MCLong == [len |-> 130, huff |-> TRUE]
MCValues == {MCEmpty, MCLong}

ASSUME WideEnough /\ LengthsFit /\ StaticTableAgrees
=============================================================================
